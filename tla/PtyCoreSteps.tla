--------------------------- MODULE PtyCoreSteps -----------------------------
(*****************************************************************************)
(* Steps of PtyCore that keep IInv: those of a process (its accept loop, a   *)
(* shutdown, Sessions that end), of the clients that launch, and of the core *)
(* that hands off.  One lemma per action: the conjuncts it can disturb, then *)
(* the frames.                                                               *)
(*****************************************************************************)
EXTENDS PtyCoreInvariant, TLAPS

\* A conjunct keeps its value while the variables it reads keep theirs.
LEMMA Frames ==
    /\ CoreTypeOK /\ UNCHANGED <<proc, lock, listener, socket, record, live, hosted,
       ending, ended, wakes, spc>> => CoreTypeOK'
    /\ FlagTypeOK /\ UNCHANGED <<shutting, handing, handed>> => FlagTypeOK'
    /\ HandTypeOK /\ UNCHANGED <<hpc, peer, moving, from, todo, answer>> => HandTypeOK'
    /\ LaunchTypeOK /\ UNCHANGED <<file, client, lpc, at, host>> => LaunchTypeOK'
    /\ LockInv /\ UNCHANGED <<proc, lock, listener>> => LockInv'
    /\ FreshInv /\ UNCHANGED <<proc, shutting, handed, handing, spc, hpc, live, hosted,
       ending>> => FreshInv'
    /\ PeerInv /\ UNCHANGED <<proc, hpc, peer, from, handing>> => PeerInv'
    /\ TodoInv /\ UNCHANGED <<proc, todo, live>> => TodoInv'
    /\ SetsInv /\ UNCHANGED <<live, hosted, ending>> => SetsInv'
    /\ MovingInv /\ UNCHANGED <<proc, hpc, moving, live, hosted, ending>> => MovingInv'
    /\ OwnedInv /\ UNCHANGED <<proc, hpc, moving, live, hosted, ending, lpc, at>> =>
       OwnedInv'
    /\ ShutInv /\ UNCHANGED <<proc, shutting, live, handed>> => ShutInv'
<1>1. CoreTypeOK /\ UNCHANGED <<proc, lock, listener, socket, record, live, hosted,
   ending, ended, wakes, spc>> => CoreTypeOK'
  BY Zenon DEF CoreTypeOK
<1>2. FlagTypeOK /\ UNCHANGED <<shutting, handing, handed>> => FlagTypeOK'
  BY Zenon DEF FlagTypeOK
<1>3. HandTypeOK /\ UNCHANGED <<hpc, peer, moving, from, todo, answer>> => HandTypeOK'
  BY Zenon DEF HandTypeOK
<1>4. LaunchTypeOK /\ UNCHANGED <<file, client, lpc, at, host>> => LaunchTypeOK'
  BY Zenon DEF LaunchTypeOK
<1>5. LockInv /\ UNCHANGED <<proc, lock, listener>> => LockInv'
  BY Zenon DEF LockInv, OneListener, Running
<1>6. FreshInv /\ UNCHANGED <<proc, shutting, handed, handing, spc, hpc, live, hosted,
   ending>> => FreshInv'
  BY Zenon DEF FreshInv
<1>7. PeerInv /\ UNCHANGED <<proc, hpc, peer, from, handing>> => PeerInv'
  BY DEF PeerInv, Running, Asked
<1>8. TodoInv /\ UNCHANGED <<proc, todo, live>> => TodoInv'
  BY Zenon DEF TodoInv
<1>9. SetsInv /\ UNCHANGED <<live, hosted, ending>> => SetsInv'
  BY Zenon DEF SetsInv
<1>10. MovingInv /\ UNCHANGED <<proc, hpc, moving, live, hosted, ending>> => MovingInv'
  BY Zenon DEF MovingInv, Running, Handing, Moving
<1>11. OwnedInv /\ UNCHANGED <<proc, hpc, moving, live, hosted, ending, lpc, at>> =>
   OwnedInv'
  BY Zenon DEF OwnedInv, Running, Owned, Moving
<1>12. ShutInv /\ UNCHANGED <<proc, shutting, live, handed>> => ShutInv'
  BY Zenon DEF ShutInv
<1> QED
  BY Zenon, <1>1, <1>2, <1>3, <1>4, <1>5, <1>6, <1>7, <1>8, <1>9, <1>10, <1>11, <1>12
-----------------------------------------------------------------------------
LEMMA RunCoreStep == ASSUME IInv, NEW c \in Cores, RunCore(c) PROVE IInv'
<1>1. CoreTypeOK'
  BY Zenon DEF RunCore, coreVars, IInv, CoreTypeOK, TypeOK
<1>2. LockInv'
  BY Zenon DEF RunCore, IInv, LockInv, OneListener, Running, TypeOK, CoreTypeOK
<1>3. FreshInv'
  BY Zenon DEF RunCore, coreVars, handVars, IInv, StartInv, FreshInv, TypeOK, CoreTypeOK,
     FlagTypeOK, HandTypeOK
<1>4. PeerInv'
  BY DEF RunCore, coreVars, handVars, IInv, StartInv, PeerInv, Running, Asked, TypeOK,
     CoreTypeOK, FlagTypeOK, HandTypeOK, FreshInv, LockInv
<1>5. TodoInv'
  BY Zenon DEF RunCore, coreVars, handVars, IInv, StartInv, TodoInv, TypeOK, CoreTypeOK,
     HandTypeOK
<1>6. MovingInv'
  BY DEF RunCore, coreVars, handVars, IInv, LiveInv, MovingInv, Running, Handing,
     Moving, TypeOK, CoreTypeOK, HandTypeOK, StartInv, FreshInv
<1>7. OwnedInv'
  BY Zenon DEF RunCore, coreVars, handVars, launchVars, IInv, LiveInv, OwnedInv, Running,
     Owned, Moving, TypeOK, CoreTypeOK, HandTypeOK, LaunchTypeOK
<1>8. ShutInv'
  BY Zenon DEF RunCore, coreVars, IInv, ShutInv, TypeOK, CoreTypeOK, FlagTypeOK
<1> QED
  BY <1>1, <1>2, <1>3, <1>4, <1>5, <1>6, <1>7, <1>8, Frames, Zenon DEF RunCore,
     coreVars, handVars, launchVars, IInv, TypeOK, StartInv, LiveInv

LEMMA AcceptWakeStep == ASSUME IInv, NEW c \in Cores, AcceptWake(c) PROVE IInv'
<1>1. listener[c] \in Cores
  BY Zenon DEF AcceptWake, IInv, LockInv, Running
<1>2. CoreTypeOK'
  BY <1>1 DEF AcceptWake, AfterAccept, coreVars, diskVars, IInv, CoreTypeOK, TypeOK
<1>3. LockInv'
  BY <1>1 DEF AcceptWake, AfterAccept, IInv, LockInv, OneListener, Running, TypeOK,
     CoreTypeOK
<1>4. FreshInv'
  BY Zenon, <1>1 DEF AcceptWake, AfterAccept, coreVars, handVars, IInv, StartInv, FreshInv,
     TypeOK, CoreTypeOK, FlagTypeOK, HandTypeOK
<1>5. PeerInv'
  BY <1>1 DEF AcceptWake, AfterAccept, coreVars, handVars, IInv, StartInv, PeerInv,
     Running, Asked, TypeOK, CoreTypeOK, FlagTypeOK, HandTypeOK
<1>6. TodoInv'
  BY Zenon, <1>1 DEF AcceptWake, AfterAccept, coreVars, handVars, IInv, StartInv, TodoInv,
     TypeOK, CoreTypeOK, HandTypeOK
<1>7. MovingInv'
  BY <1>1 DEF AcceptWake, AfterAccept, coreVars, handVars, IInv, LiveInv, MovingInv,
     Running, Handing, Moving, TypeOK, CoreTypeOK, HandTypeOK
<1>8. OwnedInv'
  BY Zenon, <1>1 DEF AcceptWake, AfterAccept, coreVars, handVars, launchVars, IInv, LiveInv,
     OwnedInv, Running, Owned, Moving, TypeOK, CoreTypeOK, HandTypeOK, LaunchTypeOK
<1>9. ShutInv'
  BY Zenon, <1>1 DEF AcceptWake, AfterAccept, coreVars, IInv, ShutInv, TypeOK, CoreTypeOK,
     FlagTypeOK
<1> QED
  BY <1>2, <1>3, <1>4, <1>5, <1>6, <1>7, <1>8, <1>9, Frames, Zenon DEF AcceptWake,
     AfterAccept, coreVars, diskVars, handVars, launchVars, IInv, TypeOK, StartInv,
     LiveInv

LEMMA AcceptPingStep == ASSUME IInv, NEW c \in Cores, AcceptPing(c) PROVE IInv'
<1>1. CoreTypeOK'
  BY Zenon DEF AcceptPing, AfterAccept, coreVars, diskVars, IInv, CoreTypeOK, TypeOK
<1>2. LockInv'
  BY DEF AcceptPing, AfterAccept, IInv, LockInv, OneListener, Running, TypeOK, CoreTypeOK
<1>3. FreshInv'
  BY Zenon DEF AcceptPing, AfterAccept, coreVars, handVars, IInv, StartInv, FreshInv, TypeOK,
     CoreTypeOK, FlagTypeOK, HandTypeOK
<1>4. PeerInv'
  BY DEF AcceptPing, AfterAccept, coreVars, handVars, IInv, StartInv, PeerInv, Running,
     Asked, TypeOK, CoreTypeOK, FlagTypeOK, HandTypeOK
<1>5. TodoInv'
  BY Zenon DEF AcceptPing, AfterAccept, coreVars, handVars, IInv, StartInv, TodoInv, TypeOK,
     CoreTypeOK, HandTypeOK
<1>6. MovingInv'
  BY DEF AcceptPing, AfterAccept, coreVars, handVars, IInv, LiveInv, MovingInv, Running,
     Handing, Moving, TypeOK, CoreTypeOK, HandTypeOK
<1>7. OwnedInv'
  BY Zenon DEF AcceptPing, AfterAccept, coreVars, handVars, launchVars, IInv, LiveInv,
     OwnedInv, Running, Owned, Moving, TypeOK, CoreTypeOK, HandTypeOK, LaunchTypeOK
<1>8. ShutInv'
  BY Zenon DEF AcceptPing, AfterAccept, coreVars, IInv, ShutInv, TypeOK, CoreTypeOK, FlagTypeOK
<1> QED
  BY <1>1, <1>2, <1>3, <1>4, <1>5, <1>6, <1>7, <1>8, Frames, Zenon DEF AcceptPing,
     AfterAccept, coreVars, diskVars, handVars, launchVars, IInv, TypeOK, StartInv,
     LiveInv

LEMMA ExitHandedStep == ASSUME IInv, NEW c \in Cores, ExitHanded(c) PROVE IInv'
<1>1. CoreTypeOK'
  BY Zenon DEF ExitHanded, Exit, diskVars, IInv, CoreTypeOK, TypeOK
<1>2. LockInv'
  BY DEF ExitHanded, Exit, IInv, LockInv, OneListener, Running, TypeOK, CoreTypeOK
<1>3. FreshInv'
  BY DEF ExitHanded, Exit, handVars, IInv, StartInv, FreshInv, TypeOK, CoreTypeOK,
     FlagTypeOK, HandTypeOK
<1>4. PeerInv'
  BY DEF ExitHanded, Exit, handVars, IInv, StartInv, PeerInv, Running, Asked, TypeOK,
     CoreTypeOK, FlagTypeOK, HandTypeOK
<1>5. TodoInv'
  BY Zenon DEF ExitHanded, Exit, handVars, IInv, StartInv, TodoInv, TypeOK, CoreTypeOK,
     HandTypeOK
<1>6. SetsInv'
  BY Zenon DEF ExitHanded, Exit, IInv, LiveInv, SetsInv, TypeOK, CoreTypeOK
<1>7. MovingInv'
  BY DEF ExitHanded, Exit, handVars, IInv, LiveInv, MovingInv, Running, Handing, Moving,
     TypeOK, CoreTypeOK, HandTypeOK
<1>8. OwnedInv'
  BY DEF ExitHanded, Exit, handVars, launchVars, IInv, LiveInv, OwnedInv, Running,
     Owned, Moving, TypeOK, CoreTypeOK, HandTypeOK, LaunchTypeOK
<1>9. ShutInv'
  BY Zenon DEF ExitHanded, Exit, IInv, ShutInv, TypeOK, CoreTypeOK, FlagTypeOK
<1> QED
  BY <1>1, <1>2, <1>3, <1>4, <1>5, <1>6, <1>7, <1>8, <1>9, Frames, Zenon DEF ExitHanded,
     Exit, diskVars, handVars, launchVars, IInv, TypeOK, StartInv, LiveInv

LEMMA ExitShutdownStep == ASSUME IInv, NEW c \in Cores, ExitShutdown(c) PROVE IInv'
<1>1. CoreTypeOK'
  BY Zenon DEF ExitShutdown, Exit, IInv, CoreTypeOK, TypeOK
<1>2. LockInv'
  BY Zenon DEF ExitShutdown, Exit, IInv, LockInv, OneListener, Running, TypeOK, CoreTypeOK
<1>3. FreshInv'
  BY Zenon DEF ExitShutdown, Exit, handVars, IInv, StartInv, FreshInv, TypeOK, CoreTypeOK,
     FlagTypeOK, HandTypeOK
<1>4. PeerInv'
  BY DEF ExitShutdown, Exit, handVars, IInv, StartInv, PeerInv, Running, Asked, TypeOK,
     CoreTypeOK, FlagTypeOK, HandTypeOK
<1>5. TodoInv'
  BY Zenon DEF ExitShutdown, Exit, handVars, IInv, StartInv, TodoInv, TypeOK, CoreTypeOK,
     HandTypeOK
<1>6. SetsInv'
  BY Zenon DEF ExitShutdown, Exit, IInv, LiveInv, SetsInv, TypeOK, CoreTypeOK
<1>7. MovingInv'
  BY DEF ExitShutdown, Exit, handVars, IInv, LiveInv, MovingInv, Running, Handing,
     Moving, TypeOK, CoreTypeOK, HandTypeOK
<1>8. OwnedInv'
  BY DEF ExitShutdown, Exit, handVars, launchVars, IInv, LiveInv, OwnedInv, Running,
     Owned, Moving, TypeOK, CoreTypeOK, HandTypeOK, LaunchTypeOK
<1>9. ShutInv'
  BY Zenon DEF ExitShutdown, Exit, IInv, ShutInv, TypeOK, CoreTypeOK, FlagTypeOK
<1> QED
  BY <1>1, <1>2, <1>3, <1>4, <1>5, <1>6, <1>7, <1>8, <1>9, Frames, Zenon DEF
     ExitShutdown, Exit, handVars, launchVars, IInv, TypeOK, StartInv, LiveInv

LEMMA ShutdownAcceptStep == ASSUME IInv, NEW c \in Cores, ShutdownAccept(c) PROVE IInv'
<1>1. CoreTypeOK'
  BY Zenon DEF ShutdownAccept, AfterAccept, coreVars, diskVars, IInv, CoreTypeOK, TypeOK
<1>2. LockInv'
  BY DEF ShutdownAccept, AfterAccept, IInv, LockInv, OneListener, Running, TypeOK,
     CoreTypeOK
<1>3. FreshInv'
  BY Zenon DEF ShutdownAccept, AfterAccept, coreVars, handVars, IInv, StartInv, FreshInv,
     TypeOK, CoreTypeOK, FlagTypeOK, HandTypeOK
<1>4. PeerInv'
  BY DEF ShutdownAccept, AfterAccept, coreVars, handVars, IInv, StartInv, PeerInv,
     Running, Asked, TypeOK, CoreTypeOK, FlagTypeOK, HandTypeOK
<1>5. TodoInv'
  BY Zenon DEF ShutdownAccept, AfterAccept, coreVars, handVars, IInv, StartInv, TodoInv,
     TypeOK, CoreTypeOK, HandTypeOK
<1>6. MovingInv'
  BY DEF ShutdownAccept, AfterAccept, coreVars, handVars, IInv, LiveInv, MovingInv,
     Running, Handing, Moving, TypeOK, CoreTypeOK, HandTypeOK
<1>7. OwnedInv'
  BY DEF ShutdownAccept, AfterAccept, coreVars, handVars, launchVars, IInv, LiveInv,
     OwnedInv, Running, Owned, Moving, TypeOK, CoreTypeOK, HandTypeOK, LaunchTypeOK
<1>8. ShutInv'
  BY Zenon DEF ShutdownAccept, AfterAccept, coreVars, IInv, ShutInv, TypeOK, CoreTypeOK,
     FlagTypeOK
<1> QED
  BY <1>1, <1>2, <1>3, <1>4, <1>5, <1>6, <1>7, <1>8, Frames, Zenon DEF ShutdownAccept,
     AfterAccept, coreVars, diskVars, handVars, launchVars, IInv, TypeOK, StartInv,
     LiveInv

LEMMA ShutdownDecideStep == ASSUME IInv, NEW c \in Cores, ShutdownDecide(c) PROVE IInv'
<1>1. CoreTypeOK'
  BY DEF ShutdownDecide, Wake, diskVars, IInv, CoreTypeOK, TypeOK
<1>2. FlagTypeOK'
  BY Zenon DEF ShutdownDecide, Wake, IInv, FlagTypeOK, TypeOK
<1>3. FreshInv'
  BY DEF ShutdownDecide, Wake, handVars, IInv, StartInv, FreshInv, TypeOK, CoreTypeOK,
     FlagTypeOK, HandTypeOK
<1>4. ShutInv'
  BY Zenon DEF ShutdownDecide, Wake, IInv, ShutInv, TypeOK, CoreTypeOK, FlagTypeOK
<1> QED
  BY <1>1, <1>2, <1>3, <1>4, Frames, Zenon DEF ShutdownDecide, Wake, diskVars, handVars,
     launchVars, IInv, TypeOK, StartInv, LiveInv

LEMMA SessionEndsStep == ASSUME IInv, NEW c \in Cores, NEW s \in Sessions,
   SessionEnds(c, s) PROVE IInv'
<1>1. CoreTypeOK'
  BY Zenon DEF SessionEnds, diskVars, IInv, CoreTypeOK, TypeOK
<1>2. FreshInv'
  BY Zenon DEF SessionEnds, handVars, IInv, StartInv, FreshInv, TypeOK, CoreTypeOK,
     FlagTypeOK, HandTypeOK
<1>3. SetsInv'
  BY Zenon DEF SessionEnds, IInv, LiveInv, SetsInv, TypeOK, CoreTypeOK
<1>4. MovingInv'
  BY DEF SessionEnds, handVars, IInv, LiveInv, MovingInv, Running, Handing, Moving,
     TypeOK, CoreTypeOK, HandTypeOK
<1>5. OwnedInv'
  BY DEF SessionEnds, handVars, launchVars, IInv, LiveInv, OwnedInv, Running, Owned,
     Moving, TypeOK, CoreTypeOK, HandTypeOK, LaunchTypeOK
<1> QED
  BY <1>1, <1>2, <1>3, <1>4, <1>5, Frames, Zenon DEF SessionEnds, diskVars, handVars,
     launchVars, IInv, TypeOK, StartInv, LiveInv

LEMMA SessionExitStep == ASSUME IInv, NEW c \in Cores, NEW s \in Sessions,
   SessionExit(c, s) PROVE IInv'
<1>1. CoreTypeOK'
  BY Zenon DEF SessionExit, diskVars, IInv, CoreTypeOK, TypeOK
<1>2. FreshInv'
  BY Zenon DEF SessionExit, handVars, IInv, StartInv, FreshInv, TypeOK, CoreTypeOK,
     FlagTypeOK, HandTypeOK
<1>3. TodoInv'
  BY Zenon DEF SessionExit, handVars, IInv, StartInv, TodoInv, TypeOK, CoreTypeOK, HandTypeOK
<1>4. SetsInv'
  BY Zenon DEF SessionExit, IInv, LiveInv, SetsInv, TypeOK, CoreTypeOK
<1>5. MovingInv'
  BY DEF SessionExit, handVars, IInv, LiveInv, MovingInv, Running, Handing, Moving,
     TypeOK, CoreTypeOK, HandTypeOK
<1>6. OwnedInv'
  BY DEF SessionExit, handVars, launchVars, IInv, LiveInv, OwnedInv, Running, Owned,
     Moving, TypeOK, CoreTypeOK, HandTypeOK, LaunchTypeOK
<1>7. ShutInv'
  BY Zenon DEF SessionExit, IInv, ShutInv, TypeOK, CoreTypeOK, FlagTypeOK
<1> QED
  BY <1>1, <1>2, <1>3, <1>4, <1>5, <1>6, <1>7, Frames, Zenon DEF SessionExit, diskVars,
     handVars, launchVars, IInv, TypeOK, StartInv, LiveInv

LEMMA LaunchDirectStep == ASSUME IInv, NEW s \in Sessions, LaunchDirect(s) PROVE IInv'
<1>1. LaunchTypeOK'
  BY Zenon DEF LaunchDirect, IInv, LaunchTypeOK, TypeOK
<1> QED
  BY <1>1, Frames, Zenon DEF LaunchDirect, coreVars, diskVars, handVars, IInv, TypeOK,
     StartInv, LiveInv

LEMMA LaunchAskStep == ASSUME IInv, NEW s \in Sessions, LaunchAsk(s) PROVE IInv'
<1>1. LaunchTypeOK'
  BY Zenon DEF LaunchAsk, IInv, LaunchTypeOK, TypeOK, CoreTypeOK
<1>2. OwnedInv'
  BY DEF LaunchAsk, coreVars, handVars, IInv, LiveInv, OwnedInv, Running, Owned, Moving,
     TypeOK, CoreTypeOK, HandTypeOK, LaunchTypeOK
<1> QED
  BY <1>1, <1>2, Frames, Zenon DEF LaunchAsk, coreVars, diskVars, handVars, IInv,
     TypeOK, StartInv, LiveInv

LEMMA LaunchReplyStep == ASSUME IInv, NEW s \in Sessions, LaunchReply(s) PROVE IInv'
<1>1. LaunchTypeOK'
  BY Zenon DEF LaunchReply, IInv, LaunchTypeOK, TypeOK
<1> QED
  BY <1>1, Frames, Zenon DEF LaunchReply, coreVars, diskVars, handVars, IInv, TypeOK,
     StartInv, LiveInv

LEMMA LaunchLateStep == ASSUME IInv, NEW s \in Sessions, LaunchLate(s) PROVE IInv'
<1>1. LaunchTypeOK'
  BY Zenon DEF LaunchLate, IInv, LaunchTypeOK, TypeOK
<1> QED
  BY <1>1, Frames, Zenon DEF LaunchLate, coreVars, diskVars, handVars, IInv, TypeOK,
     StartInv, LiveInv

LEMMA HostReadStep == ASSUME IInv, NEW s \in Sessions, HostRead(s) PROVE IInv'
<1>1. LaunchTypeOK'
  BY Zenon DEF HostRead, IInv, LaunchTypeOK, TypeOK
<1> QED
  BY <1>1, Frames, Zenon DEF HostRead, coreVars, diskVars, handVars, IInv, TypeOK,
     StartInv, LiveInv

LEMMA HostRunStep == ASSUME IInv, NEW s \in Sessions, HostRun(s) PROVE IInv'
<1>1. LaunchTypeOK'
  BY Zenon DEF HostRun, IInv, LaunchTypeOK, TypeOK
<1> QED
  BY <1>1, Frames, Zenon DEF HostRun, coreVars, diskVars, handVars, IInv, TypeOK,
     StartInv, LiveInv
-----------------------------------------------------------------------------
\* The effect is what the action says.
LEMMA AcceptHasEffect ==
    ASSUME TypeOK, NEW d \in Cores, NEW c \in Cores, HandoffAccept(d, c)
    PROVE  AcceptEffect(d, c)
<1>1. c # d /\ proc[c] = "off" /\ proc[d] = "serving"
  BY Zenon DEF HandoffAccept
<1>2. AfterAccept(d) \in {"serving", "leaving"}
      /\ (AfterAccept(d) = "leaving" => shutting[d] \/ handed[d])
  BY Zenon DEF AfterAccept
<1>3. CASE handing[d]
  <2>1. proc' = [proc EXCEPT ![d] = AfterAccept(d), ![c] = "exited"]
        /\ UNCHANGED <<handing, hpc, peer, from>>
    BY Zenon, <1>3 DEF HandoffAccept
  <2> QED
    BY Zenon, <1>1, <1>2, <2>1 DEF HandoffAccept, TypeOK, CoreTypeOK, AcceptEffect
<1>4. CASE ~handing[d]
  <2>1. /\ proc' = [proc EXCEPT ![d] = AfterAccept(d), ![c] = "asking"]
        /\ handing' = [handing EXCEPT ![d] = TRUE]
        /\ hpc' = [hpc EXCEPT ![d] = "gated"]
        /\ peer' = [peer EXCEPT ![d] = c] /\ from' = [from EXCEPT ![c] = d]
    BY Zenon, <1>4 DEF HandoffAccept
  <2>2. /\ \A e \in Cores \ {c, d} : proc'[e] = proc[e]
        /\ proc'[d] \in {"serving", "leaving"} /\ proc'[c] = "asking"
        /\ proc'[d] = "leaving" => shutting[d] \/ handed[d]
    BY Zenon, <1>1, <1>2, <2>1 DEF TypeOK, CoreTypeOK
  <2>3. handing'[d] /\ \A e \in Cores \ {d} : handing'[e] = handing[e]
    BY <2>1, Zenon DEF TypeOK, FlagTypeOK
  <2>4. /\ \A e \in Cores \ {d} : hpc'[e] = hpc[e] /\ peer'[e] = peer[e]
        /\ \A e \in Cores \ {c} : from'[e] = from[e]
        /\ hpc'[d] = "gated" /\ peer'[d] = c /\ from'[c] = d
    BY Zenon, <2>1 DEF TypeOK, HandTypeOK
  <2>5. UNCHANGED <<lock, listener, wakes, spc, ended, live, shutting, handed,
                    hosted, ending, diskVars, moving, todo, answer, launchVars>>
    BY Zenon DEF HandoffAccept
  <2> QED
    BY <1>1, <1>4, <2>2, <2>3, <2>4, <2>5, Zenon DEF AcceptEffect
<1> QED
  BY Zenon, <1>3, <1>4

LEMMA HandoffGateStep == ASSUME IInv, NEW c \in Cores, HandoffGate(c) PROVE IInv'
<1>1. peer[c] \in Cores /\ peer[c] # c /\ from[peer[c]] = c /\ proc[peer[c]] = "asking"
  BY Zenon DEF HandoffGate, IInv, StartInv, PeerInv, Asked, Running
<1>2. /\ \A e \in Cores : proc'[e] # proc[e] => proc[e] = "asking" /\ proc'[e] = "exited"
      /\ \A e \in Cores : hpc'[e] = hpc[e]
                            \/ hpc'[e] \in {"none", "waiting", "ready"}
      /\ UNCHANGED <<live, hosted, ending, moving, lpc, at>>
  BY <1>1 DEF HandoffGate, Refuse, launchVars, IInv, TypeOK, CoreTypeOK, HandTypeOK
<1>3. CoreTypeOK'
  BY <1>1, <1>2 DEF HandoffGate, Refuse, diskVars, IInv, CoreTypeOK, TypeOK
<1>4. FlagTypeOK'
  BY <1>1, <1>2, Zenon DEF HandoffGate, Refuse, IInv, FlagTypeOK, TypeOK
<1>5. HandTypeOK'
  BY <1>1, <1>2 DEF HandoffGate, Refuse, IInv, HandTypeOK, TypeOK
<1>6. LockInv'
  BY <1>1, <1>2 DEF HandoffGate, Refuse, IInv, LockInv, OneListener, Running, TypeOK,
     CoreTypeOK
<1>7. FreshInv'
  BY <1>1, <1>2 DEF HandoffGate, Refuse, IInv, StartInv, FreshInv, TypeOK, CoreTypeOK,
     FlagTypeOK, HandTypeOK
<1>8. PeerInv'
  BY <1>1, <1>2 DEF HandoffGate, Refuse, IInv, StartInv, PeerInv, Running, Asked,
     TypeOK, CoreTypeOK, FlagTypeOK, HandTypeOK
<1>9. TodoInv'
  BY <1>1, <1>2 DEF HandoffGate, Refuse, IInv, StartInv, TodoInv, TypeOK, CoreTypeOK,
     HandTypeOK
<1>10. MovingInv'
  BY <1>2 DEF IInv, LiveInv, MovingInv, Running, Handing, Moving
<1>11. OwnedInv'
  BY <1>2 DEF IInv, LiveInv, OwnedInv, Running, Owned, Moving
<1>12. ShutInv'
  BY <1>1, <1>2 DEF HandoffGate, Refuse, IInv, ShutInv, TypeOK, CoreTypeOK, FlagTypeOK
<1> QED
  BY <1>3, <1>4, <1>5, <1>6, <1>7, <1>8, <1>9, <1>10, <1>11, <1>12, Frames, Zenon DEF
     HandoffGate, Refuse, diskVars, launchVars, IInv, TypeOK, StartInv, LiveInv

LEMMA HandoffWaitStep == ASSUME IInv, NEW c \in Cores, HandoffWait(c) PROVE IInv'
<1>1. peer[c] \in Cores /\ peer[c] # c /\ from[peer[c]] = c /\ proc[peer[c]] = "asking"
  BY Zenon DEF HandoffWait, IInv, StartInv, PeerInv, Asked, Running
<1>2. /\ \A e \in Cores : proc'[e] # proc[e] => proc[e] = "asking" /\ proc'[e] = "exited"
      /\ \A e \in Cores : hpc'[e] = hpc[e]
                            \/ hpc'[e] \in {"none", "waiting", "ready"}
      /\ UNCHANGED <<live, hosted, ending, moving, lpc, at>>
  BY <1>1 DEF HandoffWait, Refuse, launchVars, IInv, TypeOK, CoreTypeOK, HandTypeOK
<1>3. CoreTypeOK'
  BY <1>1, <1>2 DEF HandoffWait, Refuse, diskVars, IInv, CoreTypeOK, TypeOK
<1>4. FlagTypeOK'
  BY <1>1, <1>2, Zenon DEF HandoffWait, Refuse, IInv, FlagTypeOK, TypeOK
<1>5. HandTypeOK'
  BY <1>1, <1>2 DEF HandoffWait, Refuse, IInv, HandTypeOK, TypeOK
<1>6. LockInv'
  BY <1>1, <1>2 DEF HandoffWait, Refuse, IInv, LockInv, OneListener, Running, TypeOK,
     CoreTypeOK
<1>7. FreshInv'
  BY <1>1, <1>2 DEF HandoffWait, Refuse, IInv, StartInv, FreshInv, TypeOK, CoreTypeOK,
     FlagTypeOK, HandTypeOK
<1>8. PeerInv'
  BY <1>1, <1>2 DEF HandoffWait, Refuse, IInv, StartInv, PeerInv, Running, Asked,
     TypeOK, CoreTypeOK, FlagTypeOK, HandTypeOK
<1>9. TodoInv'
  BY <1>1, <1>2 DEF HandoffWait, Refuse, IInv, StartInv, TodoInv, TypeOK, CoreTypeOK,
     HandTypeOK
<1>10. MovingInv'
  BY <1>2 DEF IInv, LiveInv, MovingInv, Running, Handing, Moving
<1>11. OwnedInv'
  BY <1>2 DEF IInv, LiveInv, OwnedInv, Running, Owned, Moving
<1>12. ShutInv'
  BY <1>1, <1>2 DEF HandoffWait, Refuse, IInv, ShutInv, TypeOK, CoreTypeOK, FlagTypeOK
<1> QED
  BY <1>3, <1>4, <1>5, <1>6, <1>7, <1>8, <1>9, <1>10, <1>11, <1>12, Frames, Zenon DEF
     HandoffWait, Refuse, diskVars, launchVars, IInv, TypeOK, StartInv, LiveInv

LEMMA HandoffExportStep == ASSUME IInv, NEW c \in Cores, HandoffExport(c) PROVE IInv'
<1>1. peer[c] \in Cores /\ peer[c] # c /\ from[peer[c]] = c /\ proc[peer[c]] = "asking"
   /\ hpc[peer[c]] = "none"
  BY Zenon DEF HandoffExport, IInv, StartInv, PeerInv, Asked, Running, FreshInv, TypeOK,
     CoreTypeOK, HandTypeOK
<1>2. CoreTypeOK'
  BY Zenon, <1>1 DEF HandoffExport, coreVars, diskVars, IInv, CoreTypeOK, TypeOK
<1>3. HandTypeOK'
  BY Zenon, <1>1 DEF HandoffExport, IInv, HandTypeOK, TypeOK, CoreTypeOK
<1>4. LockInv'
  BY <1>1 DEF HandoffExport, IInv, LockInv, OneListener, Running, TypeOK, CoreTypeOK
<1>5. FreshInv'
  BY <1>1 DEF HandoffExport, coreVars, IInv, StartInv, FreshInv, TypeOK, CoreTypeOK,
     FlagTypeOK, HandTypeOK
<1>6. PeerInv'
  BY <1>1 DEF HandoffExport, coreVars, IInv, StartInv, PeerInv, Running, Asked, TypeOK,
     CoreTypeOK, FlagTypeOK, HandTypeOK
<1>7. TodoInv'
  BY <1>1 DEF HandoffExport, coreVars, IInv, StartInv, TodoInv, TypeOK, CoreTypeOK,
     HandTypeOK, FreshInv
<1>8. MovingInv'
  BY <1>1 DEF HandoffExport, coreVars, IInv, LiveInv, MovingInv, Running, Handing,
     Moving, TypeOK, CoreTypeOK, HandTypeOK, SetsInv
<1>9. OwnedInv'
  BY <1>1, SMTT(30) DEF HandoffExport, coreVars, launchVars, IInv, LiveInv, OwnedInv,
     Running, Owned, Moving, TypeOK, CoreTypeOK, HandTypeOK, LaunchTypeOK
<1>10. ShutInv'
  BY Zenon, <1>1 DEF HandoffExport, coreVars, IInv, ShutInv, TypeOK, CoreTypeOK, FlagTypeOK
<1> QED
  BY <1>2, <1>3, <1>4, <1>5, <1>6, <1>7, <1>8, <1>9, <1>10, Frames, Zenon DEF
     HandoffExport, coreVars, diskVars, launchVars, IInv, TypeOK, StartInv, LiveInv

LEMMA HandoffExportFailsStep == ASSUME IInv, NEW c \in Cores, HandoffExportFails(c)
   PROVE IInv'
<1>1. peer[c] \in Cores /\ peer[c] # c /\ from[peer[c]] = c /\ proc[peer[c]] = "asking"
  BY Zenon DEF HandoffExportFails, IInv, StartInv, PeerInv, Asked, Running
<1>2. /\ \A e \in Cores : proc'[e] # proc[e] => proc[e] = "asking" /\ proc'[e] = "exited"
      /\ \A e \in Cores : hpc'[e] = hpc[e]
                            \/ hpc'[e] \in {"none", "waiting", "ready"}
      /\ UNCHANGED <<live, hosted, ending, moving, lpc, at>>
  BY Zenon, <1>1 DEF HandoffExportFails, Refuse, launchVars, IInv, TypeOK, CoreTypeOK, HandTypeOK
<1>3. CoreTypeOK'
  BY <1>1, <1>2 DEF HandoffExportFails, Refuse, diskVars, IInv, CoreTypeOK, TypeOK
<1>4. FlagTypeOK'
  BY <1>1, <1>2, Zenon DEF HandoffExportFails, Refuse, IInv, FlagTypeOK, TypeOK
<1>5. HandTypeOK'
  BY <1>1, <1>2 DEF HandoffExportFails, Refuse, IInv, HandTypeOK, TypeOK
<1>6. LockInv'
  BY <1>1, <1>2 DEF HandoffExportFails, Refuse, IInv, LockInv, OneListener, Running,
     TypeOK, CoreTypeOK
<1>7. FreshInv'
  BY <1>1, <1>2 DEF HandoffExportFails, Refuse, IInv, StartInv, FreshInv, TypeOK,
     CoreTypeOK, FlagTypeOK, HandTypeOK
<1>8. PeerInv'
  BY <1>1, <1>2 DEF HandoffExportFails, Refuse, IInv, StartInv, PeerInv, Running, Asked,
     TypeOK, CoreTypeOK, FlagTypeOK, HandTypeOK
<1>9. TodoInv'
  BY <1>1, <1>2 DEF HandoffExportFails, Refuse, IInv, StartInv, TodoInv, TypeOK,
     CoreTypeOK, HandTypeOK
<1>10. MovingInv'
  BY <1>2 DEF IInv, LiveInv, MovingInv, Running, Handing, Moving
<1>11. OwnedInv'
  BY <1>2 DEF IInv, LiveInv, OwnedInv, Running, Owned, Moving
<1>12. ShutInv'
  BY <1>1, <1>2 DEF HandoffExportFails, Refuse, IInv, ShutInv, TypeOK, CoreTypeOK,
     FlagTypeOK
<1> QED
  BY <1>3, <1>4, <1>5, <1>6, <1>7, <1>8, <1>9, <1>10, <1>11, <1>12, Frames, Zenon DEF
     HandoffExportFails, Refuse, diskVars, launchVars, IInv, TypeOK, StartInv, LiveInv

LEMMA HandoffCommittedStep == ASSUME IInv, NEW c \in Cores, HandoffCommitted(c) PROVE
   IInv'
<1>1. CoreTypeOK'
  BY Zenon DEF HandoffCommitted, diskVars, IInv, CoreTypeOK, TypeOK
<1>2. HandTypeOK'
  BY Zenon DEF HandoffCommitted, IInv, HandTypeOK, TypeOK
<1>3. FreshInv'
  BY DEF HandoffCommitted, IInv, StartInv, FreshInv, TypeOK, CoreTypeOK, FlagTypeOK,
     HandTypeOK
<1>4. PeerInv'
  BY DEF HandoffCommitted, IInv, StartInv, PeerInv, Running, Asked, TypeOK, CoreTypeOK,
     FlagTypeOK, HandTypeOK
<1>5. SetsInv'
  BY Zenon DEF HandoffCommitted, IInv, LiveInv, SetsInv, TypeOK, CoreTypeOK
<1>6. MovingInv'
  BY DEF HandoffCommitted, IInv, LiveInv, MovingInv, Running, Handing, Moving, TypeOK,
     CoreTypeOK, HandTypeOK
<1>7. OwnedInv'
  BY DEF HandoffCommitted, launchVars, IInv, LiveInv, OwnedInv, Running, Owned, Moving,
     TypeOK, CoreTypeOK, HandTypeOK, LaunchTypeOK
<1> QED
  BY <1>1, <1>2, <1>3, <1>4, <1>5, <1>6, <1>7, Frames, Zenon DEF HandoffCommitted,
     diskVars, launchVars, IInv, TypeOK, StartInv, LiveInv

LEMMA HandoffDoneStep == ASSUME IInv, NEW c \in Cores, HandoffDone(c) PROVE IInv'
<1>1. CoreTypeOK'
  BY DEF HandoffDone, Wake, diskVars, IInv, CoreTypeOK, TypeOK
<1>2. FlagTypeOK'
  BY Zenon DEF HandoffDone, Wake, IInv, FlagTypeOK, TypeOK
<1>3. HandTypeOK'
  BY Zenon DEF HandoffDone, Wake, IInv, HandTypeOK, TypeOK
<1>4. FreshInv'
  BY DEF HandoffDone, Wake, IInv, StartInv, FreshInv, TypeOK, CoreTypeOK, FlagTypeOK,
     HandTypeOK
<1>5. PeerInv'
  BY DEF HandoffDone, Wake, IInv, StartInv, PeerInv, Running, Asked, TypeOK, CoreTypeOK,
     FlagTypeOK, HandTypeOK
<1>6. TodoInv'
  BY Zenon DEF HandoffDone, Wake, IInv, StartInv, TodoInv, TypeOK, CoreTypeOK, HandTypeOK
<1>7. SetsInv'
  BY DEF HandoffDone, Wake, IInv, LiveInv, SetsInv, TypeOK, CoreTypeOK, MovingInv,
     Running, Moving, HandTypeOK
<1>8. MovingInv'
  BY DEF HandoffDone, Wake, IInv, LiveInv, MovingInv, Running, Handing, Moving, TypeOK,
     CoreTypeOK, HandTypeOK
<1>9. OwnedInv'
  BY DEF HandoffDone, Wake, launchVars, IInv, LiveInv, OwnedInv, Running, Owned, Moving,
     TypeOK, CoreTypeOK, HandTypeOK, LaunchTypeOK
<1>10. ShutInv'
  BY Zenon DEF HandoffDone, Wake, IInv, ShutInv, TypeOK, CoreTypeOK, FlagTypeOK
<1> QED
  BY <1>1, <1>2, <1>3, <1>4, <1>5, <1>6, <1>7, <1>8, <1>9, <1>10, Frames, Zenon DEF
     HandoffDone, Wake, diskVars, launchVars, IInv, TypeOK, StartInv, LiveInv

LEMMA HandoffAbandonedStep == ASSUME IInv, NEW c \in Cores, HandoffAbandoned(c) PROVE
   IInv'
<1>1. HandTypeOK'
  BY Zenon DEF HandoffAbandoned, IInv, HandTypeOK, TypeOK
<1>2. FreshInv'
  BY DEF HandoffAbandoned, coreVars, IInv, StartInv, FreshInv, TypeOK, CoreTypeOK,
     FlagTypeOK, HandTypeOK
<1>3. PeerInv'
  BY DEF HandoffAbandoned, coreVars, IInv, StartInv, PeerInv, Running, Asked, TypeOK,
     CoreTypeOK, FlagTypeOK, HandTypeOK
<1>4. MovingInv'
  BY DEF HandoffAbandoned, coreVars, IInv, LiveInv, MovingInv, Running, Handing, Moving,
     TypeOK, CoreTypeOK, HandTypeOK
<1>5. OwnedInv'
  BY DEF HandoffAbandoned, coreVars, launchVars, IInv, LiveInv, OwnedInv, Running,
     Owned, Moving, TypeOK, CoreTypeOK, HandTypeOK, LaunchTypeOK
<1> QED
  BY <1>1, <1>2, <1>3, <1>4, <1>5, Frames, Zenon DEF HandoffAbandoned, coreVars,
     diskVars, launchVars, IInv, TypeOK, StartInv, LiveInv

LEMMA HandoffResumeStep == ASSUME IInv, NEW c \in Cores, HandoffResume(c) PROVE IInv'
<1>1. FlagTypeOK'
  BY Zenon DEF HandoffResume, IInv, FlagTypeOK, TypeOK
<1>2. HandTypeOK'
  BY Zenon DEF HandoffResume, IInv, HandTypeOK, TypeOK
<1>3. FreshInv'
  BY DEF HandoffResume, IInv, StartInv, FreshInv, TypeOK, CoreTypeOK, FlagTypeOK,
     HandTypeOK
<1>4. PeerInv'
  BY DEF HandoffResume, IInv, StartInv, PeerInv, Running, Asked, TypeOK, CoreTypeOK,
     FlagTypeOK, HandTypeOK
<1>5. MovingInv'
  BY DEF HandoffResume, IInv, LiveInv, MovingInv, Running, Handing, Moving, TypeOK,
     CoreTypeOK, HandTypeOK
<1>6. OwnedInv'
  BY DEF HandoffResume, launchVars, IInv, LiveInv, OwnedInv, Running, Owned, Moving,
     TypeOK, CoreTypeOK, HandTypeOK, LaunchTypeOK
<1> QED
  BY <1>1, <1>2, <1>3, <1>4, <1>5, <1>6, Frames, Zenon DEF HandoffResume, diskVars,
     launchVars, IInv, TypeOK, StartInv, LiveInv

LEMMA HandoffAcceptStep ==
    ASSUME IInv, NEW d \in Cores, NEW c \in Cores, HandoffAccept(d, c)
    PROVE  IInv'
<1>1. AcceptEffect(d, c)
  BY Zenon, AcceptHasEffect DEF IInv
<1>2. \A e \in Cores : Running(e)' => Running(e)
  BY <1>1, Zenon DEF AcceptEffect, Running
<1>3. \A e \in Cores \ {d} :
         handing'[e] = handing[e] /\ hpc'[e] = hpc[e] /\ peer'[e] = peer[e]
  BY <1>1, Zenon DEF AcceptEffect
<1>4. CoreTypeOK'
  BY Zenon DEF HandoffAccept, AfterAccept, diskVars, IInv, CoreTypeOK, TypeOK
<1>5. FlagTypeOK'
  BY Zenon DEF HandoffAccept, IInv, FlagTypeOK, TypeOK
<1>6. HandTypeOK'
  BY DEF HandoffAccept, IInv, HandTypeOK, TypeOK
<1>7. LockInv'
  <2>1. lock' = lock /\ listener' = listener
    BY Zenon DEF HandoffAccept
  <2> QED
    BY <1>2, <2>1, Zenon DEF IInv, LockInv, OneListener
<1>8. FreshInv'
  <2>1. \A e \in Cores : proc'[e] \notin {"serving", "leaving", "exited"} =>
           e # d /\ proc[e] \notin {"serving", "leaving", "exited"}
    BY Zenon, <1>1 DEF AcceptEffect
  <2>2. \A e \in Cores : proc'[e] \in {"off", "asking"} => proc[e] \in {"off", "asking"}
    BY Zenon, <1>1 DEF AcceptEffect
  <2>3. UNCHANGED <<shutting, handed, spc, live, hosted, ending>>
    BY Zenon DEF HandoffAccept
  <2> QED
    BY <1>3, <2>1, <2>2, <2>3, Zenon DEF IInv, StartInv, FreshInv
<1>9. PeerInv'
  <2>1. \A e \in Cores : Running(e)' /\ Asked(e)' =>
           peer'[e] \in Cores /\ peer'[e] # e /\ from'[peer'[e]] = e /\ proc'[peer'[e]]
              = "asking"
    BY <1>1, <1>2 DEF AcceptEffect, IInv, StartInv, PeerInv, Running, Asked
  <2>2. Running(d)' => (hpc'[d] # "none" => handing'[d] /\ peer'[d] \in Cores)
    <3>1. CASE handing'[d] = handing[d] /\ hpc'[d] = hpc[d] /\ peer'[d] = peer[d]
      BY <1>2, <3>1, Zenon DEF IInv, StartInv, PeerInv
    <3>2. CASE handing'[d] /\ hpc'[d] = "gated" /\ peer'[d] = c
      BY <3>2, Zenon
    <3> QED
      BY <1>1, <3>1, <3>2, Zenon DEF AcceptEffect
  <2>3. \A e \in Cores \ {d} :
           Running(e)' /\ hpc'[e] # "none" => handing'[e] /\ peer'[e] \in Cores
    BY <1>2, <1>3, Zenon DEF IInv, StartInv, PeerInv
  <2> QED
    BY <2>1, <2>2, <2>3, Zenon DEF PeerInv
<1>10. TodoInv'
  <2>1. \A e \in Cores : proc'[e] = "receiving" => proc[e] = "receiving"
    BY Zenon, <1>1 DEF AcceptEffect
  <2> QED
    BY Zenon, <2>1 DEF HandoffAccept, IInv, StartInv, TodoInv
<1>11. \A e \in Cores : hpc'[e] = hpc[e] \/ hpc'[e] = "gated"
  BY Zenon, <1>1 DEF AcceptEffect
<1>12. UNCHANGED <<live, hosted, ending, moving, lpc, at>>
  BY Zenon DEF HandoffAccept, launchVars
<1>13. MovingInv'
  BY Zenon, <1>2, <1>11, <1>12 DEF IInv, LiveInv, MovingInv, Handing, Moving
<1>14. OwnedInv'
  <2>1. \A e \in Cores : proc[e] \in {"serving", "leaving", "exited"} =>
           proc'[e] \in {"serving", "leaving", "exited"}
    BY Zenon, <1>1 DEF AcceptEffect
  <2> QED
    BY <1>2, <1>11, <1>12, <2>1 DEF IInv, LiveInv, OwnedInv, Running, Owned, Moving
<1>15. ShutInv'
  <2>1. \A e \in Cores : proc'[e] = "leaving" => proc[e] = "leaving" \/ shutting[e] \/
     handed[e]
    BY Zenon, <1>1 DEF AcceptEffect
  <2> QED
    BY <2>1, Zenon DEF HandoffAccept, IInv, ShutInv
<1> QED
  BY Zenon, <1>4, <1>5, <1>6, <1>7, <1>8, <1>9, <1>10, <1>13, <1>14, <1>15, Frames
     DEF HandoffAccept, launchVars, IInv, TypeOK, StartInv, LiveInv
=============================================================================
