--------------------------- MODULE PtyCoreProofs ----------------------------
(*****************************************************************************)
(* Proofs about PtyCore for any number of core processes and Sessions: all   *)
(* processes that serve share one listener, and a core that shuts down hosts *)
(* nothing.  First the steps of a successor and of a launch, then the        *)
(* theorems.                                                                 *)
(*****************************************************************************)
EXTENDS PtyCoreSteps

LEMMA TakeoverRecordStep == ASSUME IInv, NEW c \in Cores, TakeoverRecord(c) PROVE IInv'
<1>1. CoreTypeOK'
  BY Zenon DEF TakeoverRecord, coreVars, IInv, CoreTypeOK, TypeOK
<1>2. LockInv'
  BY DEF TakeoverRecord, IInv, LockInv, OneListener, Running, TypeOK, CoreTypeOK
<1>3. FreshInv'
  BY DEF TakeoverRecord, coreVars, handVars, IInv, StartInv, FreshInv, TypeOK,
     CoreTypeOK, FlagTypeOK, HandTypeOK
<1>4. PeerInv'
  BY DEF TakeoverRecord, coreVars, handVars, IInv, StartInv, PeerInv, Running, Asked,
     TypeOK, CoreTypeOK, FlagTypeOK, HandTypeOK
<1>5. TodoInv'
  BY DEF TakeoverRecord, coreVars, handVars, IInv, StartInv, TodoInv, TypeOK,
     CoreTypeOK, HandTypeOK
<1>6. MovingInv'
  BY DEF TakeoverRecord, coreVars, handVars, IInv, LiveInv, MovingInv, Running, Handing,
     Moving, TypeOK, CoreTypeOK, HandTypeOK
<1>7. OwnedInv'
  BY DEF TakeoverRecord, coreVars, handVars, launchVars, IInv, LiveInv, OwnedInv,
     Running, Owned, Moving, TypeOK, CoreTypeOK, HandTypeOK, LaunchTypeOK
<1>8. ShutInv'
  BY Zenon DEF TakeoverRecord, coreVars, IInv, ShutInv, TypeOK, CoreTypeOK, FlagTypeOK
<1> QED
  BY <1>1, <1>2, <1>3, <1>4, <1>5, <1>6, <1>7, <1>8, Frames, Zenon DEF TakeoverRecord,
     coreVars, handVars, launchVars, IInv, TypeOK, StartInv, LiveInv

LEMMA TakeoverCommitStep == ASSUME IInv, NEW c \in Cores, TakeoverCommit(c) PROVE IInv'
<1>1. CoreTypeOK'
  BY Zenon DEF TakeoverCommit, coreVars, diskVars, IInv, CoreTypeOK, TypeOK
<1>2. HandTypeOK'
  BY Zenon DEF TakeoverCommit, IInv, HandTypeOK, TypeOK
<1>3. LockInv'
  BY DEF TakeoverCommit, IInv, LockInv, OneListener, Running, TypeOK, CoreTypeOK
<1>4. FreshInv'
  BY DEF TakeoverCommit, coreVars, IInv, StartInv, FreshInv, TypeOK, CoreTypeOK,
     FlagTypeOK, HandTypeOK
<1>5. PeerInv'
  BY DEF TakeoverCommit, coreVars, IInv, StartInv, PeerInv, Running, Asked, TypeOK,
     CoreTypeOK, FlagTypeOK, HandTypeOK
<1>6. TodoInv'
  BY DEF TakeoverCommit, coreVars, IInv, StartInv, TodoInv, TypeOK, CoreTypeOK, HandTypeOK
<1>7. MovingInv'
  BY DEF TakeoverCommit, coreVars, IInv, LiveInv, MovingInv, Running, Handing, Moving,
     TypeOK, CoreTypeOK, HandTypeOK
<1>8. OwnedInv'
  BY DEF TakeoverCommit, coreVars, launchVars, IInv, LiveInv, OwnedInv, Running, Owned,
     Moving, TypeOK, CoreTypeOK, HandTypeOK, LaunchTypeOK
<1>9. ShutInv'
  BY DEF TakeoverCommit, coreVars, IInv, ShutInv, TypeOK, CoreTypeOK, FlagTypeOK
<1> QED
  BY <1>1, <1>2, <1>3, <1>4, <1>5, <1>6, <1>7, <1>8, <1>9, Frames, Zenon DEF
     TakeoverCommit, coreVars, diskVars, launchVars, IInv, TypeOK, StartInv, LiveInv

LEMMA TakeoverFailsStep == ASSUME IInv, NEW c \in Cores, TakeoverFails(c) PROVE IInv'
<1>1. CoreTypeOK'
  BY Zenon DEF TakeoverFails, coreVars, diskVars, IInv, CoreTypeOK, TypeOK
<1>2. HandTypeOK'
  BY Zenon DEF TakeoverFails, IInv, HandTypeOK, TypeOK
<1>3. LockInv'
  BY DEF TakeoverFails, IInv, LockInv, OneListener, Running, TypeOK, CoreTypeOK
<1>4. FreshInv'
  BY DEF TakeoverFails, coreVars, IInv, StartInv, FreshInv, TypeOK, CoreTypeOK,
     FlagTypeOK, HandTypeOK
<1>5. PeerInv'
  BY DEF TakeoverFails, coreVars, IInv, StartInv, PeerInv, Running, Asked, TypeOK,
     CoreTypeOK, FlagTypeOK, HandTypeOK
<1>6. TodoInv'
  BY DEF TakeoverFails, coreVars, IInv, StartInv, TodoInv, TypeOK, CoreTypeOK, HandTypeOK
<1>7. MovingInv'
  BY DEF TakeoverFails, coreVars, IInv, LiveInv, MovingInv, Running, Handing, Moving,
     TypeOK, CoreTypeOK, HandTypeOK
<1>8. OwnedInv'
  BY DEF TakeoverFails, coreVars, launchVars, IInv, LiveInv, OwnedInv, Running, Owned,
     Moving, TypeOK, CoreTypeOK, HandTypeOK, LaunchTypeOK
<1>9. ShutInv'
  BY DEF TakeoverFails, coreVars, IInv, ShutInv, TypeOK, CoreTypeOK, FlagTypeOK
<1> QED
  BY <1>1, <1>2, <1>3, <1>4, <1>5, <1>6, <1>7, <1>8, <1>9, Frames, Zenon DEF
     TakeoverFails, coreVars, diskVars, launchVars, IInv, TypeOK, StartInv, LiveInv

LEMMA TakeoverExitStep == ASSUME IInv, NEW c \in Cores, TakeoverExit(c) PROVE IInv'
<1>1. CoreTypeOK'
  BY Zenon DEF TakeoverExit, Exit, diskVars, IInv, CoreTypeOK, TypeOK
<1>2. LockInv'
  BY DEF TakeoverExit, Exit, IInv, LockInv, OneListener, Running, TypeOK, CoreTypeOK
<1>3. FreshInv'
  BY DEF TakeoverExit, Exit, handVars, IInv, StartInv, FreshInv, TypeOK, CoreTypeOK,
     FlagTypeOK, HandTypeOK
<1>4. PeerInv'
  BY DEF TakeoverExit, Exit, handVars, IInv, StartInv, PeerInv, Running, Asked, TypeOK,
     CoreTypeOK, FlagTypeOK, HandTypeOK
<1>5. TodoInv'
  BY DEF TakeoverExit, Exit, handVars, IInv, StartInv, TodoInv, TypeOK, CoreTypeOK,
     HandTypeOK
<1>6. SetsInv'
  BY DEF TakeoverExit, Exit, IInv, LiveInv, SetsInv, TypeOK, CoreTypeOK
<1>7. MovingInv'
  BY DEF TakeoverExit, Exit, handVars, IInv, LiveInv, MovingInv, Running, Handing,
     Moving, TypeOK, CoreTypeOK, HandTypeOK
<1>8. OwnedInv'
  BY DEF TakeoverExit, Exit, handVars, launchVars, IInv, LiveInv, OwnedInv, Running,
     Owned, Moving, TypeOK, CoreTypeOK, HandTypeOK, LaunchTypeOK
<1>9. ShutInv'
  BY DEF TakeoverExit, Exit, IInv, ShutInv, TypeOK, CoreTypeOK, FlagTypeOK
<1> QED
  BY <1>1, <1>2, <1>3, <1>4, <1>5, <1>6, <1>7, <1>8, <1>9, Frames, Zenon DEF
     TakeoverExit, Exit, diskVars, handVars, launchVars, IInv, TypeOK, StartInv, LiveInv

LEMMA TakeoverAdoptStep == ASSUME IInv, NEW c \in Cores, NEW s \in Sessions,
   TakeoverAdopt(c, s) PROVE IInv'
<1>1. hpc[c] = "none" /\ s \notin live[c] /\ ~shutting[c]
  BY Zenon DEF TakeoverAdopt, IInv, StartInv, FreshInv, TodoInv
<1>2. CoreTypeOK'
  BY <1>1 DEF TakeoverAdopt, diskVars, IInv, CoreTypeOK, TypeOK
<1>3. HandTypeOK'
  BY Zenon, <1>1 DEF TakeoverAdopt, IInv, HandTypeOK, TypeOK
<1>4. FreshInv'
  BY <1>1 DEF TakeoverAdopt, IInv, StartInv, FreshInv, TypeOK, CoreTypeOK, FlagTypeOK,
     HandTypeOK
<1>5. TodoInv'
  BY <1>1 DEF TakeoverAdopt, IInv, StartInv, TodoInv, TypeOK, CoreTypeOK, HandTypeOK
<1>6. SetsInv'
  BY <1>1 DEF TakeoverAdopt, IInv, LiveInv, SetsInv, TypeOK, CoreTypeOK
<1>7. MovingInv'
  BY <1>1 DEF TakeoverAdopt, IInv, LiveInv, MovingInv, Running, Handing, Moving, TypeOK,
     CoreTypeOK, HandTypeOK
<1>8. OwnedInv'
  BY <1>1 DEF TakeoverAdopt, launchVars, IInv, LiveInv, OwnedInv, Running, Owned,
     Moving, TypeOK, CoreTypeOK, HandTypeOK, LaunchTypeOK
<1>9. ShutInv'
  BY <1>1 DEF TakeoverAdopt, IInv, ShutInv, TypeOK, CoreTypeOK, FlagTypeOK
<1> QED
  BY <1>2, <1>3, <1>4, <1>5, <1>6, <1>7, <1>8, <1>9, Frames, Zenon DEF TakeoverAdopt,
     diskVars, launchVars, IInv, TypeOK, StartInv, LiveInv

-----------------------------------------------------------------------------
LEMMA LaunchAcceptStep == ASSUME IInv, NEW c \in Cores, NEW s \in Sessions,
   LaunchAccept(c, s) PROVE IInv'
<1>1. CoreTypeOK'
  BY Zenon DEF LaunchAccept, AfterAccept, coreVars, diskVars, IInv, CoreTypeOK, TypeOK
<1>2. LaunchTypeOK'
  BY Zenon DEF LaunchAccept, AfterAccept, IInv, LaunchTypeOK, TypeOK
<1>3. LockInv'
  BY DEF LaunchAccept, AfterAccept, IInv, LockInv, OneListener, Running, TypeOK,
     CoreTypeOK
<1>4. FreshInv'
  BY DEF LaunchAccept, AfterAccept, coreVars, handVars, IInv, StartInv, FreshInv,
     TypeOK, CoreTypeOK, FlagTypeOK, HandTypeOK
<1>5. PeerInv'
  BY DEF LaunchAccept, AfterAccept, coreVars, handVars, IInv, StartInv, PeerInv,
     Running, Asked, TypeOK, CoreTypeOK, FlagTypeOK, HandTypeOK
<1>6. TodoInv'
  BY DEF LaunchAccept, AfterAccept, coreVars, handVars, IInv, StartInv, TodoInv, TypeOK,
     CoreTypeOK, HandTypeOK
<1>7. MovingInv'
  BY DEF LaunchAccept, AfterAccept, coreVars, handVars, IInv, LiveInv, MovingInv,
     Running, Handing, Moving, TypeOK, CoreTypeOK, HandTypeOK
<1>8. OwnedInv'
  BY DEF LaunchAccept, AfterAccept, coreVars, handVars, IInv, LiveInv, OwnedInv,
     Running, Owned, Moving, TypeOK, CoreTypeOK, HandTypeOK, LaunchTypeOK
<1>9. ShutInv'
  BY DEF LaunchAccept, AfterAccept, coreVars, IInv, ShutInv, TypeOK, CoreTypeOK,
     FlagTypeOK
<1> QED
  BY <1>1, <1>2, <1>3, <1>4, <1>5, <1>6, <1>7, <1>8, <1>9, Frames, Zenon DEF
     LaunchAccept, AfterAccept, coreVars, diskVars, handVars, IInv, TypeOK, StartInv,
     LiveInv

LEMMA LaunchCheckStep == ASSUME IInv, NEW s \in Sessions, LaunchCheck(s) PROVE IInv'
<1>1. LaunchTypeOK'
  BY DEF LaunchCheck, Refused, IInv, LaunchTypeOK, TypeOK
<1>2. OwnedInv'
  BY DEF LaunchCheck, Refused, coreVars, handVars, IInv, LiveInv, OwnedInv, Running,
     Owned, Moving, TypeOK, CoreTypeOK, HandTypeOK, LaunchTypeOK
<1> QED
  BY <1>1, <1>2, Frames, Zenon DEF LaunchCheck, Refused, coreVars, diskVars, handVars,
     IInv, TypeOK, StartInv, LiveInv

LEMMA LaunchInsertStep == ASSUME IInv, NEW s \in Sessions, LaunchInsert(s) PROVE IInv'
<1>1. at[s] \in Cores /\ proc[at[s]] \in {"serving", "leaving"}
  BY Zenon DEF LaunchInsert, IInv, LiveInv, OwnedInv, Running
<1>2. CoreTypeOK'
  BY <1>1 DEF LaunchInsert, Refused, diskVars, IInv, CoreTypeOK, TypeOK
<1>3. LaunchTypeOK'
  BY <1>1 DEF LaunchInsert, Refused, IInv, LaunchTypeOK, TypeOK
<1>4. FreshInv'
  BY <1>1 DEF LaunchInsert, Refused, handVars, IInv, StartInv, FreshInv, TypeOK,
     CoreTypeOK, FlagTypeOK, HandTypeOK
<1>5. TodoInv'
  BY <1>1 DEF LaunchInsert, Refused, handVars, IInv, StartInv, TodoInv, TypeOK,
     CoreTypeOK, HandTypeOK
<1>6. SetsInv'
  BY <1>1 DEF LaunchInsert, Refused, IInv, LiveInv, SetsInv, TypeOK, CoreTypeOK
<1>7. MovingInv'
  BY <1>1 DEF LaunchInsert, Refused, handVars, IInv, LiveInv, MovingInv, Running,
     Handing, Moving, TypeOK, CoreTypeOK, HandTypeOK
<1>8. OwnedInv'
  BY <1>1, SMTT(30) DEF LaunchInsert, Refused, handVars, IInv, LiveInv, OwnedInv,
     Running, Owned, Moving, TypeOK, CoreTypeOK, HandTypeOK, LaunchTypeOK, SetsInv,
     MovingInv, Handing
<1>9. ShutInv'
  BY <1>1 DEF LaunchInsert, Refused, IInv, ShutInv, TypeOK, CoreTypeOK, FlagTypeOK
<1> QED
  BY <1>2, <1>3, <1>4, <1>5, <1>6, <1>7, <1>8, <1>9, Frames, Zenon DEF LaunchInsert,
     Refused, diskVars, handVars, IInv, TypeOK, StartInv, LiveInv

LEMMA LaunchConsumeStep == ASSUME IInv, NEW s \in Sessions, LaunchConsume(s) PROVE IInv'
<1>1. LaunchTypeOK'
  BY Zenon DEF LaunchConsume, IInv, LaunchTypeOK, TypeOK
<1>2. OwnedInv'
  BY DEF LaunchConsume, coreVars, handVars, IInv, LiveInv, OwnedInv, Running, Owned,
     Moving, TypeOK, CoreTypeOK, HandTypeOK, LaunchTypeOK
<1> QED
  BY <1>1, <1>2, Frames, Zenon DEF LaunchConsume, coreVars, diskVars, handVars, IInv,
     TypeOK, StartInv, LiveInv

LEMMA LaunchSetupStep == ASSUME IInv, NEW s \in Sessions, LaunchSetup(s) PROVE IInv'
<1>1. LaunchTypeOK'
  BY Zenon DEF LaunchSetup, IInv, LaunchTypeOK, TypeOK
<1>2. OwnedInv'
  BY DEF LaunchSetup, coreVars, handVars, IInv, LiveInv, OwnedInv, Running, Owned,
     Moving, TypeOK, CoreTypeOK, HandTypeOK, LaunchTypeOK
<1> QED
  BY <1>1, <1>2, Frames, Zenon DEF LaunchSetup, coreVars, diskVars, handVars, IInv,
     TypeOK, StartInv, LiveInv

LEMMA LaunchRegisterStep == ASSUME IInv, NEW s \in Sessions, LaunchRegister(s) PROVE IInv'
<1>1. at[s] \in Cores /\ proc[at[s]] \in {"serving", "leaving"}
  BY Zenon DEF LaunchRegister, IInv, LiveInv, OwnedInv, Running
<1>2. CoreTypeOK'
  BY <1>1 DEF LaunchRegister, diskVars, IInv, CoreTypeOK, TypeOK
<1>3. LaunchTypeOK'
  BY Zenon, <1>1 DEF LaunchRegister, IInv, LaunchTypeOK, TypeOK
<1>4. FreshInv'
  BY <1>1 DEF LaunchRegister, handVars, IInv, StartInv, FreshInv, TypeOK, CoreTypeOK,
     FlagTypeOK, HandTypeOK
<1>5. SetsInv'
  BY <1>1 DEF LaunchRegister, IInv, LiveInv, SetsInv, TypeOK, CoreTypeOK, OwnedInv,
     Owned, Running, LaunchTypeOK
<1>6. MovingInv'
  BY <1>1 DEF LaunchRegister, handVars, IInv, LiveInv, MovingInv, Running, Handing,
     Moving, TypeOK, CoreTypeOK, HandTypeOK, OwnedInv, Owned, LaunchTypeOK
<1>7. OwnedInv'
  BY <1>1 DEF LaunchRegister, handVars, IInv, LiveInv, OwnedInv, Running, Owned, Moving,
     TypeOK, CoreTypeOK, HandTypeOK, LaunchTypeOK
<1> QED
  BY <1>2, <1>3, <1>4, <1>5, <1>6, <1>7, Frames, Zenon DEF LaunchRegister, diskVars,
     handVars, IInv, TypeOK, StartInv, LiveInv

LEMMA LaunchFailsStep == ASSUME IInv, NEW s \in Sessions, LaunchFails(s) PROVE IInv'
<1>1. at[s] \in Cores /\ proc[at[s]] \in {"serving", "leaving"}
  BY Zenon DEF LaunchFails, IInv, LiveInv, OwnedInv, Running
<1>2. CoreTypeOK'
  BY <1>1 DEF LaunchFails, diskVars, IInv, CoreTypeOK, TypeOK
<1>3. LaunchTypeOK'
  BY <1>1 DEF LaunchFails, IInv, LaunchTypeOK, TypeOK
<1>4. FreshInv'
  BY <1>1 DEF LaunchFails, handVars, IInv, StartInv, FreshInv, TypeOK, CoreTypeOK,
     FlagTypeOK, HandTypeOK
<1>5. TodoInv'
  BY <1>1 DEF LaunchFails, handVars, IInv, StartInv, TodoInv, TypeOK, CoreTypeOK,
     HandTypeOK
<1>6. SetsInv'
  BY <1>1 DEF LaunchFails, IInv, LiveInv, SetsInv, TypeOK, CoreTypeOK, OwnedInv, Owned,
     Running, LaunchTypeOK
<1>7. MovingInv'
  BY <1>1 DEF LaunchFails, handVars, IInv, LiveInv, MovingInv, Running, Handing, Moving,
     TypeOK, CoreTypeOK, HandTypeOK, OwnedInv, Owned, LaunchTypeOK
<1>8. OwnedInv'
  BY <1>1 DEF LaunchFails, handVars, IInv, LiveInv, OwnedInv, Running, Owned, Moving,
     TypeOK, CoreTypeOK, HandTypeOK, LaunchTypeOK
<1>9. ShutInv'
  BY <1>1 DEF LaunchFails, IInv, ShutInv, TypeOK, CoreTypeOK, FlagTypeOK
<1> QED
  BY <1>2, <1>3, <1>4, <1>5, <1>6, <1>7, <1>8, <1>9, Frames, Zenon DEF LaunchFails,
     diskVars, handVars, IInv, TypeOK, StartInv, LiveInv

-----------------------------------------------------------------------------
\* Every step keeps the invariant.
LEMMA IInvStep == IInv /\ [Next]_vars => IInv'
<1>1. ASSUME IInv, UNCHANGED vars PROVE IInv'
  BY Zenon, <1>1, Frames DEF vars, coreVars, diskVars, handVars, launchVars, IInv, TypeOK,
     StartInv,
     LiveInv
<1>2. ASSUME IInv, Next PROVE IInv'
  BY Zenon, <1>2, RunCoreStep, AcceptWakeStep, AcceptPingStep, ExitHandedStep,
     ExitShutdownStep, ShutdownAcceptStep, ShutdownDecideStep, HandoffGateStep,
     HandoffWaitStep, HandoffExportStep, HandoffExportFailsStep, HandoffCommittedStep,
     HandoffDoneStep, HandoffAbandonedStep, HandoffResumeStep, TakeoverRecordStep,
     TakeoverCommitStep, TakeoverFailsStep, TakeoverExitStep, HandoffAcceptStep,
     TakeoverAdoptStep, LaunchAcceptStep, SessionEndsStep, SessionExitStep,
     LaunchDirectStep, LaunchAskStep, LaunchCheckStep, LaunchInsertStep,
     LaunchConsumeStep, LaunchSetupStep, LaunchRegisterStep, LaunchFailsStep,
     LaunchReplyStep, LaunchLateStep, HostReadStep, HostRunStep DEF Next, Core,
     Successor, Launch
<1> QED
  BY Zenon, <1>1, <1>2

\* The invariant holds initially and every step keeps it.
LEMMA IInvHolds == Spec => []IInv
<1>1. Init => IInv
  <2> SUFFICES ASSUME Init PROVE IInv
    BY Zenon
  <2>1. TypeOK
    BY Zenon, CoreConstants DEF Init, TypeOK, CoreTypeOK, FlagTypeOK, HandTypeOK, LaunchTypeOK
  <2>2. \A c \in Cores : ~Running(c) /\ ~shutting[c] /\ ~handed[c] /\ ~handing[c]
    BY Zenon DEF Init, Running
  <2>3. LockInv
    BY <2>2, Zenon DEF LockInv, OneListener
  <2>4. StartInv
    BY Zenon, <2>2 DEF Init, StartInv, FreshInv, PeerInv, TodoInv
  <2>5. LiveInv
    BY Zenon, <2>2 DEF Init, LiveInv, SetsInv, MovingInv, OwnedInv, Owned
  <2>6. ShutInv
    BY Zenon, <2>2 DEF Init, ShutInv
  <2> QED
    BY Zenon, <2>1, <2>3, <2>4, <2>5, <2>6 DEF IInv
<1>2. IInv /\ [Next]_vars => IInv'
  BY Zenon, IInvStep
<1> QED
  BY <1>1, <1>2, PTL DEF Spec

\* Every variable of the core processes keeps its type, for any number of
\* cores and Sessions.
THEOREM TypeCorrect == Spec => []TypeOK
  BY IInvHolds, PTL DEF IInv

\* One instance per home: whatever is started, taken over, refused or timed
\* out, the processes that serve accept on one listener.
THEOREM OneInstance == Spec => []OneListener
  BY IInvHolds, PTL DEF IInv, LockInv

\* A core that shuts down hosts no Session when it leaves its accept loop,
\* however launches and handoffs interleave with the request.
THEOREM ShutdownIsEmpty == Spec => []ShutdownEmpty
<1>1. IInv => ShutdownEmpty
  BY Zenon DEF IInv, ShutInv, LiveInv, SetsInv, ShutdownEmpty
<1> QED
  BY IInvHolds, <1>1, PTL
=============================================================================
