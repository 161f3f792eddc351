------------------------ MODULE CoreSupervisorProofs ------------------------
(***************************************************************************)
(* What the supervisor may conclude from pty-core.json and a ping, for any *)
(* number of processes, Sessions, builds and faults, when in-place         *)
(* takeover is off (the default): a process that serves, or is about to    *)
(* exit, holds the flock alone and is the one the record names.            *)
(***************************************************************************)
EXTENDS CoreSupervisor, TLAPS

Begun == {"serving", "leaving", "exited"}

\* No process was started to take another one over.
Plain ==
    /\ mode \in [Cores -> {"none", "serve"}] /\ given = {}
    /\ stage \in [Cores -> {"off"} \cup Begun]
    /\ \A c \in Cores : mode[c] = "none" => stage[c] = "off"

Owner ==
    /\ record \in Maybe
    /\ \A c \in Cores :
          stage[c] \in {"serving", "leaving"} => lock = {c} /\ record = c /\ socket

SupOK ==
    sup \in [state : {"off", "starting", "live", "adopted", "failed"},
             child : Maybe, pid : Maybe, sessions : {"none", "zero", "some"},
             due : BOOLEAN, rapid : Nat, from : Maybe,
             tried : Maybe \X Nat, seen : Maybe]

\* What was adopted once served.
Watched == sup.state = "adopted" /\ sup.pid # None => stage[sup.pid] \in Begun

IInv == ~allow => Plain /\ Owner /\ SupOK /\ Watched

-----------------------------------------------------------------------------
\* A healthy process answers, and under the pid of the record.
LEMMA HealthyAnswers ==
    ASSUME Owner, NEW c \in Cores, Healthy(c), NEW r \in Pings
    PROVE  Adoptable(r)
<1>1. Serving = {c}
  BY Zenon DEF Owner, Serving, Healthy
<1>2. r = c
  BY Zenon, <1>1 DEF Pings, Healthy, Owner
<1> QED
  BY Zenon, <1>2, SupervisorConstants DEF Adoptable, Owner, Healthy

LEMMA AnswerServes ==
    ASSUME NEW r \in Pings, Adoptable(r)
    PROVE  r \in Cores /\ stage[r] = "serving"
  BY Zenon DEF Pings, Adoptable, Serving

LEMMA StepsKeep ==
    ASSUME Plain, Owner, NEW c \in Cores,
           \/ CoreStep(c) \/ Refuse(c) \/ GiveUp(c) \/ SessionStep(c) \/ Crash(c),
           UNCHANGED mode
    PROVE  Plain' /\ Owner' /\ \A p \in Cores : stage[p] \in Begun => stage'[p] \in Begun
<1>1. CASE UNCHANGED <<stage, lock, socket, record, given>>
  BY Zenon, <1>1 DEF Plain, Owner
<1>2. CASE Serve(c) /\ mode[c] = "serve"
  BY Zenon, <1>2, SupervisorConstants DEF Serve, To, Plain, Owner, Begun, Maybe
<1>3. CASE Yield(c) /\ mode[c] = "serve"
  BY Zenon, <1>3 DEF Yield, To, Plain, Owner, Begun
<1>4. CASE Leave(c)
  BY Zenon, <1>4 DEF Leave, To, Plain, Owner, Begun
<1>5. CASE Exit(c)
  BY Zenon, <1>5 DEF Exit, To, Plain, Owner, Begun, Maybe
<1>6. CASE Crash(c)
  BY Zenon, <1>6 DEF Crash, To, Plain, Owner, Begun
<1>7. ~(Refuse(c) \/ Receive(c) \/ Record(c) \/ Commit(c) \/ GiveUp(c))
      /\ \A s : ~Adopt(c, s)
  BY Zenon DEF Refuse, Receive, Record, Commit, GiveUp, Adopt, Plain, Begun
<1>8. mode[c] # "takeover" /\ ~HasSuccessor(c) /\ c \notin given
  BY Zenon DEF Plain, HasSuccessor, Serving
<1>9. CASE SessionStep(c)
  BY Zenon, <1>9, <1>7, <1>1 DEF SessionStep, Launch, EndSession
<1>10. CASE Decide(c)
  BY Zenon, <1>10, <1>4, <1>1 DEF Decide, homeVars
<1> QED
  BY Zenon, <1>2, <1>3, <1>5, <1>6, <1>7, <1>8, <1>9, <1>10 DEF CoreStep

\* A new process has a pid that nothing refers to.
LEMMA LaunchedKeeps ==
    ASSUME Plain, Owner, NEW c \in Free, Launched(c, "serve")
    PROVE  /\ Plain' /\ Owner'
           /\ \A p \in Cores : p # c /\ stage[p] \in Begun => stage'[p] \in Begun
<1>1. c \in Cores /\ stage[c] \notin {"serving", "leaving"}
  BY SMTT(30) DEF Free, Plain
<1> QED
  BY Zenon, <1>1 DEF Launched, Plain, Owner, Begun

LEMMA SpawnKeeps ==
    ASSUME Plain, Owner, NEW s, s \in [state : {"starting"},
             child : Maybe, pid : Maybe, sessions : {"none", "zero", "some"},
             due : BOOLEAN, rapid : Nat, from : Maybe, tried : Maybe \X Nat, seen : Maybe],
           AdoptOrSpawn(s)
    PROVE  Plain' /\ Owner' /\ SupOK' /\ Watched'
<1>1. PICK r \in Pings :
         IF Adoptable(r)
         THEN sup' = Adopted(s, r) /\ UNCHANGED <<homeVars, mode, build, asked, busy>>
         ELSE Spawn(s)
  BY Zenon DEF AdoptOrSpawn
<1>2. CASE Adoptable(r)
  <2>1. sup' = Adopted(s, r) /\ UNCHANGED <<stage, lock, socket, record, given, mode>>
    BY Zenon, <1>1, <1>2 DEF homeVars
  <2>2. r \in Cores /\ stage[r] = "serving"
    BY Zenon, <1>2, AnswerServes
  <2>3. SupOK'
    BY Zenon, <2>1, <2>2 DEF Adopted, Count, SupOK, Maybe
  <2>4. sup'.pid = r
    BY Zenon, <2>1 DEF Adopted
  <2> QED
    BY Zenon, <2>1, <2>2, <2>3, <2>4 DEF Plain, Owner, Watched, Begun
<1>3. CASE ~Adoptable(r) /\ \E c \in Free :
               /\ sup' = [s EXCEPT !.child = c, !.pid = c, !.sessions = "none",
                                   !.state = "starting"]
               /\ Launched(c, "serve")
  <2>1. PICK c \in Free :
           /\ sup' = [s EXCEPT !.child = c, !.pid = c, !.sessions = "none",
                               !.state = "starting"]
           /\ Launched(c, "serve")
    BY Zenon, <1>3
  <2>2. SupOK' /\ Watched'
    BY Zenon, <2>1 DEF SupOK, Watched, Free, Maybe
  <2> QED
    BY Zenon, <2>1, <2>2, LaunchedKeeps
<1>4. CASE /\ ~Adoptable(r)
           /\ sup' = [s EXCEPT !.state = "failed", !.due = FALSE]
           /\ UNCHANGED <<homeVars, mode, build, asked, busy>>
  BY Zenon, <1>4 DEF SupOK, Watched, Plain, Owner, homeVars
<1> QED
  BY Zenon, <1>1, <1>2, <1>3, <1>4 DEF Spawn

LEMMA ReapKeeps ==
    ASSUME Plain, Owner, SupOK, Reap(sup), UNCHANGED <<homeVars, mode>>
    PROVE  Plain' /\ Owner' /\ SupOK' /\ Watched'
<1>1. Plain' /\ Owner'
  BY Zenon DEF Plain, Owner, homeVars
<1>2. SupOK' /\ Watched'
  <2> DEFINE gone == [sup EXCEPT !.child = None, !.pid = None, !.sessions = "none"]
  <2>1. PICK r \in Pings, n \in {0, sup.rapid + 1} :
           sup' = IF Adoptable(r) THEN Adopted(gone, r)
                  ELSE IF n >= MaxRapid
                  THEN [gone EXCEPT !.rapid = n, !.state = "failed", !.due = FALSE]
                  ELSE [gone EXCEPT !.rapid = n, !.state = "starting", !.due = TRUE]
    BY Zenon DEF Reap
  <2>2. n \in Nat
    BY DEF SupOK
  <2>3. CASE Adoptable(r)
    BY <2>1, <2>3, AnswerServes, ZenonT(60) DEF Adopted, Count, SupOK, Watched, Maybe, Begun, homeVars
  <2>4. CASE ~Adoptable(r)
    BY <2>1, <2>2, <2>4, ZenonT(60) DEF SupOK, Watched, Maybe
  <2> QED
    BY Zenon, <2>3, <2>4
<1> QED
  BY Zenon, <1>1, <1>2

LEMMA NextKeeps == ASSUME IInv, [Next]_vars PROVE IInv'
<1> SUFFICES ASSUME ~allow' PROVE Plain' /\ Owner' /\ SupOK' /\ Watched'
  BY Zenon DEF IInv
<1>0. ~allow
  BY Zenon DEF Next, Start, Poll, PollStarting, Respawn, PollLive, PollAdopted, PollHandingOff,
     CheckFits, Drain, Takeover, WorkerExit, Environment, Processes, Answers, OnlySup,
     envVars, vars
<1>a. Plain /\ Owner /\ SupOK /\ Watched
  BY Zenon, <1>0 DEF IInv
<1>b. ASSUME UNCHANGED <<homeVars, mode>> PROVE Plain' /\ Owner'
  BY Zenon, <1>a, <1>b DEF Plain, Owner, homeVars
<1>c. ASSUME UNCHANGED <<homeVars, mode, sup>> PROVE Plain' /\ Owner' /\ SupOK' /\ Watched'
  BY Zenon, <1>a, <1>b, <1>c DEF SupOK, Watched, homeVars
<1>1. CASE Start
  BY Zenon, <1>1, <1>a, SpawnKeeps DEF Start, Off, Maybe
<1>2. CASE PollStarting
  <2>1. CASE Exited(sup.child)
    BY Zenon, <1>2, <2>1, <1>a, ReapKeeps DEF PollStarting, OnlySup, envVars
  <2>2. CASE ~Exited(sup.child)
    <3>1. Plain' /\ Owner'
      BY Zenon, <1>2, <1>b DEF PollStarting, OnlySup, envVars
    <3>2. PICK r \in Pings :
             sup' = [sup EXCEPT !.state = "live", !.sessions = Count(r), !.rapid = 0]
      BY <1>2, <2>2, Zenon DEF PollStarting
    <3>3. Count(r) \in {"none", "zero", "some"}
      BY Zenon DEF Count
    <3>4. SupOK' /\ sup'.state = "live"
      BY Zenon, <3>2, <3>3, <1>a DEF SupOK
    <3> QED
      BY Zenon, <3>1, <3>4 DEF Watched
  <2> QED
    BY Zenon, <2>1, <2>2
<1>3. CASE Respawn
  BY Zenon, <1>3, <1>a, SpawnKeeps DEF Respawn, SupOK
<1>4. CASE PollLive
  <2>1. CASE Exited(sup.child)
    BY Zenon, <1>4, <2>1, <1>a, ReapKeeps DEF PollLive, OnlySup, envVars
  <2>2. CASE ~Exited(sup.child)
    <3>1. Plain' /\ Owner'
      BY Zenon, <1>4, <1>b DEF PollLive, OnlySup, envVars
    <3>2. SupOK' /\ sup'.state = "live"
      BY <1>4, <2>2, <1>a DEF PollLive, SupOK, Count
    <3> QED
      BY Zenon, <3>1, <3>2 DEF Watched
  <2> QED
    BY Zenon, <2>1, <2>2
<1>5. CASE PollAdopted
  <2>1. Plain' /\ Owner' /\ UNCHANGED stage
    BY Zenon, <1>5, <1>b DEF PollAdopted, envVars, homeVars
  <2>2. SupOK' /\ (sup'.state = "starting" \/ sup'.pid = sup.pid)
    <3>1. PICK r \in Pings :
             \/ sup' = [sup EXCEPT !.sessions = Count(r), !.seen = sup.pid]
             \/ sup' = [sup EXCEPT !.pid = None, !.sessions = "none",
                                   !.state = "starting", !.due = TRUE]
      BY <1>5, Zenon DEF PollAdopted
    <3>2. Count(r) \in {"none", "zero", "some"}
      BY Zenon DEF Count
    <3> QED
      BY Zenon, <3>1, <3>2, <1>a DEF SupOK, Maybe
  <2>3. Watched'
    BY Zenon, <1>5, <1>a, <2>1, <2>2 DEF Watched, PollAdopted
  <2> QED
    BY Zenon, <2>1, <2>2, <2>3
<1>6. ~PollHandingOff /\ ~Takeover
  BY Zenon, <1>a, <1>0 DEF PollHandingOff, SupOK, Takeover
<1>7. CASE CheckFits \/ Drain
  BY Zenon, <1>7, <1>c DEF CheckFits, Drain, envVars
<1>8. CASE WorkerExit
  BY Zenon, <1>8, <1>b DEF WorkerExit, SupOK, Watched, Off, Maybe
<1>9. ASSUME NEW c \in Cores,
             CoreStep(c) \/ Refuse(c) \/ GiveUp(c) \/ SessionStep(c) \/ Crash(c),
             UNCHANGED <<mode, sup>>
      PROVE  Plain' /\ Owner' /\ SupOK' /\ Watched'
  <2>1. /\ Plain' /\ Owner'
        /\ \A p \in Cores : stage[p] \in Begun => stage'[p] \in Begun
    BY Zenon, <1>9, <1>a, StepsKeep
  <2> QED
    BY <2>1, <1>9, <1>a DEF SupOK, Watched, Maybe
<1>10. CASE Environment
  BY Zenon, <1>10, <1>9, <1>c DEF Environment, envVars
<1>11. ASSUME NEW c \in Cores, Processes(c) \/ Answers(c)
       PROVE  Plain' /\ Owner' /\ SupOK' /\ Watched'
  BY Zenon, <1>11, <1>9, <1>c DEF Processes, Answers
<1>12. CASE UNCHANGED vars
  BY Zenon, <1>12, <1>c DEF vars, envVars
<1> QED
  BY Zenon, <1>1, <1>2, <1>3, <1>4, <1>5, <1>6, <1>7, <1>8, <1>10, <1>11, <1>12 DEF Next, Poll

LEMMA Invariance == Spec => []IInv
<1>1. Init => IInv
  BY DEF Init, HomeInit, IInv, Plain, Owner, SupOK, Watched, Off, Maybe
<1> QED
  BY <1>1, NextKeeps, PTL DEF Spec

LEMMA WhoMoves ==
    ASSUME [Next]_vars
    PROVE  \/ UNCHANGED sup
           \/ Start \/ PollStarting \/ Respawn \/ PollLive \/ PollAdopted
           \/ PollHandingOff \/ Takeover \/ WorkerExit
  BY Zenon DEF Next, Poll, CheckFits, Drain, Environment, Processes, Answers, vars
-----------------------------------------------------------------------------
\* poll_adopted: whatever the record says and whoever wrote it, without
\* in-place takeover the supervisor writes off only a process that is gone.
THEOREM OnlyTheGoneAreLost == Spec => LostIsGone
<1>1. ASSUME IInv, [Next]_vars
      PROVE  [~allow /\ sup.state = "adopted" /\ sup'.state = "starting" =>
                 stage[sup.pid] = "exited"]_vars
  <2> SUFFICES ASSUME ~allow, sup.state = "adopted", sup'.state = "starting"
               PROVE  stage[sup.pid] = "exited"
    BY Zenon
  <2>1. Plain /\ Owner /\ SupOK /\ Watched
    BY Zenon, <1>1 DEF IInv
  <2>2. PollAdopted
    <3>1. ~Start /\ ~PollStarting /\ ~Respawn /\ ~PollLive /\ ~PollHandingOff
      BY Zenon DEF Start, PollStarting, Respawn, PollLive, PollHandingOff
    <3>2. ~WorkerExit
      BY DEF WorkerExit, Off
    <3>3. ~Takeover
      BY Zenon DEF Takeover
    <3> QED
      BY Zenon, <1>1, <3>1, <3>2, <3>3, WhoMoves
  <2>3. sup.pid \in Cores /\ NotOurs(sup.pid, IF record # None THEN record ELSE sup.seen)
    BY Zenon, <2>2, <2>1 DEF PollAdopted, SupOK, Maybe
  <2>4. stage[sup.pid] \in {"serving", "leaving"} => record = sup.pid
    BY Zenon, <2>3, <2>1 DEF Owner
  <2> QED
    BY Zenon, <2>1, <2>3, <2>4, SupervisorConstants DEF NotOurs, Watched, Begun
<1> QED
  BY <1>1, Invariance, PTL DEF Spec, LostIsGone

\* reap_own_child and spawn: without in-place takeover the supervisor does
\* not give up on a home in which a core serves and answers.
THEOREM GivingUpIsAlone == Spec => GivesUpAlone
<1>1. ASSUME IInv, [Next]_vars
      PROVE  [~allow /\ sup.state # "failed" /\ sup'.state = "failed" =>
                 \A c \in Cores : ~Healthy(c)]_vars
  <2> SUFFICES ASSUME ~allow, sup.state # "failed", sup'.state = "failed",
                      NEW c \in Cores, Healthy(c)
               PROVE  FALSE
    BY Zenon
  <2>1. Plain /\ Owner /\ SupOK /\ Watched
    BY Zenon, <1>1 DEF IInv
  <2>2. \A r \in Pings : Adoptable(r)
    BY Zenon, <2>1, HealthyAnswers
  <2>3. ASSUME NEW s, AdoptOrSpawn(s), s \in [state : {"starting"},
                 child : Maybe, pid : Maybe, sessions : {"none", "zero", "some"},
                 due : BOOLEAN, rapid : Nat, from : Maybe, tried : Maybe \X Nat, seen : Maybe]
        PROVE  FALSE
    BY Zenon, <2>2, <2>3 DEF AdoptOrSpawn, Adopted
  <2>4. ~Reap(sup)
    BY Zenon, <2>1, <2>2 DEF Reap, Adopted, SupOK
  <2>5. ~Start /\ ~Respawn
    BY Zenon, <2>1, <2>3 DEF Start, Respawn, Off, Maybe, SupOK
  <2> QED
    <3>1. ~PollStarting /\ ~PollLive
      BY Zenon, <2>1, <2>4 DEF PollStarting, PollLive, SupOK
    <3>2. ~PollAdopted
      BY Zenon, <2>1 DEF PollAdopted, SupOK
    <3>3. ~PollHandingOff /\ ~WorkerExit
      <4>1. sup.state # "handing_off"
        BY Zenon, <2>1 DEF SupOK
      <4>2. Off.state = "off"
        BY Zenon DEF Off
      <4> QED
        BY Zenon, <4>1, <4>2 DEF PollHandingOff, WorkerExit
    <3>4. ~Takeover
      BY Zenon DEF Takeover
    <3> QED
      BY Zenon, <1>1, <2>5, <3>1, <3>2, <3>3, <3>4, WhoMoves
<1> QED
  BY <1>1, Invariance, PTL DEF Spec, GivesUpAlone
=============================================================================
