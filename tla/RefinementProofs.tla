-------------------------- MODULE RefinementProofs --------------------------
(***************************************************************************)
(* The schedulers implement the abstract Supervisor: every step of a       *)
(* thread, a child or a command is a step of the Supervisor or a stutter,  *)
(* in every behaviour of every configuration without a maxruntime in which *)
(* no thread reaps a child it does not know.                               *)
(***************************************************************************)
EXTENDS SupervisorRefinement, SchedulerSafetyProofs

-----------------------------------------------------------------------------
(* The mapping.                                                            *)

(* The abstract state of a program, read off its pid.                      *)
StateByPid(p) ==
    IF pid[p] = NoPid THEN "idle" ELSE IF StillUp(pid[p]) THEN "up" ELSE "doomed"

StatesAgree == \A p \in Programs : StateOf(p) = StateByPid(p)

LEMMA StateOfPid == TypeOK /\ Tracked /\ PidIsChild => StatesAgree
  <1> SUFFICES ASSUME TypeOK, Tracked, PidIsChild, NEW p \in Programs PROVE StateOf(p) = StateByPid(p)
    BY DEF StatesAgree
  <1>1. CASE pid[p] = NoPid
    <2>1. ChildrenOf(p) = {}
      BY <1>1, ChildIffPid
    <2> QED
      BY <1>1, <2>1 DEF StateOf, StateByPid
  <1>2. CASE pid[p] # NoPid
    <2>1. ChildrenOf(p) = {pid[p]}
      BY <1>2 DEF ChildrenOf, Tracked, PidIsChild, TypeOK, ProgramTypeOK
    <2> QED
      BY <1>2, <2>1 DEF StateOf, StateByPid
  <1> QED
    BY <1>1, <1>2

LEMMA OwnerIs ==
    ASSUME NEW s \in Schedulers, NEW p \in Range(Progs[s]) PROVE p \in Programs /\ OwnerOf[p] = s
  <1>1. p \in Programs
    BY ProgsType
  <1>2. \A t \in Schedulers : Owns(t, p) <=> t = s
    BY SchedulerAssumption DEF Owns
  <1>3. (CHOOSE t \in Schedulers : Owns(t, p)) = s
    BY <1>2
  <1> QED
    BY <1>1, <1>3 DEF OwnerOf

LEMMA OwnedBy ==
    ASSUME NEW s \in Schedulers, NEW p \in Programs, OwnerOf[p] = s PROVE p \in Range(Progs[s])
  <1>1. PICK t \in Schedulers : p \in Range(Progs[t])
    BY SchedulerAssumption
  <1> QED
    BY <1>1, OwnerIs

(* What a step of the implementation does to the abstract variables.       *)
NewState(p, v) == \A q \in Programs : StateOf(q)' = IF q = p THEN v ELSE StateOf(q)
SameStates == \A q \in Programs : StateOf(q)' = StateOf(q)
SamePhases == \A t \in Schedulers : PhaseOf(t)' = PhaseOf(t)
NewPhase(s, v) == \A t \in Schedulers : PhaseOf(t)' = IF t = s THEN v ELSE PhaseOf(t)

(* What the mapping needs to know of a state.                              *)
RefinementInv ==
    TypeOK /\ NeverNull /\ ChildInv /\ TrackedInv /\ NoHandStop /\ ShutdownInv /\ StatesAgree

-----------------------------------------------------------------------------
(* The states of the programs.                                             *)

LEMMA CalmState ==
    ASSUME RefinementInv, StatesAgree', CalmStep
    PROVE  SameStates \/ \E p \in Programs : StateOf(p) = "up" /\ NewState(p, "doomed")
  <1> USE DEF RefinementInv, TypeOK, KernelTypeOK, ProgramTypeOK, StatesAgree, Alive
  <1>1. UNCHANGED pid /\ PidIsChild /\ Tracked
    BY DEF CalmStep, ChildInv, TrackedInv
  <1>2. CASE UNCHANGED kid
    BY <1>1, <1>2 DEF StateByPid, StillUp, SameStates
  <1>3. ASSUME NEW p \in Programs, SignalSent(p)
        PROVE  SameStates \/ (StateOf(p) = "up" /\ NewState(p, "doomed"))
    <2>1. PICK g \in {StopSig[p], SIGKILL} : kid' = Signalled(pid[p], g)
      BY <1>3 DEF SignalSent
    <2>2. CASE pid[p] \in Pids /\ Alive(pid[p])
      <3>1. ASSUME NEW q \in Programs \ {p} PROVE StateOf(q)' = StateOf(q)
        <4>1. pid[q] # pid[p]
          BY <1>1, <2>2, KernelAssumption DEF PidIsChild
        <4>2. pid[q] \in Pids => kid'[pid[q]] = kid[pid[q]]
          BY <2>1, <4>1 DEF Signalled
        <4> QED
          BY <1>1, <4>2 DEF StateByPid, StillUp
      <3>2. kid'[pid[p]].st = "alive" /\ kid'[pid[p]].pend = kid[pid[p]].pend \cup {g}
        BY <2>1, <2>2 DEF Signalled
      <3>3. StateOf(p)' = StateOf(p) \/ (StateOf(p) = "up" /\ StateOf(p)' = "doomed")
        BY <1>1, <2>2, <3>2, KernelAssumption DEF StateByPid, StillUp
      <3> QED
        BY <3>1, <3>3 DEF SameStates, NewState
    <2>3. CASE ~(pid[p] \in Pids /\ Alive(pid[p]))
      <3>1. UNCHANGED kid
        BY <2>1, <2>3 DEF Signalled
      <3> QED
        BY <1>1, <3>1 DEF StateByPid, StillUp, SameStates
    <2> QED
      BY <2>2, <2>3
  <1>4. ASSUME NEW k \in Pids, NEW st \in Status, Ends(k, st)
        PROVE  SameStates \/ \E p \in Programs : StateOf(p) = "up" /\ NewState(p, "doomed")
    <2>1. PICK p \in Programs : p = kid[k].prog /\ pid[p] = k /\ Alive(k)
      BY <1>1, <1>4 DEF Ends, Tracked, Unreaped, Kid
    <2>2. kid'[k].st = "zombie" /\ \A j \in Pids \ {k} : kid'[j] = kid[j]
      BY <1>4 DEF Ends
    <2>3. ASSUME NEW q \in Programs \ {p} PROVE StateOf(q)' = StateOf(q)
      <3>1. pid[q] # k
        BY <1>1, <2>1, KernelAssumption DEF PidIsChild
      <3> QED
        BY <1>1, <2>2, <3>1 DEF StateByPid, StillUp
    <2>4. StateOf(p) \in {"up", "doomed"} /\ StateOf(p)' = "doomed"
      BY <1>1, <2>1, <2>2, KernelAssumption DEF StateByPid, StillUp
    <2> QED
      BY <2>1, <2>3, <2>4 DEF SameStates, NewState
  <1> QED
    BY <1>2, <1>3, <1>4 DEF CalmStep, NewsOfChildren

LEMMA StartState ==
    ASSUME RefinementInv, StatesAgree', NEW s \in Schedulers, NEW p \in Range(Progs[s]),
           NEW k \in Pids, StartStep(s, p, k)
    PROVE  StateOf(p) = "idle" /\ NewState(p, "up")
  <1> USE DEF RefinementInv, TypeOK, KernelTypeOK, ProgramTypeOK, StatesAgree, Alive
  <1>1. p \in Programs /\ kid[k].st = "free" /\ pid[p] = NoPid
    BY ProgsType DEF StartStep, FreePids
  <1>2. PidIsChild
    BY DEF ChildInv
  <1>3. /\ kid'[k].st = "alive" /\ kid'[k].pend = {}
        /\ \A j \in Pids \ {k} : kid'[j] = kid[j]
        /\ pid'[p] = k /\ \A q \in Programs \ {p} : pid'[q] = pid[q]
    BY <1>1 DEF StartStep, Forked
  <1>4. StateOf(p) = "idle"
    BY <1>1 DEF StateByPid
  <1>5. StateOf(p)' = "up"
    BY <1>1, <1>3, KernelAssumption DEF StateByPid, StillUp
  <1>6. ASSUME NEW q \in Programs \ {p} PROVE StateOf(q)' = StateOf(q)
    <2>1. pid[q] # k
      BY <1>1, <1>2, KernelAssumption DEF PidIsChild, Unreaped
    <2> QED
      BY <1>3, <2>1 DEF StateByPid, StillUp
  <1> QED
    BY <1>4, <1>5, <1>6 DEF NewState

LEMMA DeathState ==
    ASSUME RefinementInv, StatesAgree', NEW s \in Schedulers, NEW k \in Pids, DeathStep(s, k)
    PROVE  StateOf(running[s][k]) = "doomed" /\ NewState(running[s][k], "idle")
  <1> USE DEF RefinementInv, TypeOK, KernelTypeOK, ProgramTypeOK, SharedTypeOK, StatesAgree, Alive
  <1>1. PICK p \in Programs : p = running[s][k] /\ pid[p] = k
    BY ProgsType DEF DeathStep, TrackedInv, MapAgrees
  <1>2. PidIsChild
    BY DEF ChildInv
  <1>3. /\ kid[k].st = "zombie"
        /\ \A j \in Pids \ {k} : kid'[j] = kid[j]
        /\ pid'[p] = NoPid /\ \A q \in Programs \ {p} : pid'[q] = pid[q]
    BY <1>1 DEF DeathStep, Reaped, ClearPid
  <1>4. StateOf(p) = "doomed" /\ StateOf(p)' = "idle"
    BY <1>1, <1>3, KernelAssumption DEF StateByPid, StillUp
  <1>5. ASSUME NEW q \in Programs \ {p} PROVE StateOf(q)' = StateOf(q)
    <2>1. pid[q] # k
      <3>1. k # NoPid
        BY KernelAssumption
      <3>2. \A r \in Programs : pid[r] = k => kid[k].prog = r
        BY <1>2, <3>1 DEF PidIsChild
      <3> QED
        BY <1>1, <3>2
    <2>2. pid'[q] = pid[q] /\ (pid[q] # NoPid => kid'[pid[q]] = kid[pid[q]])
      BY <1>3, <2>1
    <2> QED
      BY <2>2 DEF StateByPid, StillUp
  <1> QED
    BY <1>1, <1>4, <1>5 DEF NewState

-----------------------------------------------------------------------------
(* The phases of the schedulers, and the end of the process.               *)

(* The step with which the thread of s becomes READY.                      *)
Readies(s) == (StopWaiting(s) /\ ~ProgramsLeft(s)) \/ GiveUp(s)

LEMMA ThreadPhase ==
    ASSUME TypeOK, NeverNull', NEW s \in Schedulers, Thread(s)
    PROVE  \/ SamePhases
           \/ PhaseOf(s) = "on" /\ NewPhase(s, "ending") /\ LeaveLoop(s)
           \/ PhaseOf(s) = "ending" /\ NewPhase(s, "ready") /\ Readies(s)
  <1> USE DEF TypeOK, ThreadTypeOK
  <1>1. CASE UNCHANGED pc
    BY <1>1 DEF SamePhases, PhaseOf, InLoop
  <1>2. ASSUME NEW l \in Labels, <<pc[s], l>> \in Flow, Goto(s, l)
        PROVE  \/ SamePhases
               \/ PhaseOf(s) = "on" /\ NewPhase(s, "ending") /\ LeaveLoop(s)
               \/ PhaseOf(s) = "ending" /\ NewPhase(s, "ready") /\ Readies(s)
    <2>1. /\ pc'[s] = l /\ l # "dead"
          /\ \A t \in Schedulers \ {s} : pc'[t] = pc[t]
      BY <1>2 DEF Goto, NeverNull
    <2>2. \A t \in Schedulers \ {s} : PhaseOf(t)' = PhaseOf(t)
      BY <2>1 DEF PhaseOf, InLoop
    <2>3. CASE pc[s] = "top" /\ l = "sig"
      <3>1. LeaveLoop(s)
        BY <2>1, <2>3, ThreadAt DEF StartPass, Goto
      <3>2. PhaseOf(s) = "on" /\ PhaseOf(s)' = "ending"
        BY <2>1, <2>3 DEF PhaseOf, InLoop
      <3> QED
        BY <2>2, <3>1, <3>2 DEF NewPhase
    <2>4. CASE l = "ready"
      <3>1. pc[s] \in {"round", "wait9"}
        BY <1>2, <2>4 DEF Flow
      <3>2. PhaseOf(s) = "ending" /\ PhaseOf(s)' = "ready"
        BY <2>1, <2>4, <3>1 DEF PhaseOf, InLoop
      <3>3. ASSUME pc[s] = "round" PROVE Readies(s)
        <4>1. NextRound(s) \/ StopWaiting(s)
          BY <3>3, ThreadAt
        <4>2. ~NextRound(s) /\ (StopWaiting(s) => ~ProgramsLeft(s))
          BY <2>1, <2>4 DEF NextRound, StopWaiting, Goto
        <4> QED
          BY <4>1, <4>2 DEF Readies
      <3>4. ASSUME pc[s] = "wait9" PROVE Readies(s)
        <4>1. LastStep(s)
          BY <3>4, ThreadAt
        <4>2. ~LastDeath(s) /\ ~LastUnknown(s) /\ ~LastNobody(s)
          BY <2>1, <2>4, <3>4 DEF LastDeath, LastUnknown, LastNobody, Goto
        <4> QED
          BY <4>1, <4>2 DEF LastStep, Readies
      <3> QED
        BY <2>2, <3>1, <3>2, <3>3, <3>4 DEF NewPhase
    <2>5. CASE ~(pc[s] = "top" /\ l = "sig") /\ l # "ready"
      <3>1. PhaseOf(s)' = PhaseOf(s)
        BY <1>2, <2>1, <2>5 DEF Flow, PhaseOf, InLoop
      <3> QED
        BY <2>2, <3>1 DEF SamePhases
    <2> QED
      BY <2>3, <2>4, <2>5
  <1> QED
    BY <1>1, <1>2, ThreadFlow

(* A thread ends the process only when it cannot fork, in its loop.        *)
LEMMA ThreadUp ==
    ASSUME NEW s \in Schedulers, Thread(s)
    PROVE  \/ UNCHANGED up
           \/ InLoop(s) /\ up' = FALSE /\ UNCHANGED <<kid, programVars, pc>>
  <1>1. ASSUME NEW p, NEW sq, Run(s, p, sq)
        PROVE  UNCHANGED up \/ (up' = FALSE /\ UNCHANGED <<kid, programVars>>)
    BY <1>1 DEF Run, AlreadyRunning, Launch, ForkFails, CannotRun, NoLogFile
  <1>2. CASE DoRun(s) \/ ActStartNow(s)
    BY <1>1, <1>2 DEF DoRun, InPass, ActStartNow, InActions, At, InLoop
  <1>3. CASE \/ StartPass(s) \/ LeaveLoop(s) \/ DoExit(s) \/ DoEnd(s) \/ DoNoStart(s) \/ NotYet(s)
             \/ PassDone(s) \/ Erase(s) \/ EraseDone(s) \/ CheckLimit(s) \/ LimitsDone(s)
             \/ ReapUnknown(s) \/ ReapNone(s) \/ ReapDone(s) \/ ActQueue(s) \/ ActSkip(s) \/ ActDone(s)
             \/ (\E k \in Pids : ReapChild(s, k))
    BY <1>3 DEF StartPass, LeaveLoop, DoExit, DoEnd, DoNoStart, NotYet, PassDone, Erase, EraseDone,
                CheckLimit, LimitsDone, ReapUnknown, ReapChild, ReapNone, ReapDone, ActQueue, ActSkip,
                ActDone
  <1>4. CASE \/ SendStop(s) \/ StopsSent(s) \/ NextRound(s) \/ StopWaiting(s) \/ WaitDeath(s)
             \/ WaitUnknown(s) \/ WaitNobody(s) \/ RoundDone(s) \/ SendKill(s) \/ KillsSent(s)
             \/ LastDeath(s) \/ LastUnknown(s) \/ LastNobody(s) \/ GiveUp(s)
    BY <1>4 DEF SendStop, StopsSent, NextRound, StopWaiting, WaitDeath, WaitUnknown, WaitNobody,
                RoundDone, SendKill, KillsSent, LastDeath, LastUnknown, LastNobody, GiveUp
  <1> QED
    BY <1>2, <1>3, <1>4 DEF Thread

-----------------------------------------------------------------------------
(* The steps.                                                              *)

(* A step in which no program changes its state and no sequence moves.     *)
LEMMA QuietStates ==
    ASSUME StatesAgree, StatesAgree', UNCHANGED <<kid, programVars>> PROVE SameStates
  BY DEF StatesAgree, StateByPid, StillUp, Alive, SameStates, programVars

(* Nobody is up when a scheduler becomes READY.                            *)
LEMMA ReadyGuard ==
    ASSUME RefinementInv, NEW s \in Schedulers, KillOK(s)', pc'[s] = "ready", UNCHANGED kid,
           NEW p \in Programs, OwnerOf[p] = s
    PROVE  StateOf(p) # "up"
  <1>1. Marked(kid, s, NumProgs(s))
    BY DEF KillOK
  <1>2. PICK i \in 1..NumProgs(s) : Progs[s][i] = p
    <2>1. Progs[s] \in Seq(Programs)
      BY SchedulerAssumption
    <2> QED
      BY <2>1, OwnedBy DEF Range, NumProgs
  <1>3. ASSUME pid[p] # NoPid PROVE ~StillUp(pid[p])
    <2>1. pid[p] \in Pids /\ kid[pid[p]].prog = p
      BY <1>3 DEF RefinementInv, ChildInv, PidIsChild, TypeOK, ProgramTypeOK
    <2> QED
      BY <1>1, <1>2, <2>1 DEF Marked, StillUp, Alive
  <1> QED
    BY <1>3 DEF RefinementInv, StatesAgree, StateByPid

(* Commands, the world and stutters let a program die, or change nothing.  *)
LEMMA CalmSimulated ==
    ASSUME RefinementInv, StatesAgree', CalmStep, SamePhases, UNCHANGED up, up \/ SameStates
    PROVE  [Abstract!Next]_Abstract!vars
  <1>1. UNCHANGED seq_idx
    BY DEF CalmStep
  <1>2. CASE SameStates
    BY <1>1, <1>2 DEF SameStates, SamePhases, Abstract!vars
  <1>3. ASSUME up, NEW p \in Programs, StateOf(p) = "up", NewState(p, "doomed") PROVE Abstract!Next
    <2>1. Abstract!Die(p)
      BY <1>1, <1>3 DEF NewState, SamePhases, Abstract!Die
    <2> QED
      BY <1>3, <2>1 DEF Abstract!Next
  <1> QED
    BY <1>2, <1>3, CalmState

LEMMA StartSimulated ==
    ASSUME RefinementInv, StatesAgree', NEW s \in Schedulers, NEW p \in Range(Progs[s]),
           NEW k \in Pids, StartStep(s, p, k), SamePhases, UNCHANGED up, up
    PROVE  Abstract!Next
  <1>1. p \in Programs /\ OwnerOf[p] = s
    BY OwnerIs
  <1>2. PhaseOf(s) = "on" /\ UNCHANGED seq_idx
    BY DEF StartStep, PhaseOf, InLoop
  <1>3. StateOf(p) = "idle" /\ NewState(p, "up")
    BY StartState
  <1>4. Abstract!Start(p)
    BY <1>1, <1>2, <1>3 DEF NewState, SamePhases, Abstract!Start
  <1> QED
    BY <1>1, <1>4 DEF Abstract!Next

(* In the loop a death moves the sequence on, after it it does not.        *)
LEMMA DeathSimulated ==
    ASSUME RefinementInv, StatesAgree', NEW s \in Schedulers, NEW k \in Pids, DeathStep(s, k),
           SamePhases, UNCHANGED up, up
    PROVE  Abstract!Next
  <1>1. PICK p \in Range(Progs[s]) : p = running[s][k]
    BY DEF RefinementInv, TypeOK, SharedTypeOK, DeathStep
  <1>2. p \in Programs /\ OwnerOf[p] = s
    BY OwnerIs
  <1>3. StateOf(p) = "doomed" /\ NewState(p, "idle")
    BY <1>1, DeathState
  <1>4. CASE pc[s] = "reap"
    <2>1. PhaseOf(s) = "on"
      BY <1>4 DEF PhaseOf, InLoop
    <2>2. seq_idx' = [seq_idx EXCEPT ![p] = (@ + 1) % SeqLen[p]]
      <3>1. WhatNext(s, p, kid[k].status) /\ stop_mode[p] # 1
        BY <1>1, <1>2, <1>4 DEF DeathStep, RefinementInv, NoHandStop
      <3> QED
        BY <3>1 DEF WhatNext, NextSeqIdx
    <2>3. Abstract!Notice(p)
      BY <1>2, <1>3, <2>1, <2>2 DEF NewState, SamePhases, Abstract!Notice
    <2> QED
      BY <1>2, <2>3 DEF Abstract!Next
  <1>5. CASE pc[s] \in {"wait", "wait9"} /\ UNCHANGED seq_idx
    <2>1. PhaseOf(s) = "ending"
      BY <1>5 DEF PhaseOf, InLoop
    <2>2. Abstract!NoticeWhileEnding(p)
      BY <1>2, <1>3, <1>5, <2>1 DEF NewState, SamePhases, Abstract!NoticeWhileEnding
    <2> QED
      BY <1>2, <2>2 DEF Abstract!Next
  <1> QED
    BY <1>4, <1>5 DEF DeathStep

LEMMA ThreadSimulated ==
    ASSUME NoMaxRun, RefinementInv, RefinementInv', NEW s \in Schedulers, Thread(s)
    PROVE  [Abstract!Next]_Abstract!vars
  <1>0. TypeOK /\ NeverNull' /\ StatesAgree /\ StatesAgree' /\ up
    BY ThreadFlow DEF RefinementInv
  <1>1. CASE InLoop(s) /\ up' = FALSE /\ UNCHANGED <<kid, programVars, pc>>
    <2>1. SameStates /\ UNCHANGED seq_idx
      BY <1>0, <1>1, QuietStates DEF programVars
    <2>2. SamePhases /\ PhaseOf(s) = "on"
      BY <1>1 DEF SamePhases, PhaseOf, InLoop
    <2>3. Abstract!Abort
      BY <1>0, <1>1, <2>1, <2>2 DEF SameStates, SamePhases, Abstract!Abort
    <2> QED
      BY <1>0, <2>3 DEF Abstract!Next
  <1>2. CASE UNCHANGED up /\ PhaseOf(s) = "on" /\ NewPhase(s, "ending") /\ LeaveLoop(s)
    <2>1. UNCHANGED <<kid, programVars>> /\ UNCHANGED seq_idx
      BY <1>2 DEF LeaveLoop, programVars
    <2>2. SameStates
      BY <1>0, <2>1, QuietStates
    <2>3. Abstract!TurnOff(s)
      BY <1>2, <2>1, <2>2 DEF SameStates, NewPhase, Abstract!TurnOff
    <2> QED
      BY <1>0, <2>3 DEF Abstract!Next
  <1>3. CASE UNCHANGED up /\ PhaseOf(s) = "ending" /\ NewPhase(s, "ready") /\ Readies(s)
    <2>1. UNCHANGED <<kid, programVars>> /\ UNCHANGED seq_idx /\ pc'[s] = "ready"
      BY <1>0, <1>3 DEF Readies, StopWaiting, GiveUp, BecomeReady, Goto, programVars, TypeOK, ThreadTypeOK
    <2>2. SameStates
      BY <1>0, <2>1, QuietStates
    <2>3. KillOK(s)'
      BY DEF RefinementInv, ShutdownInv
    <2>4. \A p \in Programs : OwnerOf[p] = s => StateOf(p) # "up"
      BY <2>1, <2>3, ReadyGuard
    <2>5. Abstract!BecomeReady(s)
      BY <1>3, <2>1, <2>2, <2>4 DEF SameStates, NewPhase, Abstract!BecomeReady
    <2> QED
      BY <1>0, <2>5 DEF Abstract!Next
  <1>4. CASE UNCHANGED up /\ SamePhases
    <2>1. ThreadStepKind(s)
      BY <1>0, ThreadKind
    <2>2. ASSUME NEW p \in Programs, LimitStep(p) PROVE FALSE
      BY <2>2 DEF LimitStep, NoMaxRun
    <2> QED
      BY <1>0, <1>4, <2>1, <2>2, CalmSimulated, StartSimulated, DeathSimulated, NotLost DEF ThreadStepKind
  <1> QED
    BY <1>0, <1>1, <1>2, <1>3, <1>4, ThreadPhase, ThreadUp

LEMMA StepSimulated ==
    ASSUME NoMaxRun, RefinementInv, RefinementInv', [Next]_vars PROVE [Abstract!Next]_Abstract!vars
  <1>1. CASE Commands \/ World \/ UNCHANGED vars
    <2>1. TypeOK /\ StatesAgree /\ StatesAgree'
      BY DEF RefinementInv
    <2>2. CalmStep
      BY <1>1, <2>1, OthersKind
    <2>3. SamePhases
      BY <1>1, OthersFlow DEF threadVars, SamePhases, PhaseOf, InLoop
    <2>4. UNCHANGED up
      BY <1>1 DEF Commands, CmdStart, CmdStop, CmdQuit, PushQuit, CmdQuitOne, CtrlC, World, KidEnds, KidIsKilled,
                  Elapse, Tick, allButKid, vars
    <2>5. up \/ UNCHANGED <<kid, programVars>>
      BY <1>1 DEF Commands, Command, CmdStart, CmdStop, CmdQuit, PushQuit, CmdQuitOne, CtrlC, World, KidEnds,
                  KidIsKilled, Elapse, Tick, vars
    <2> QED
      BY <2>1, <2>2, <2>3, <2>4, <2>5, QuietStates, CalmSimulated
  <1> QED
    BY <1>1, ThreadSimulated DEF Next, Terminated

LEMMA InitSimulated == Init => Abstract!Init
  <1> SUFFICES ASSUME Init PROVE Abstract!Init
    OBVIOUS
  <1>1. \A p \in Programs : StateOf(p) = "idle"
    BY DEF Init, Prepared, KernelInit, Free, StateOf, ChildrenOf, Unreaped
  <1>2. \A s \in Schedulers : PhaseOf(s) = "on"
    BY DEF Init, Prepared, PhaseOf, InLoop
  <1> QED
    BY <1>1, <1>2 DEF Init, Prepared, ProgramInit, Abstract!Init

-----------------------------------------------------------------------------
(* What the mapping needs to know holds while no thread is lost.           *)
LEMMA RefinementInvariant == ASSUME NoMaxRun PROVE Spec /\ []NeverNull => []RefinementInv
  <1>1. TypeOK /\ NeverNull /\ ChildInv /\ TrackedInv /\ NoHandStop /\ ShutdownInv => RefinementInv
    BY StateOfPid DEF RefinementInv, ChildInv, TrackedInv
  <1> QED
    BY <1>1, TypeCorrect, ChildInvariant, TrackedInvariant, NoHandStopInvariant, ShutdownInvariant, PTL

(* Every behaviour in which no thread reaps a child it does not know is    *)
(* one of the Supervisor, for any number of schedulers without a           *)
(* maxruntime: programs start one at a time and only while their scheduler *)
(* is in its loop, a sequence moves with each death that is noticed there  *)
(* and with no other, and READY leaves nobody unkilled.                    *)
THEOREM SchedulersSupervise == ASSUME NoMaxRun PROVE Spec /\ []NeverNull => ImplementsSupervisor
  <1>1. RefinementInv /\ RefinementInv' /\ [Next]_vars => [Abstract!Next]_Abstract!vars
    BY StepSimulated
  <1>2. Spec /\ []NeverNull => Abstract!Spec
    BY <1>1, InitSimulated, RefinementInvariant, PTL DEF Spec, Abstract!Spec
  <1> QED
    BY <1>2 DEF ImplementsSupervisor

(* With one scheduler no thread is ever lost: every behaviour is one of    *)
(* the Supervisor.                                                         *)
THEOREM OneSchedulerSupervises ==
    ASSUME NoMaxRun, NEW s0, Schedulers = {s0} PROVE Spec => ImplementsSupervisor
  BY OneSchedulerNeverNull, SchedulersSupervise, PTL
=============================================================================
