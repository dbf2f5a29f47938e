----------------------------- MODULE PeterProofs -----------------------------
(***************************************************************************)
(* What TLAPS proves of the whole process, module Peter: what is proved of *)
(* the scheduler threads alone holds with main() among them, which reads   *)
(* and writes their members without a lock, and main() returns only when   *)
(* nobody is left but those that are killed already.                       *)
(***************************************************************************)
EXTENDS Peter, RefinementProofs

-----------------------------------------------------------------------------
(* What main() can do to the schedulers.                                   *)

(* The iterator of main() is at a scheduler while it works on one, and     *)
(* main() has returned only when every scheduler was READY.                *)
MainInv ==
    /\ si \in Nat \ {0}
    /\ mpc \in {"mark", "clear"} => si <= Len(Order)
    /\ mpc = "gone" => ~up /\ \A s \in Schedulers : status[s] = "READY"

LEMMA SchedType == ASSUME MainInv, More PROVE Sched \in Schedulers
  BY SchedulerAssumption DEF MainInv, More, Sched

(* A step of main() or of its signal handler: it reads whatever it likes,  *)
(* and writes the mode, status, changed counter and exit of the process,   *)
(* but it makes no scheduler READY.                                        *)
MainStep ==
    /\ UNCHANGED <<kid, programVars, threadVars, schedule, running, elog, sock>>
    /\ up' \in {up, FALSE}
    /\ ncmd' \in {ncmd} \cup 0..MaxCmds
    /\ mode' = mode \/ \E s \in Schedulers, m \in {"ON", "OFF"} : mode' = [mode EXCEPT ![s] = m]
    /\ status' = status \/ \E s \in Schedulers : status' = [status EXCEPT ![s] = "RUNNING"]
    /\ changed' = changed \/ \E s \in Schedulers : changed' = [changed EXCEPT ![s] = FALSE]

LEMMA MainSteps ==
    ASSUME TypeOK, MainInv, Main \/ CtrlCHandler PROVE MainStep /\ MainInv'
  <1> USE DEF MainInv, MainAt
  <1>1. CASE CreateThread \/ ThreadFails \/ TurnOff
    <2>1. Sched \in Schedulers
      BY <1>1, SchedType DEF CreateThread, ThreadFails, TurnOff, MoreToTurnOff
    <2>2. MainStep
      BY <1>1, <2>1 DEF CreateThread, ThreadFails, TurnOff, MainStep
    <2>3. MainInv'
      BY <1>1 DEF CreateThread, ThreadFails, TurnOff, More, mainVars
    <2> QED
      BY <2>2, <2>3
  <1>2. CASE MarkRunning \/ ClearChanged
    <2>1. Sched \in Schedulers
      BY <1>2, SchedType DEF MarkRunning, ClearChanged, More
    <2>2. MainStep
      BY <1>2, <2>1 DEF MarkRunning, ClearChanged, MainStep
    <2>3. MainInv'
      BY <1>2 DEF MarkRunning, ClearChanged
    <2> QED
      BY <2>2, <2>3
  <1>3. CASE \/ Launched \/ ReadChanged \/ NothingChanged \/ OpenPidFile \/ ReadPid \/ WritePidFile
             \/ TestCtrlC \/ AllTurnedOff \/ PollAgain
    <2>1. UNCHANGED vars
      BY <1>3 DEF Launched, ReadChanged, NothingChanged, OpenPidFile, ReadPid, WritePidFile, TestCtrlC,
                  AllTurnedOff, PollAgain
    <2>2. MainStep
      BY <2>1 DEF vars, sharedVars, MainStep
    <2>3. MainInv'
      <3>1. ReadChanged => Sched \in Schedulers /\ si <= Len(Order)
        BY SchedType DEF ReadChanged, More
      <3> QED
        BY <1>3, <3>1 DEF Launched, ReadChanged, NothingChanged, OpenPidFile, ReadPid, WritePidFile,
                          TestCtrlC, AllTurnedOff, PollAgain, TypeOK, SharedTypeOK
    <2> QED
      BY <2>2, <2>3
  <1>4. CASE Return
    BY <1>4 DEF Return, SomeNotReady, sharedVars, MainStep
  <1>5. CASE CtrlCHandler
    <2>1. UNCHANGED <<mode, status, schedule, running, changed, mpc, si, got, up>> /\ ncmd' = ncmd + 1 /\ ncmd < MaxCmds
      BY <1>5 DEF CtrlCHandler, Command, sharedVars
    <2>2. ncmd' \in 0..MaxCmds
      BY <2>1, SchedulerAssumption DEF TypeOK, OtherTypeOK
    <2> QED
      BY <1>5, <2>1, <2>2 DEF CtrlCHandler, MainStep
  <1> QED
    BY <1>1, <1>2, <1>3, <1>4, <1>5 DEF Main

(* The other steps are those of module Scheduler.                          *)
LEMMA OtherSteps ==
    ASSUME TypeOK, MainInv, [PeterNext]_peterVars, ~Main, ~CtrlCHandler
    PROVE  [Next]_vars /\ MainInv'
  <1>1. [Next]_vars /\ UNCHANGED mainVars
    BY DEF PeterNext, LaunchedThread, SocketCommands, Next, Commands, peterVars
  <1>2. ~up => UNCHANGED vars
    BY ThreadFlow DEF PeterNext, LaunchedThread, SocketCommands, CmdStart, CmdStop, CmdQuit, PushQuit, CmdQuitOne,
                      SocketCommand, Command, World, KidEnds, KidIsKilled, Elapse, Tick, peterVars
  <1>3. mpc' = "gone" => UNCHANGED vars
    BY <1>1, <1>2 DEF mainVars, MainInv
  <1> QED
    BY <1>1, <1>3 DEF MainInv, mainVars, vars, sharedVars

-----------------------------------------------------------------------------
(* The invariants of the schedulers.                                       *)

LEMMA MainStepType == ASSUME TypeOK, MainStep PROVE TypeOK'
  <1> USE DEF TypeOK
  <1>1. KernelTypeOK' /\ ProgramTypeOK' /\ ThreadTypeOK'
    BY DEF MainStep, KernelTypeOK, ProgramTypeOK, ThreadTypeOK, programVars, threadVars
  <1>2. SharedTypeOK'
    <2>1. UNCHANGED <<schedule, running>>
      BY DEF MainStep
    <2>2. mode' \in [Schedulers -> {"ON", "OFF"}]
      BY DEF MainStep, SharedTypeOK
    <2>3. status' \in [Schedulers -> {"INITIALISED", "RUNNING", "ENDING", "WAITING", "READY"}]
      BY DEF MainStep, SharedTypeOK
    <2>4. changed' \in [Schedulers -> BOOLEAN]
      BY DEF MainStep, SharedTypeOK
    <2> QED
      BY <2>1, <2>2, <2>3, <2>4 DEF SharedTypeOK
  <1>3. OtherTypeOK'
    BY DEF MainStep, OtherTypeOK
  <1> QED
    BY <1>1, <1>2, <1>3

(* The same children, pids and maps.                                       *)
LEMMA MainStepSame ==
    ASSUME MainStep
    PROVE  /\ KnownChildren => KnownChildren'
           /\ ChildInv => ChildInv'
           /\ TrackedInv => TrackedInv'
  <1>1. UNCHANGED <<kid, pid, running, seq_idx, pc>>
    BY DEF MainStep, programVars, threadVars
  <1>2. KnownChildren => KnownChildren'
    BY <1>1 DEF KnownChildren, Unreaped, Owns
  <1>3. ChildInv => ChildInv'
    BY <1>1 DEF ChildInv, NeverNull, MapIsChild, PidIsChild, Unreaped
  <1>4. TrackedInv => TrackedInv'
    BY <1>1 DEF TrackedInv, Tracked, MapAgrees, SequenceInStep, Unreaped
  <1> QED
    BY <1>2, <1>3, <1>4

LEMMA MainStepShutdown == ASSUME TypeOK, MainStep, ShutdownInv PROVE ShutdownInv'
  <1>1. UNCHANGED <<kid, pid, pc, ix, cnt>>
    BY DEF MainStep, programVars, threadVars
  <1>2. \A s \in Schedulers : status'[s] = "READY" => status[s] = "READY"
    BY DEF MainStep, TypeOK, SharedTypeOK
  <1> QED
    <2>1. NeverNull' => NeverNull
      BY <1>1 DEF NeverNull
    <2>2. ASSUME NEW s \in Schedulers, CountOK(s), KillOK(s) PROVE CountOK(s)' /\ KillOK(s)'
      <3>1. Counted(s)' = Counted(s)
        BY <1>1 DEF Counted
      <3> QED
        BY <1>1, <1>2, <2>2, <3>1 DEF CountOK, KillOK
    <2> QED
      BY <2>1, <2>2 DEF ShutdownInv

(* READY is the status of a thread that has ended, and of no other.        *)
ReadyEnded == \A s \in Schedulers : status[s] = "READY" => pc[s] = "ready"

LEMMA MainStepReady == ASSUME TypeOK, MainStep, ReadyEnded PROVE ReadyEnded'
  BY DEF MainStep, threadVars, TypeOK, SharedTypeOK, ReadyEnded

LEMMA NextReady == ASSUME TypeOK, ReadyEnded, [Next]_vars PROVE ReadyEnded'
  <1> USE DEF ReadyEnded
  <1>1. ASSUME NEW s \in Schedulers, Thread(s) PROVE ReadyEnded'
    BY <1>1, ThreadFlow, ThreadOwn, ThreadReady
  <1>2. CASE Commands \/ World \/ UNCHANGED vars
    <2>1. UNCHANGED threadVars
      BY <1>2, OthersFlow
    <2>2. UNCHANGED status
      BY <1>2 DEF Commands, CmdStart, CmdStop, CmdQuit, PushQuit, CmdQuitOne, CtrlC, World, KidEnds, KidIsKilled,
                  Elapse, Tick, allButKid, sharedVars, vars
    <2> QED
      BY <2>1, <2>2 DEF threadVars
  <1> QED
    BY <1>1, <1>2 DEF Next, Terminated

PeterInv == TypeOK /\ MainInv /\ KnownChildren /\ ReadyEnded

LEMMA PeterInvariant == PeterSpec => []PeterInv
  <1>1. PeterInit => PeterInv
    <2> SUFFICES ASSUME PeterInit PROVE PeterInv
      OBVIOUS
    <2>1. KernelTypeOK
      BY DEF PeterInit, Prepared, KernelInit, KernelTypeOK, Kid, KidRecord, Free, Exited, Status
    <2>2. ProgramTypeOK
      BY ProgramAssumption DEF PeterInit, Prepared, ProgramInit, ProgramTypeOK, Ages, Young, StartsCap
    <2>3. ThreadTypeOK
      BY DEF PeterInit, Prepared, ThreadTypeOK, Labels, Job, NoJob, Count, NoCount
    <2>4. SharedTypeOK
      BY SchedulerAssumption DEF PeterInit, Prepared, SharedTypeOK
    <2>5. OtherTypeOK
      BY SchedulerAssumption DEF PeterInit, Prepared, OtherTypeOK, NoEvent
    <2>6. MainInv
      BY DEF PeterInit, MainInv
    <2>7. KnownChildren
      BY DEF PeterInit, Prepared, KernelInit, Free, KnownChildren, Unreaped
    <2>8. ReadyEnded
      BY DEF PeterInit, ReadyEnded
    <2> QED
      BY <2>1, <2>2, <2>3, <2>4, <2>5, <2>6, <2>7, <2>8 DEF PeterInv, TypeOK
  <1>2. PeterInv /\ [PeterNext]_peterVars => PeterInv'
    <2> SUFFICES ASSUME PeterInv, [PeterNext]_peterVars PROVE PeterInv'
      OBVIOUS
    <2> USE DEF PeterInv
    <2>1. CASE Main \/ CtrlCHandler
      BY <2>1, MainSteps, MainStepType, MainStepSame, MainStepReady
    <2>2. CASE ~Main /\ ~CtrlCHandler
      <3>1. [Next]_vars /\ MainInv'
        BY <2>2, OtherSteps
      <3>2. TypeOK'
        BY <3>1, ThreadType, CommandType, WorldType, StutterType DEF Next, Terminated
      <3> QED
        BY <3>1, <3>2, KnownChildrenStep, NextReady
    <2> QED
      BY <2>1, <2>2
  <1> QED
    BY <1>1, <1>2, PTL DEF PeterSpec

(* With main() among the threads, whatever it reads and writes and when,   *)
(* the scheduler that forked a child still has it in its map.              *)
THEOREM PeterKnowsChildren == PeterSpec => [](TypeOK /\ KnownChildren)
  <1>1. PeterInv => TypeOK /\ KnownChildren
    BY DEF PeterInv
  <1> QED
    BY <1>1, PeterInvariant, PTL

EndInv == ChildInv /\ TrackedInv /\ ShutdownInv

LEMMA EndInvariant == ASSUME NoMaxRun PROVE PeterSpec => []EndInv
  <1>1. PeterInit => EndInv
    BY DEF PeterInit, Prepared, KernelInit, ProgramInit, Free, EndInv, ChildInv, MapIsChild, PidIsChild,
           TrackedInv, Tracked, MapAgrees, SequenceInStep, Unreaped, ShutdownInv, CountOK, KillOK, Ending
  <1>2. PeterInv /\ EndInv /\ [PeterNext]_peterVars => EndInv'
    <2> SUFFICES ASSUME PeterInv, EndInv, [PeterNext]_peterVars PROVE EndInv'
      OBVIOUS
    <2> USE DEF PeterInv, EndInv
    <2>1. CASE Main \/ CtrlCHandler
      BY <2>1, MainSteps, MainStepSame, MainStepShutdown
    <2>2. CASE ~Main /\ ~CtrlCHandler
      <3>1. [Next]_vars
        BY <2>2, OtherSteps
      <3> QED
        BY <3>1, ChildInvStep, TrackedStep, ShutdownStep
    <2> QED
      BY <2>1, <2>2
  <1> QED
    BY <1>1, <1>2, PeterInvariant, PTL DEF PeterSpec

(* Without a maxruntime a program of the whole process has one child at    *)
(* most, the one its pid names, for any number of schedulers.              *)
THEOREM PeterTracksChildren == ASSUME NoMaxRun PROVE PeterSpec => []Tracked
  <1>1. EndInv => Tracked
    BY DEF EndInv, TrackedInv
  <1> QED
    BY <1>1, EndInvariant, PTL

(* When main() returns every scheduler is READY, so no thread was lost,    *)
(* and every child that is alive has been sent SIGKILL: for any number of  *)
(* schedulers without a maxruntime, whatever the order of the launch, the  *)
(* polls, control-C and the commands.                                      *)
THEOREM GoneLeavesNone == ASSUME NoMaxRun PROVE PeterSpec => []GoneMeansStopped
  <1>1. PeterInv /\ EndInv => GoneMeansStopped
    <2> SUFFICES ASSUME TypeOK, MainInv, ReadyEnded, ShutdownInv, mpc = "gone", NEW k \in Pids, Alive(k)
                 PROVE  SIGKILL \in kid[k].pend
      BY DEF PeterInv, EndInv, GoneMeansStopped
    <2>1. \A s \in Schedulers : status[s] = "READY"
      BY DEF MainInv
    <2>2. NoSurvivor
      <3>1. NeverNull
        BY <2>1 DEF ReadyEnded, NeverNull
      <3> QED
        BY <3>1, NoneSurvive
    <2>3. PICK s \in Schedulers : Owns(s, kid[k].prog)
      <3>1. kid[k].prog \in Programs
        BY DEF TypeOK, KernelTypeOK, Kid, Alive
      <3> QED
        BY <3>1, SchedulerAssumption DEF Owns
    <2> QED
      BY <2>1, <2>2, <2>3 DEF NoSurvivor
  <1> QED
    BY <1>1, PeterInvariant, EndInvariant, PTL

-----------------------------------------------------------------------------
(* The whole process implements the Supervisor.                            *)

LEMMA PeterNoHandStop == PeterSpec => []NoHandStop
  <1>1. PeterInit => NoHandStop
    BY DEF PeterInit, Prepared, ProgramInit, NoHandStop
  <1>2. PeterInv /\ NoHandStop /\ [PeterNext]_peterVars => NoHandStop'
    <2> SUFFICES ASSUME PeterInv, NoHandStop, [PeterNext]_peterVars PROVE NoHandStop'
      OBVIOUS
    <2> USE DEF PeterInv
    <2>1. CASE Main \/ CtrlCHandler
      BY <2>1, MainSteps DEF MainStep, programVars, NoHandStop
    <2>2. CASE ~Main /\ ~CtrlCHandler
      BY <2>2, OtherSteps, NoHandStopStep
    <2> QED
      BY <2>1, <2>2
  <1> QED
    BY <1>1, <1>2, PeterInvariant, PTL DEF PeterSpec

(* A scheduler that main() has not launched yet is at its first statement. *)
LaunchInv ==
    /\ \A s \in Schedulers : s \notin launched => pc[s] = "top"
    /\ mpc = "launch" => \A i \in DOMAIN Order : i >= si => Order[i] \notin launched
    /\ mpc = "mark" => \A i \in DOMAIN Order : i > si => Order[i] \notin launched

LEMMA LaunchInvariant == PeterSpec => []LaunchInv
  <1>1. PeterInit => LaunchInv
    BY DEF PeterInit, Prepared, LaunchInv
  <1>2. PeterInv /\ LaunchInv /\ [PeterNext]_peterVars => LaunchInv'
    <2> SUFFICES ASSUME PeterInv, LaunchInv, [PeterNext]_peterVars PROVE LaunchInv'
      OBVIOUS
    <2> USE DEF PeterInv, LaunchInv
    <2>1. si \in Nat \ {0} /\ Order \in Seq(Schedulers)
      BY SchedulerAssumption DEF MainInv
    <2>2. CASE Main \/ CtrlCHandler
      <3>1. UNCHANGED pc
        BY <2>2, MainSteps DEF MainStep, threadVars
      <3>2. CASE CreateThread
        BY <2>1, <3>1, <3>2, SchedulerAssumption DEF CreateThread, MainAt, More, Sched
      <3>3. CASE MarkRunning
        BY <2>1, <3>1, <3>3 DEF MarkRunning, MainAt
      <3>4. CASE ~CreateThread /\ ~MarkRunning
        <4>1. /\ UNCHANGED launched
              /\ mpc' \in {"launch", "mark"} => UNCHANGED <<mpc, si>>
          BY <2>2, <3>4 DEF Main, ThreadFails, Launched, ReadChanged, ClearChanged, NothingChanged, OpenPidFile,
                 ReadPid, WritePidFile, TestCtrlC, TurnOff, AllTurnedOff, PollAgain, Return, CtrlCHandler,
                 MainAt, mainVars
        <4> QED
          BY <3>1, <4>1
      <3> QED
        BY <3>2, <3>3, <3>4
    <2>3. CASE ~Main /\ ~CtrlCHandler
      <3>1. UNCHANGED <<mpc, si, launched>>
        BY <2>3 DEF PeterNext, peterVars, mainVars
      <3>2. \A s \in Schedulers : s \notin launched => pc'[s] = pc[s]
        <4>1. ASSUME NEW t \in Schedulers, LaunchedThread(t)
              PROVE  \A s \in Schedulers : s \notin launched => pc'[s] = pc[s]
          BY <4>1, ThreadOwn DEF LaunchedThread
        <4>2. CASE (SocketCommands \/ World) \/ UNCHANGED peterVars
          BY <4>2, OthersFlow DEF SocketCommands, Commands, peterVars, threadVars
        <4> QED
          BY <2>3, <4>1, <4>2 DEF PeterNext
      <3> QED
        BY <3>1, <3>2
    <2> QED
      BY <2>2, <2>3
  <1> QED
    BY <1>1, <1>2, PeterInvariant, PTL DEF PeterSpec

(* What main() does is nothing to the Supervisor, but for its exit when it *)
(* cannot create a thread, and its return, when every scheduler is ready.  *)
LEMMA MainSimulated ==
    ASSUME PeterInv, LaunchInv, Main \/ CtrlCHandler PROVE [Abstract!Next]_Abstract!vars
  <1>1. UNCHANGED <<kid, seq_idx, pc>>
    BY MainSteps DEF PeterInv, MainStep, programVars, threadVars
  <1>2. SameStates /\ SamePhases
    BY <1>1 DEF SameStates, SamePhases, StateOf, ChildrenOf, Unreaped, StillUp, Alive, PhaseOf, InLoop
  <1>3. ASSUME UNCHANGED up PROVE [Abstract!Next]_Abstract!vars
    BY <1>1, <1>2, <1>3 DEF SameStates, SamePhases, Abstract!vars
  <1>4. ASSUME Return PROVE Abstract!Next
    <2>1. \A s \in Schedulers : PhaseOf(s) = "ready"
      BY <1>4 DEF Return, SomeNotReady, PeterInv, ReadyEnded, PhaseOf, InLoop
    <2>2. up /\ ~up'
      BY <1>4 DEF Return, MainAt
    <2>3. Abstract!End
      BY <1>1, <1>2, <2>1, <2>2 DEF SameStates, SamePhases, Abstract!End
    <2> QED
      BY <2>2, <2>3 DEF Abstract!Next
  <1>5. ASSUME ThreadFails PROVE Abstract!Next
    <2>1. Sched \in Schedulers /\ pc[Sched] = "top"
      BY <1>5, SchedType, SchedulerAssumption
         DEF ThreadFails, MainAt, More, Sched, PeterInv, MainInv, LaunchInv
    <2>2. PhaseOf(Sched) = "on" /\ up /\ ~up'
      BY <1>5, <2>1 DEF PhaseOf, InLoop, ThreadFails, MainAt
    <2>3. Abstract!Abort
      BY <1>1, <1>2, <2>1, <2>2 DEF SameStates, SamePhases, Abstract!Abort
    <2> QED
      BY <2>2, <2>3 DEF Abstract!Next
  <1>6. UNCHANGED up \/ Return \/ ThreadFails
    BY DEF Main, CreateThread, MarkRunning, Launched, ReadChanged, ClearChanged, NothingChanged,
           OpenPidFile, ReadPid, WritePidFile, TestCtrlC, TurnOff, AllTurnedOff, PollAgain, CtrlCHandler, vars
  <1> QED
    BY <1>3, <1>4, <1>5, <1>6

LEMMA PeterInitSimulated == PeterInit => Abstract!Init
  <1> SUFFICES ASSUME PeterInit PROVE Abstract!Init
    OBVIOUS
  <1>1. \A p \in Programs : StateOf(p) = "idle"
    BY DEF PeterInit, Prepared, KernelInit, Free, StateOf, ChildrenOf, Unreaped
  <1>2. \A s \in Schedulers : PhaseOf(s) = "on"
    BY DEF PeterInit, Prepared, PhaseOf, InLoop
  <1> QED
    BY <1>1, <1>2 DEF PeterInit, Prepared, ProgramInit, Abstract!Init

(* Every behaviour of the whole process in which no thread reaps a child   *)
(* it does not know is one of the Supervisor, for any number of schedulers *)
(* without a maxruntime: what SchedulersSupervise says holds with main()   *)
(* launching, polling and turning off the threads at any moment, and PETeR *)
(* ends when it cannot fork or create a thread, or when all schedulers are *)
(* ready (main.cc 190-253, Scheduler.cc 86-348).                          *)
THEOREM PeterSupervises == ASSUME NoMaxRun PROVE PeterSpec /\ []NeverNull => ImplementsSupervisor
  <1>1. PeterInv /\ EndInv /\ NoHandStop /\ NeverNull => RefinementInv
    BY StateOfPid DEF PeterInv, EndInv, RefinementInv, ChildInv, TrackedInv
  <1>2. PeterInv /\ LaunchInv /\ RefinementInv /\ RefinementInv' /\ [PeterNext]_peterVars
          => [Abstract!Next]_Abstract!vars
    <2> SUFFICES ASSUME PeterInv, LaunchInv, RefinementInv, RefinementInv', [PeterNext]_peterVars
                 PROVE  [Abstract!Next]_Abstract!vars
      OBVIOUS
    <2>1. CASE Main \/ CtrlCHandler
      BY <2>1, MainSimulated
    <2>2. CASE ~Main /\ ~CtrlCHandler
      BY <2>2, OtherSteps, StepSimulated DEF PeterInv
    <2> QED
      BY <2>1, <2>2
  <1>3. PeterSpec /\ []NeverNull => Abstract!Spec
    BY <1>1, <1>2, PeterInitSimulated, PeterInvariant, LaunchInvariant, EndInvariant, PeterNoHandStop, PTL
       DEF PeterSpec, Abstract!Spec
  <1> QED
    BY <1>3 DEF ImplementsSupervisor

(* With one scheduler the whole process implements the Supervisor without  *)
(* a proviso: no thread is lost.                                           *)
THEOREM OneSchedulerPeterSupervises ==
    ASSUME NoMaxRun, NEW s0, Schedulers = {s0} PROVE PeterSpec => ImplementsSupervisor
  <1>1. PeterInit => NeverNull
    BY DEF PeterInit, Prepared, NeverNull
  <1>2. PeterInv /\ NeverNull /\ [PeterNext]_peterVars => NeverNull'
    <2> SUFFICES ASSUME PeterInv, NeverNull, [PeterNext]_peterVars PROVE NeverNull'
      OBVIOUS
    <2>1. CASE Main \/ CtrlCHandler
      BY <2>1, MainSteps DEF PeterInv, MainStep, threadVars, NeverNull
    <2>2. CASE ~Main /\ ~CtrlCHandler
      BY <2>2, OtherSteps, NeverNullStep DEF PeterInv
    <2> QED
      BY <2>1, <2>2
  <1>3. PeterSpec => []NeverNull
    BY <1>1, <1>2, PeterInvariant, PTL DEF PeterSpec
  <1> QED
    BY <1>3, PeterSupervises, PTL
=============================================================================
