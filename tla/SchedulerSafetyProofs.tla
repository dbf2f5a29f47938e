------------------------ MODULE SchedulerSafetyProofs ------------------------
(***************************************************************************)
(* What TLAPS proves of the safety of module Scheduler beyond              *)
(* SchedulerProofs: the pids that the programs remember, the event list,   *)
(* the sequences, the shutdown, and the limit on the number of starts.     *)
(*                                                                         *)
(* With several schedulers waitpid( 0 ) may give one of them the child of  *)
(* another; its thread then returns ("dead"), and from then on nothing can *)
(* be promised.  The theorems hold for any number of schedulers until that *)
(* happens, while NeverNull holds, and so always with one scheduler        *)
(* (OneSchedulerNeverNull).                                                *)
(***************************************************************************)
EXTENDS SchedulerProofs, FiniteSetTheorems

-----------------------------------------------------------------------------
(* Where a thread can go.                                                  *)

Flow ==
    {<<"top", "pass">>, <<"pass", "erase">>, <<"erase", "limit">>, <<"limit", "reap">>,
     <<"reap", "act">>, <<"act", "reap">>, <<"reap", "top">>,
     <<"top", "sig">>, <<"sig", "round">>, <<"round", "wait">>, <<"wait", "round">>,
     <<"round", "kill">>, <<"kill", "wait9">>, <<"round", "ready">>, <<"wait9", "ready">>}
    \cup {<<l, "dead">> : l \in {"reap", "wait", "wait9"}}

(* What a thread does at each label.                                       *)
PassStep(s) == DoExit(s) \/ DoRun(s) \/ DoEnd(s) \/ DoNoStart(s) \/ NotYet(s) \/ PassDone(s)
EraseStep(s) == Erase(s) \/ EraseDone(s)
LimitCheck(s) == CheckLimit(s) \/ LimitsDone(s)
ReapStep(s) == ReapUnknown(s) \/ (\E k \in Pids : ReapChild(s, k)) \/ ReapNone(s) \/ ReapDone(s)
ActStep(s) == ActStartNow(s) \/ ActQueue(s) \/ ActSkip(s) \/ ActDone(s)
WaitStep(s) == WaitDeath(s) \/ WaitUnknown(s) \/ WaitNobody(s) \/ RoundDone(s)
LastStep(s) == LastDeath(s) \/ LastUnknown(s) \/ LastNobody(s) \/ GiveUp(s)

LEMMA ThreadAt ==
    ASSUME NEW s \in Schedulers, Thread(s)
    PROVE  \/ pc[s] = "top" /\ (StartPass(s) \/ LeaveLoop(s))
           \/ pc[s] = "pass" /\ PassStep(s)
           \/ pc[s] = "erase" /\ EraseStep(s)
           \/ pc[s] = "limit" /\ LimitCheck(s)
           \/ pc[s] = "reap" /\ ReapStep(s)
           \/ pc[s] = "act" /\ ActStep(s)
           \/ pc[s] = "sig" /\ (SendStop(s) \/ StopsSent(s))
           \/ pc[s] = "round" /\ (NextRound(s) \/ StopWaiting(s))
           \/ pc[s] = "wait" /\ WaitStep(s)
           \/ pc[s] = "kill" /\ (SendKill(s) \/ KillsSent(s))
           \/ pc[s] = "wait9" /\ LastStep(s)
  <1>1. StartPass(s) \/ LeaveLoop(s) => pc[s] = "top"
    BY DEF StartPass, LeaveLoop, At
  <1>2. PassStep(s) => pc[s] = "pass"
    BY DEF PassStep, DoExit, DoRun, DoEnd, DoNoStart, NotYet, PassDone, InPass, At
  <1>3. (EraseStep(s) => pc[s] = "erase") /\ (LimitCheck(s) => pc[s] = "limit")
    BY DEF EraseStep, LimitCheck, Erase, EraseDone, CheckLimit, LimitsDone, At
  <1>4. ReapStep(s) => pc[s] = "reap"
    BY DEF ReapStep, ReapUnknown, ReapChild, ReapNone, ReapDone, InReap, At
  <1>5. ActStep(s) => pc[s] = "act"
    BY DEF ActStep, ActStartNow, ActQueue, ActSkip, ActDone, InActions, At
  <1>6. /\ SendStop(s) \/ StopsSent(s) => pc[s] = "sig"
        /\ NextRound(s) \/ StopWaiting(s) => pc[s] = "round"
        /\ SendKill(s) \/ KillsSent(s) => pc[s] = "kill"
    BY DEF SendStop, StopsSent, NextRound, StopWaiting, SendKill, KillsSent, At
  <1>7. (WaitStep(s) => pc[s] = "wait") /\ (LastStep(s) => pc[s] = "wait9")
    BY DEF WaitStep, WaitDeath, WaitUnknown, WaitNobody, RoundDone, InWait, LastStep, LastDeath,
           LastUnknown, LastNobody, GiveUp, At
  <1>8. \/ StartPass(s) \/ LeaveLoop(s) \/ PassStep(s) \/ EraseStep(s) \/ LimitCheck(s) \/ ReapStep(s)
        \/ ActStep(s) \/ SendStop(s) \/ StopsSent(s) \/ NextRound(s) \/ StopWaiting(s) \/ WaitStep(s)
        \/ SendKill(s) \/ KillsSent(s) \/ LastStep(s)
    BY DEF Thread, PassStep, EraseStep, LimitCheck, ReapStep, ActStep, WaitStep, LastStep
  <1> QED
    BY <1>1, <1>2, <1>3, <1>4, <1>5, <1>6, <1>7, <1>8

(* A step of a thread stays where it is or follows the flow; a thread that *)
(* is READY or dead takes no step.                                         *)
LEMMA ThreadFlow ==
    ASSUME NEW s \in Schedulers, Thread(s)
    PROVE  /\ up
           /\ pc[s] \notin {"ready", "dead"}
           /\ UNCHANGED pc \/ \E l \in Labels : <<pc[s], l>> \in Flow /\ Goto(s, l)
  <1>1. ASSUME NEW k \in Pids, ReapChild(s, k)
        PROVE  At(s, "reap") /\ (UNCHANGED pc \/ Goto(s, "act"))
    BY <1>1 DEF ReapChild, InReap, WhatNext
  <1>2. CASE \/ StartPass(s) \/ LeaveLoop(s) \/ PassDone(s) \/ EraseDone(s) \/ LimitsDone(s)
             \/ ReapUnknown(s) \/ ReapDone(s) \/ ActDone(s)
    BY <1>2 DEF StartPass, LeaveLoop, PassDone, EraseDone, LimitsDone, ReapUnknown, ReapDone, ActDone,
                InReap, At, Flow, Labels
  <1>3. CASE \/ StopsSent(s) \/ NextRound(s) \/ StopWaiting(s) \/ WaitUnknown(s) \/ RoundDone(s)
             \/ KillsSent(s) \/ LastUnknown(s) \/ GiveUp(s)
    BY <1>3 DEF StopsSent, NextRound, StopWaiting, WaitUnknown, RoundDone, KillsSent, LastUnknown,
                GiveUp, BecomeReady, InWait, At, Flow, Labels
  <1>4. CASE \/ DoExit(s) \/ DoRun(s) \/ DoEnd(s) \/ DoNoStart(s) \/ NotYet(s) \/ Erase(s)
             \/ CheckLimit(s) \/ ReapNone(s) \/ ActStartNow(s) \/ ActQueue(s) \/ ActSkip(s)
    BY <1>4 DEF DoExit, DoRun, DoEnd, DoNoStart, NotYet, Erase, CheckLimit, ReapNone, ActStartNow,
                ActQueue, ActSkip, InPass, InReap, InActions, At
  <1>5. CASE SendStop(s) \/ WaitDeath(s) \/ WaitNobody(s) \/ SendKill(s) \/ LastDeath(s) \/ LastNobody(s)
    BY <1>5 DEF SendStop, WaitDeath, WaitNobody, SendKill, LastDeath, LastNobody, InWait, At
  <1> QED
    BY <1>1, <1>2, <1>3, <1>4, <1>5 DEF Thread, At, Flow, Labels

(* Commands and the world leave the threads where they are.                *)
LEMMA OthersFlow ==
    ASSUME Commands \/ World \/ UNCHANGED vars PROVE UNCHANGED threadVars
  BY DEF Commands, CmdStart, CmdStop, CmdQuit, PushQuit, CmdQuitOne, CtrlC, World, KidEnds, KidIsKilled,
         Elapse, Tick, allButKid, threadVars, vars

LEMMA NextFlow ==
    ASSUME TypeOK, [Next]_vars, NEW t \in Schedulers
    PROVE  pc'[t] = pc[t] \/ <<pc[t], pc'[t]>> \in Flow
  <1>1. ASSUME NEW s \in Schedulers, Thread(s) PROVE pc'[t] = pc[t] \/ <<pc[t], pc'[t]>> \in Flow
    <2>1. UNCHANGED pc \/ \E l \in Labels : <<pc[s], l>> \in Flow /\ Goto(s, l)
      BY <1>1, ThreadFlow
    <2> QED
      BY <2>1 DEF Goto, TypeOK, ThreadTypeOK
  <1> QED
    BY <1>1, OthersFlow DEF Next, Terminated, threadVars

(* A thread enters its loop once, and returns once: what holds until it    *)
(* does held before.                                                       *)
LEMMA LoopLeftOnce ==
    ASSUME TypeOK, [Next]_vars, NEW t \in Schedulers, InLoop(t)' PROVE InLoop(t)
  BY NextFlow DEF Flow, InLoop

LEMMA DeadForEver == ASSUME TypeOK, [Next]_vars, NeverNull' PROVE NeverNull
  <1> SUFFICES ASSUME NEW t \in Schedulers, pc[t] = "dead" PROVE FALSE
    BY DEF NeverNull
  <1>1. pc'[t] = "dead"
    BY NextFlow DEF Flow
  <1> QED
    BY <1>1 DEF NeverNull

LEMMA NotLost ==
    ASSUME TypeOK, NeverNull', NEW s \in Schedulers, NEW k, LostStep(s, k) PROVE FALSE
  BY DEF LostStep, Goto, NeverNull, TypeOK, ThreadTypeOK

-----------------------------------------------------------------------------
(* The pids that are remembered, with and without limits on the run time.  *)

(* What makes PidIsChild inductive: no map names a process that is not a   *)
(* child of the program it says.                                           *)
MapIsChild ==
    \A s \in Schedulers, k \in Pids :
        running[s][k] # NoProg => Unreaped(k) /\ kid[k].prog = running[s][k]

ChildInv == NeverNull => MapIsChild /\ PidIsChild

LEMMA ChildInvStep == ASSUME TypeOK, ChildInv, [Next]_vars PROVE ChildInv'
  <1> SUFFICES ASSUME NeverNull' PROVE MapIsChild' /\ PidIsChild'
    BY DEF ChildInv
  <1>1. MapIsChild /\ PidIsChild
    BY DeadForEver DEF ChildInv
  <1> USE <1>1 DEF TypeOK, KernelTypeOK, ProgramTypeOK, SharedTypeOK, MapIsChild, PidIsChild, Unreaped
  <1>2. CASE CalmStep \/ \E p \in Programs : LimitStep(p)
    <2>1. UNCHANGED running /\ \A q \in Programs : pid'[q] \in {pid[q], NoPid}
      BY <1>2 DEF CalmStep, LimitStep, ClearPid
    <2>2. \A k \in Pids : kid'[k].prog = kid[k].prog /\ (kid'[k].st = "free" <=> kid[k].st = "free")
      BY <1>2 DEF CalmStep, LimitStep, SameChildren
    <2>3. MapIsChild'
      <3> SUFFICES ASSUME NEW s \in Schedulers, NEW k \in Pids, running[s][k] # NoProg
                   PROVE  kid'[k].st # "free" /\ kid'[k].prog = running[s][k]
        BY <2>1
      <3>1. kid[k].st # "free" /\ kid[k].prog = running[s][k]
        OBVIOUS
      <3> QED
        BY <2>2, <3>1
    <2>4. PidIsChild'
      <3> SUFFICES ASSUME NEW q \in Programs, pid'[q] # NoPid
                   PROVE  kid'[pid'[q]].st # "free" /\ kid'[pid'[q]].prog = q
        OBVIOUS
      <3>1. pid'[q] = pid[q] /\ pid[q] \in Pids
        BY <2>1
      <3>2. kid[pid[q]].st # "free" /\ kid[pid[q]].prog = q
        BY <2>1, <3>1
      <3> QED
        BY <2>2, <3>1, <3>2
    <2> QED
      BY <2>3, <2>4
  <1>3. ASSUME NEW s \in Schedulers, NEW k \in Pids, NEW p \in Range(Progs[s]), StartStep(s, p, k)
        PROVE  MapIsChild' /\ PidIsChild'
    <2>1. p \in Programs /\ kid[k].st = "free"
      BY <1>3, ProgsType DEF StartStep, FreePids
    <2>2. \A t \in Schedulers : running[t][k] = NoProg
      BY <2>1
    <2>3. \A q \in Programs : pid[q] # k
      BY <2>1, KernelAssumption
    <2>4. /\ kid'[k].st = "alive" /\ kid'[k].prog = p
          /\ \A j \in Pids \ {k} : kid'[j] = kid[j]
      BY <1>3 DEF StartStep, Forked
    <2>5. MapIsChild'
      BY <1>3, <2>1, <2>2, <2>4 DEF StartStep, Register
    <2>6. PidIsChild'
      BY <1>3, <2>1, <2>3, <2>4 DEF StartStep
    <2> QED
      BY <2>5, <2>6
  <1>4. ASSUME NEW s \in Schedulers, NEW k \in Pids, DeathStep(s, k) PROVE MapIsChild' /\ PidIsChild'
    <2> DEFINE p == running[s][k]
    <2>1. p \in Programs /\ p \in Range(Progs[s]) /\ kid[k].prog = p
      BY <1>4, ProgsType DEF DeathStep
    <2>2. \A t \in Schedulers : running[t][k] # NoProg => t = s
      BY <2>1, SchedulerAssumption
    <2>3. \A q \in Programs : pid[q] = k => q = p
      BY <2>1, KernelAssumption
    <2>4. \A j \in Pids \ {k} : kid'[j] = kid[j]
      BY <1>4 DEF DeathStep, Reaped
    <2>5. MapIsChild'
      BY <1>4, <2>2, <2>4 DEF DeathStep, Unregister
    <2>6. PidIsChild'
      BY <1>4, <2>1, <2>3, <2>4 DEF DeathStep, ClearPid
    <2> QED
      BY <2>5, <2>6
  <1> QED
    BY <1>2, <1>3, <1>4, NotLost, NextKind DEF StepKind, ThreadStepKind

LEMMA ChildInvariant == Spec => []ChildInv
  <1>1. Init => ChildInv
    BY DEF Init, Prepared, ProgramInit, ChildInv, MapIsChild, PidIsChild
  <1>2. TypeOK /\ ChildInv /\ [Next]_vars => ChildInv'
    BY ChildInvStep
  <1> QED
    BY <1>1, <1>2, TypeCorrect, PTL DEF Spec

(* The pid a program remembers is that of a child of its own, for every    *)
(* configuration, until a thread has reaped a child it does not know.      *)
THEOREM PidsAreChildren == Spec => [](NeverNull => PidIsChild)
  <1>1. ChildInv => (NeverNull => PidIsChild)
    BY DEF ChildInv
  <1> QED
    BY <1>1, ChildInvariant, PTL

(* The thread of s signals p, and does nothing else to the children.       *)
Signals(s, p) ==
    /\ Signalling(s, p)
    /\ ix' = [ix EXCEPT ![s] = @ + 1]
    /\ kid' = Signalled(pid[p], SignalFor(s, p))

SamePending ==
    \A k \in Pids : (Alive(k) /\ kid'[k].st = "alive") => kid'[k].pend = kid[k].pend

(* Which steps send signals: four actions of the threads.                  *)
LEMMA WhoSignals ==
    ASSUME TypeOK, [Next]_vars
    PROVE  SamePending \/ \E s \in Schedulers, p \in Programs : Signals(s, p)
  <1> USE DEF TypeOK, KernelTypeOK
  <1>1. UNCHANGED kid => SamePending
    BY DEF SamePending
  <1>2. ASSUME NEW k \in Pids, NEW p, NEW c, kid[k].st = "free", kid' = Forked(k, p, c)
        PROVE  SamePending
    BY <1>2 DEF SamePending, Forked, Alive
  <1>3. \A k \in Pids : kid' = Reaped(k) => SamePending
    BY DEF SamePending, Reaped, Free
  <1>4. ASSUME NEW k \in Pids, NEW st, Ends(k, st) PROVE SamePending
    BY <1>4 DEF SamePending, Ends
  <1>5. ASSUME NEW s \in Schedulers, NEW p, NEW sq, Run(s, p, sq) PROVE SamePending
    BY <1>1, <1>2, <1>5 DEF Run, AlreadyRunning, Launch, ForkFails, CannotRun, NoLogFile, FreePids
  <1>6. ASSUME NEW s \in Schedulers, DoEnd(s)
        PROVE  \E p \in Programs : Signals(s, p)
    <2>1. UnitAt(s).prog \in Programs
      BY <1>6, UnitType, ProgsType DEF DoEnd, UnitsOf
    <2>2. pc[s] = "pass"
      BY <1>6 DEF DoEnd, InPass, At
    <2> QED
      BY <1>6, <2>1, <2>2 DEF DoEnd, Signals, Signalling, SignalFor, Advance
  <1>7. ASSUME NEW s \in Schedulers, SendStop(s) \/ SendKill(s)
        PROVE  \E p \in Programs : Signals(s, p)
    <2>1. Progs[s][ix[s]] \in Programs
      BY <1>7, ProgsType DEF SendStop, SendKill, ThreadTypeOK
    <2> QED
      BY <1>7, <2>1 DEF SendStop, SendKill, Signals, Signalling, SignalFor, Advance, At
  <1>8. ASSUME NEW s \in Schedulers, CheckLimit(s)
        PROVE  SamePending \/ \E p \in Programs : Signals(s, p)
    <2>1. Progs[s][ix[s]] \in Programs
      BY <1>8, ProgsType DEF CheckLimit, ThreadTypeOK
    <2> QED
      BY <1>1, <1>8, <2>1 DEF CheckLimit, Signals, Signalling, SignalFor, Advance, At
  <1>9. ASSUME NEW s \in Schedulers, Thread(s)
        PROVE  SamePending \/ \E p \in Programs : Signals(s, p)
    <2>1. CASE DoRun(s) \/ ActStartNow(s)
      BY <1>5, <2>1 DEF DoRun, ActStartNow
    <2>2. CASE ReapUnknown(s) \/ (\E k \in Pids : ReapChild(s, k))
      BY <1>3, <2>2 DEF ReapUnknown, ReapChild, Reapable
    <2>3. CASE WaitDeath(s) \/ WaitUnknown(s) \/ LastDeath(s) \/ LastUnknown(s)
      BY <1>3, <2>3 DEF WaitDeath, WaitUnknown, LastDeath, LastUnknown, CountDeath, UnknownDeath, Reapable
    <2>4. CASE \/ StartPass(s) \/ LeaveLoop(s) \/ DoExit(s) \/ DoNoStart(s) \/ NotYet(s) \/ PassDone(s)
               \/ Erase(s) \/ EraseDone(s) \/ LimitsDone(s) \/ ReapNone(s) \/ ReapDone(s)
               \/ ActQueue(s) \/ ActSkip(s) \/ ActDone(s) \/ StopsSent(s) \/ NextRound(s)
               \/ StopWaiting(s) \/ WaitNobody(s) \/ RoundDone(s) \/ KillsSent(s)
               \/ LastNobody(s) \/ GiveUp(s)
      <3>1. UNCHANGED kid
        BY <2>4 DEF StartPass, LeaveLoop, DoExit, DoNoStart, NotYet, PassDone, Erase, EraseDone,
             LimitsDone, ReapNone, ReapDone, ActQueue, ActSkip, ActDone, StopsSent, NextRound,
             StopWaiting, WaitNobody, RoundDone, KillsSent, LastNobody, GiveUp
      <3> QED
        BY <1>1, <3>1
    <2> QED
      BY <1>6, <1>7, <1>8, <1>9, <2>1, <2>2, <2>3, <2>4 DEF Thread
  <1>10. CASE Commands
    BY <1>1, <1>10 DEF Commands, CmdStart, CmdStop, CmdQuit, PushQuit, CmdQuitOne, CtrlC
  <1>11. CASE World
    BY <1>1, <1>4, <1>11 DEF World, KidEnds, KidIsKilled, KilledByPending, Elapse, Tick
  <1>12. CASE UNCHANGED vars
    BY <1>1, <1>12 DEF vars
  <1> QED
    BY <1>9, <1>10, <1>11, <1>12 DEF Next, Terminated

(* A signal goes to a child of the program it is meant for.                *)
OwnSignals ==
    \A k \in Pids : (Alive(k) /\ kid'[k].st = "alive" /\ kid'[k].pend # kid[k].pend) =>
        \E s \in Schedulers :
           /\ Signalling(s, kid[k].prog) /\ ix'[s] = ix[s] + 1
           /\ kid'[k].pend = kid[k].pend \cup {SignalFor(s, kid[k].prog)}

LEMMA OwnSignalsStep == ASSUME TypeOK, PidIsChild, [Next]_vars PROVE OwnSignals
  <1> SUFFICES ASSUME NEW j \in Pids, Alive(j), kid'[j].pend # kid[j].pend,
                      NEW s \in Schedulers, NEW p \in Programs, Signals(s, p)
               PROVE  /\ Signalling(s, kid[j].prog) /\ ix'[s] = ix[s] + 1
                      /\ kid'[j].pend = kid[j].pend \cup {SignalFor(s, kid[j].prog)}
    BY WhoSignals DEF OwnSignals, SamePending
  <1> USE DEF TypeOK, KernelTypeOK, ThreadTypeOK
  <1>1. pid[p] = j
    BY DEF Signals, Signalled
  <1>2. kid[j].prog = p
    BY <1>1, KernelAssumption DEF PidIsChild
  <1>3. kid'[j].pend = kid[j].pend \cup {SignalFor(s, p)}
    BY <1>1 DEF Signals, Signalled
  <1> QED
    BY <1>2, <1>3 DEF Signals

(* With one scheduler, with and without limits, no signal is sent to       *)
(* another program's child, however deaths, restarts and limits cross and  *)
(* pids are used again.                                                    *)
THEOREM SignalsReachOwnChild ==
    ASSUME NEW s0, Schedulers = {s0} PROVE Spec => SignalsOwnChild
  <1>1. TypeOK /\ NeverNull /\ ChildInv /\ [Next]_vars => [OwnSignals]_vars
    BY OwnSignalsStep DEF ChildInv
  <1>2. Spec => [][OwnSignals]_vars
    BY <1>1, TypeCorrect, ChildInvariant, OneSchedulerNeverNull, PTL DEF Spec
  <1> QED
    BY <1>2 DEF SignalsOwnChild, OwnSignals

-----------------------------------------------------------------------------
(* stop_mode is never set: no command and no work unit of this code does.  *)
NoHandStop == \A p \in Programs : stop_mode[p] = 0

LEMMA NoHandStopStep == ASSUME TypeOK, NoHandStop, [Next]_vars PROVE NoHandStop'
  <1> USE DEF NoHandStop
  <1>1. ASSUME NEW s \in Schedulers, NEW k \in Pids, ReapChild(s, k) PROVE NoHandStop'
    BY <1>1 DEF ReapChild, WhatNext, TypeOK, ProgramTypeOK
  <1>2. ASSUME NEW s \in Schedulers, DoEnd(s) PROVE NoHandStop'
    BY <1>2 DEF DoEnd, TypeOK, ProgramTypeOK
  <1>3. ASSUME NEW s \in Schedulers, DoRun(s) \/ ActStartNow(s) PROVE UNCHANGED stop_mode
    BY <1>3 DEF DoRun, ActStartNow, Run, AlreadyRunning, Launch, ForkFails, CannotRun, NoLogFile,
                programVars
  <1>4. ASSUME NEW s \in Schedulers,
               \/ StartPass(s) \/ LeaveLoop(s) \/ DoExit(s) \/ DoNoStart(s) \/ NotYet(s) \/ PassDone(s)
               \/ Erase(s) \/ EraseDone(s) \/ CheckLimit(s) \/ LimitsDone(s) \/ ReapUnknown(s)
               \/ ReapNone(s) \/ ReapDone(s) \/ ActQueue(s) \/ ActSkip(s) \/ ActDone(s)
        PROVE  UNCHANGED stop_mode
    BY <1>4 DEF StartPass, LeaveLoop, DoExit, DoNoStart, NotYet, PassDone, Erase, EraseDone, CheckLimit,
                LimitsDone, ReapUnknown, ReapNone, ReapDone, ActQueue, ActSkip, ActDone, programVars
  <1>5. ASSUME NEW s \in Schedulers,
               \/ SendStop(s) \/ StopsSent(s) \/ NextRound(s) \/ StopWaiting(s) \/ WaitDeath(s)
               \/ WaitUnknown(s) \/ WaitNobody(s) \/ RoundDone(s) \/ SendKill(s) \/ KillsSent(s)
               \/ LastDeath(s) \/ LastUnknown(s) \/ LastNobody(s) \/ GiveUp(s)
        PROVE  UNCHANGED stop_mode
    BY <1>5 DEF SendStop, StopsSent, NextRound, StopWaiting, WaitDeath, WaitUnknown, WaitNobody,
                RoundDone, SendKill, KillsSent, LastDeath, LastUnknown, LastNobody, GiveUp, programVars
  <1>6. ASSUME Commands \/ World \/ UNCHANGED vars PROVE UNCHANGED stop_mode
    BY <1>6 DEF Commands, CmdStart, CmdStop, CmdQuit, PushQuit, CmdQuitOne, CtrlC, World, KidEnds, KidIsKilled,
                Elapse, Tick, allButKid, programVars, vars
  <1> QED
    BY <1>1, <1>2, <1>3, <1>4, <1>5, <1>6 DEF Next, Thread, Terminated

LEMMA NoHandStopInvariant == Spec => []NoHandStop
  <1>1. Init => NoHandStop
    BY DEF Init, Prepared, ProgramInit, NoHandStop
  <1>2. TypeOK /\ NoHandStop /\ [Next]_vars => NoHandStop'
    BY NoHandStopStep
  <1> QED
    BY <1>1, <1>2, TypeCorrect, PTL DEF Spec

-----------------------------------------------------------------------------
(* The event list.                                                         *)

(* A program of a scheduler in its loop has a pid exactly when its latest  *)
(* event is a start.                                                       *)
LogAgrees ==
    \A s \in Schedulers : InLoop(s) =>
        \A p \in Range(Progs[s]) : elog[p].ev = "START" <=> pid[p] # NoPid

LogInv == NeverNull => LogAgrees

LEMMA LogInvStep ==
    ASSUME NoMaxRun, TypeOK, NoHandStop, LogInv, [Next]_vars PROVE LogInv'
  <1> SUFFICES ASSUME NeverNull', NEW s \in Schedulers, InLoop(s)', NEW p \in Range(Progs[s])
               PROVE  elog'[p].ev = "START" <=> pid'[p] # NoPid
    BY DEF LogInv, LogAgrees
  <1> USE DEF TypeOK, ProgramTypeOK, OtherTypeOK
  <1>1. InLoop(s) /\ (elog[p].ev = "START" <=> pid[p] # NoPid)
    BY DeadForEver, LoopLeftOnce DEF LogInv, LogAgrees
  <1>2. p \in Programs
    BY ProgsType
  <1>3. CASE CalmStep
    BY <1>1, <1>3 DEF CalmStep
  <1>4. ASSUME NEW t \in Schedulers, NEW k \in Pids, NEW q \in Range(Progs[t]), StartStep(t, q, k)
        PROVE  elog'[p].ev = "START" <=> pid'[p] # NoPid
    BY <1>1, <1>2, <1>4, KernelAssumption DEF StartStep, Event
  <1>5. ASSUME NEW t \in Schedulers, NEW k \in Pids, DeathStep(t, k)
        PROVE  elog'[p].ev = "START" <=> pid'[p] # NoPid
    <2> DEFINE q == running[t][k]
    <2>1. q \in Range(Progs[t]) /\ q \in Programs
      BY <1>5, ProgsType DEF DeathStep, SharedTypeOK
    <2>2. CASE p # q
      BY <1>1, <1>2, <1>5, <2>2 DEF DeathStep, ClearPid
    <2>3. CASE p = q
      <3>1. t = s
        BY <2>1, <2>3, SchedulerAssumption
      <3>2. elog'[p] = DeathEvent(p, kid[k].status) /\ pid'[p] = NoPid
        BY <1>1, <1>2, <1>5, <2>3, <3>1 DEF DeathStep, ClearPid, InLoop
      <3>3. DeathEvent(p, kid[k].status).ev \in {"END", "CRASH"}
        BY <1>2 DEF DeathEvent, Event, NoHandStop
      <3> QED
        BY <3>2, <3>3
    <2> QED
      BY <2>2, <2>3
  <1> QED
    BY <1>3, <1>4, <1>5, NotLost, NextKind DEF StepKind, ThreadStepKind, LimitStep, NoMaxRun

LEMMA LogInvariant == ASSUME NoMaxRun PROVE Spec => []LogInv
  <1>1. Init => LogInv
    BY ProgsType DEF Init, Prepared, ProgramInit, NoEvent, LogInv, LogAgrees
  <1>2. TypeOK /\ NoHandStop /\ LogInv /\ [Next]_vars => LogInv'
    BY LogInvStep
  <1> QED
    BY <1>1, <1>2, TypeCorrect, NoHandStopInvariant, PTL DEF Spec

(* A program has a child exactly when it has a pid.                        *)
LEMMA ChildIffPid ==
    ASSUME TypeOK, Tracked, PidIsChild, NEW p \in Programs
    PROVE  ChildrenOf(p) # {} <=> pid[p] # NoPid
  <1>1. ASSUME NEW k \in ChildrenOf(p) PROVE pid[p] # NoPid
    BY <1>1, KernelAssumption DEF ChildrenOf, Tracked
  <1>2. ASSUME pid[p] # NoPid PROVE pid[p] \in ChildrenOf(p)
    BY <1>2 DEF TypeOK, ProgramTypeOK, ChildrenOf, PidIsChild
  <1> QED
    BY <1>1, <1>2

(* Without a maxruntime the event list of a scheduler that is in its loop  *)
(* tells the truth, until a thread has reaped a child it does not know.    *)
THEOREM LogsTellTruth == ASSUME NoMaxRun PROVE Spec => [](NeverNull => LogTruth)
  <1>1. TypeOK /\ ChildInv /\ Tracked /\ LogInv => (NeverNull => LogTruth)
    BY ChildIffPid, ProgsType DEF ChildInv, LogInv, LogAgrees, LogTruth
  <1> QED
    BY <1>1, TypeCorrect, ChildInvariant, ChildrenTracked, LogInvariant, PTL

-----------------------------------------------------------------------------
(* The sequences.                                                          *)

(* A thread that has left its loop was asked to, for good.                 *)
ModeInv == \A s \in Schedulers : InLoop(s) \/ pc[s] = "dead" \/ mode[s] = "OFF"

ModeStays == \A s \in Schedulers : mode'[s] \in {mode[s], "OFF"}

LEMMA NextMode == ASSUME TypeOK, [Next]_vars PROVE ModeStays
  <1> USE DEF ModeStays, TypeOK, SharedTypeOK
  <1>1. ASSUME NEW s \in Schedulers, NEW k \in Pids, ReapChild(s, k) PROVE UNCHANGED mode
    BY <1>1 DEF ReapChild
  <1>2. ASSUME NEW s \in Schedulers,
               \/ DoRun(s) \/ ActStartNow(s)
               \/ StartPass(s) \/ LeaveLoop(s) \/ DoEnd(s) \/ DoNoStart(s) \/ NotYet(s) \/ PassDone(s)
               \/ Erase(s) \/ EraseDone(s) \/ CheckLimit(s) \/ LimitsDone(s) \/ ReapUnknown(s)
               \/ ReapNone(s) \/ ReapDone(s) \/ ActQueue(s) \/ ActSkip(s) \/ ActDone(s)
        PROVE  UNCHANGED mode
    BY <1>2 DEF DoRun, ActStartNow, StartPass, LeaveLoop, DoEnd, DoNoStart, NotYet, PassDone, Erase,
                EraseDone, CheckLimit, LimitsDone, ReapUnknown, ReapNone, ReapDone, ActQueue, ActSkip,
                ActDone, sharedVars
  <1>3. ASSUME NEW s \in Schedulers,
               \/ SendStop(s) \/ StopsSent(s) \/ NextRound(s) \/ StopWaiting(s) \/ WaitDeath(s)
               \/ WaitUnknown(s) \/ WaitNobody(s) \/ RoundDone(s) \/ SendKill(s) \/ KillsSent(s)
               \/ LastDeath(s) \/ LastUnknown(s) \/ LastNobody(s) \/ GiveUp(s)
        PROVE  UNCHANGED mode
    BY <1>3 DEF SendStop, StopsSent, NextRound, StopWaiting, WaitDeath, WaitUnknown, WaitNobody,
                RoundDone, SendKill, KillsSent, LastDeath, LastUnknown, LastNobody, GiveUp, BecomeReady,
                sharedVars
  <1>4. ASSUME NEW s \in Schedulers, DoExit(s) PROVE ModeStays
    BY <1>4 DEF DoExit
  <1>5. CASE Commands
    BY <1>5 DEF Commands, CmdStart, CmdStop, CmdQuit, PushQuit, CmdQuitOne, CtrlC, sharedVars
  <1>6. CASE World \/ UNCHANGED vars
    BY <1>6 DEF World, KidEnds, KidIsKilled, Elapse, Tick, allButKid, sharedVars, vars
  <1> QED
    BY <1>1, <1>2, <1>3, <1>4, <1>5, <1>6 DEF Next, Thread, Terminated

LEMMA ThreadModeInv ==
    ASSUME TypeOK, ModeInv, ModeStays, NEW s \in Schedulers, Thread(s) PROVE ModeInv'
  <1> SUFFICES ASSUME NEW t \in Schedulers PROVE InLoop(t)' \/ pc'[t] = "dead" \/ mode'[t] = "OFF"
    BY DEF ModeInv
  <1> USE DEF ModeInv, ModeStays, TypeOK, ThreadTypeOK
  <1>1. UNCHANGED pc \/ \E l \in Labels : <<pc[s], l>> \in Flow /\ Goto(s, l)
    BY ThreadFlow
  <1>2. CASE pc'[t] = pc[t]
    BY <1>2 DEF InLoop
  <1>3. CASE pc'[t] # pc[t] /\ ~InLoop(t)
    BY <1>1, <1>3 DEF Goto, Flow, InLoop
  <1>4. CASE pc'[t] # pc[t] /\ InLoop(t) /\ pc'[t] # "sig"
    BY <1>1, <1>4 DEF Goto, Flow, InLoop
  <1>5. CASE pc'[t] # pc[t] /\ InLoop(t) /\ pc'[t] = "sig"
    <2>1. t = s
      BY <1>1, <1>5 DEF Goto
    <2>2. LeaveLoop(s)
      <3>1. pc[s] = "top"
        BY <1>1, <1>5, <2>1 DEF Goto, Flow, InLoop
      <3>2. ~StartPass(s)
        BY <1>5, <2>1 DEF StartPass, Goto
      <3> QED
        BY <3>1, <3>2, ThreadAt
    <2> QED
      BY <2>1, <2>2 DEF LeaveLoop
  <1> QED
    BY <1>2, <1>3, <1>4, <1>5

LEMMA ModeInvariant == Spec => []ModeInv
  <1>1. Init => ModeInv
    BY DEF Init, Prepared, ModeInv, InLoop
  <1>2. TypeOK /\ ModeInv /\ [Next]_vars => ModeInv'
    <2>1. ASSUME TypeOK, ModeInv, ModeStays, UNCHANGED threadVars PROVE ModeInv'
      BY <2>1 DEF threadVars, ModeInv, ModeStays, InLoop
    <2> QED
      BY <2>1, NextMode, OthersFlow, ThreadModeInv DEF Next, Terminated
  <1> QED
    BY <1>1, <1>2, TypeCorrect, PTL DEF Spec

(* A schedule has a work unit that will run p.                             *)
HasRun(sq, p) == \E i \in DOMAIN sq : sq[i].type = "RUN" /\ sq[i].prog = p

LEMMA AppendHasRun ==
    ASSUME NEW S, NEW sq \in Seq(S), NEW e, NEW p
    PROVE  /\ HasRun(sq, p) => HasRun(Append(sq, e), p)
           /\ e.type = "RUN" /\ e.prog = p => HasRun(Append(sq, e), p)
  <1>1. /\ DOMAIN Append(sq, e) = 1..Len(sq) + 1
        /\ \A i \in DOMAIN sq : i \in DOMAIN Append(sq, e) /\ Append(sq, e)[i] = sq[i]
        /\ Append(sq, e)[Len(sq) + 1] = e
    OBVIOUS
  <1> QED
    BY <1>1 DEF HasRun

LEMMA ExceptHasRun ==
    ASSUME NEW S, NEW sq \in Seq(S), NEW i \in DOMAIN sq, NEW e, NEW p, HasRun(sq, p),
           sq[i].type = "RUN" /\ sq[i].prog = p => e.type = "RUN" /\ e.prog = p
    PROVE  HasRun([sq EXCEPT ![i] = e], p)
  BY DEF HasRun

(* What erasing an element leaves, element by element.                     *)
LEMMA RemoveAtFacts ==
    ASSUME NEW S, NEW sq \in Seq(S), NEW i \in DOMAIN sq
    PROVE  /\ Len(RemoveAt(sq, i)) = Len(sq) - 1
           /\ \A n \in 1..i - 1 : RemoveAt(sq, i)[n] = sq[n]
           /\ \A n \in i..Len(sq) - 1 : RemoveAt(sq, i)[n] = sq[n + 1]
           /\ DOMAIN RemoveAt(sq, i) = 1..Len(RemoveAt(sq, i))
  <1> DEFINE a == SubSeq(sq, 1, i - 1)
             b == SubSeq(sq, i + 1, Len(sq))
  <1>1. a \in Seq(S) /\ Len(a) = i - 1 /\ \A n \in 1..i - 1 : a[n] = sq[n]
    BY SubSeqProperties
  <1>2. b \in Seq(S) /\ Len(b) = Len(sq) - i /\ \A n \in 1..Len(sq) - i : b[n] = sq[i + n]
    BY SubSeqProperties
  <1>0. RemoveAt(sq, i) = a \o b
    BY DEF RemoveAt
  <1> HIDE DEF a, b
  <1>3. /\ a \o b \in Seq(S) /\ Len(a \o b) = Len(sq) - 1
        /\ \A n \in 1..Len(sq) - 1 : (a \o b)[n] = IF n <= i - 1 THEN a[n] ELSE b[n - (i - 1)]
    <2>1. /\ a \o b \in Seq(S)
          /\ Len(a \o b) = Len(a) + Len(b)
          /\ \A n \in 1..Len(a) + Len(b) : (a \o b)[n] = IF n <= Len(a) THEN a[n] ELSE b[n - Len(a)]
      BY <1>1, <1>2, ConcatProperties
    <2>2. Len(a) + Len(b) = Len(sq) - 1 /\ Len(a) = i - 1
      BY <1>1, <1>2
    <2> QED
      BY <2>1, <2>2
  <1>4. DOMAIN (a \o b) = 1..Len(sq) - 1
    BY <1>3
  <1>5. \A n \in 1..i - 1 : (a \o b)[n] = sq[n]
    BY <1>1, <1>3
  <1>6. ASSUME NEW n \in i..Len(sq) - 1 PROVE (a \o b)[n] = sq[n + 1]
    <2>1. PICK m \in 1..Len(sq) - i : m = n - (i - 1)
      OBVIOUS
    <2>a. n \in 1..Len(sq) - 1 /\ ~ (n <= i - 1) /\ n - (i - 1) = m
      BY <2>1
    <2>2. (a \o b)[n] = b[m]
      BY <1>3, <2>a
    <2>3. b[m] = sq[i + m] /\ i + m = n + 1
      BY <1>2, <2>1
    <2> QED
      BY <2>2, <2>3
  <1> QED
    BY <1>0, <1>3, <1>4, <1>5, <1>6

LEMMA RemoveHasRun ==
    ASSUME NEW S, NEW sq \in Seq(S), NEW i \in DOMAIN sq, NEW p, HasRun(sq, p), sq[i].type # "RUN"
    PROVE  HasRun(RemoveAt(sq, i), p)
  <1>1. PICK j \in 1..Len(sq) : sq[j].type = "RUN" /\ sq[j].prog = p
    BY DEF HasRun
  <1>2. /\ Len(RemoveAt(sq, i)) = Len(sq) - 1
        /\ \A n \in 1..i - 1 : RemoveAt(sq, i)[n] = sq[n]
        /\ \A n \in i..Len(sq) - 1 : RemoveAt(sq, i)[n] = sq[n + 1]
        /\ DOMAIN RemoveAt(sq, i) = 1..Len(RemoveAt(sq, i))
    BY RemoveAtFacts
  <1>3. CASE j < i
    BY <1>1, <1>2, <1>3 DEF HasRun
  <1>4. CASE j > i
    <2>1. j - 1 \in i..Len(sq) - 1 /\ RemoveAt(sq, i)[j - 1] = sq[j]
      BY <1>2, <1>4
    <2> QED
      BY <1>1, <1>2, <2>1 DEF HasRun
  <1> QED
    BY <1>1, <1>3, <1>4

(* run() never meets a missing binary or a log file it cannot open.        *)
AlwaysRuns == \A p \in Programs : RunOutcomes[p] \subseteq {"ok"}

(* A work unit that will run p is there until p runs, or fork fails.       *)
RunKept ==
    \A s \in Schedulers : \A p \in Range(Progs[s]) :
        HasRun(schedule[s], p) => HasRun(schedule'[s], p) \/ pid'[p] # NoPid \/ ~up'

LEMMA RunKeptBy ==
    ASSUME TypeOK, NEW s \in Schedulers, NEW sq, SetSchedule(s, sq),
           \A p \in Range(Progs[s]) : HasRun(schedule[s], p) => HasRun(sq, p) \/ pid'[p] # NoPid \/ ~up'
    PROVE  RunKept
  BY DEF TypeOK, SharedTypeOK, SetSchedule, RunKept

LEMMA RunKeptAppend ==
    ASSUME TypeOK, NEW s \in Schedulers, NEW wu, SetSchedule(s, Append(schedule[s], wu))
    PROVE  RunKept
  <1>1. schedule[s] \in Seq(WorkUnit)
    BY DEF TypeOK, SharedTypeOK
  <1>2. \A p : HasRun(schedule[s], p) => HasRun(Append(schedule[s], wu), p)
    BY <1>1, AppendHasRun
  <1> QED
    BY <1>2, RunKeptBy

LEMMA RunKeptRun ==
    ASSUME TypeOK, AlwaysRuns, NEW s \in Schedulers, NEW q \in Range(Progs[s]), NEW sq, Run(s, q, sq),
           \A p \in Range(Progs[s]) \ {q} : HasRun(schedule[s], p) => HasRun(sq, p)
    PROVE  RunKept
  <1>1. q \in Programs
    BY ProgsType
  <1>2. CASE AlreadyRunning(s, q, sq)
    BY <1>2, RunKeptBy DEF AlreadyRunning, NotRunning, programVars
  <1>3. CASE Launch(s, q, sq)
    <2>1. pid'[q] # NoPid
      BY <1>1, <1>3, KernelAssumption DEF Launch, FreePids, TypeOK, ProgramTypeOK
    <2> QED
      BY <1>3, <2>1, RunKeptBy DEF Launch
  <1>4. CASE ForkFails(s, q, sq)
    BY <1>4, RunKeptBy DEF ForkFails
  <1> QED
    BY <1>1, <1>2, <1>3, <1>4 DEF Run, CannotRun, NoLogFile, AlwaysRuns

LEMMA RunKeptPass ==
    ASSUME TypeOK, AlwaysRuns, NEW s \in Schedulers, PassStep(s) \/ EraseStep(s)
    PROVE  RunKept
  <1>1. CASE NotYet(s) \/ PassDone(s) \/ EraseDone(s)
    BY <1>1 DEF NotYet, PassDone, EraseDone, sharedVars, RunKept
  <1> SUFFICES ASSUME DoExit(s) \/ DoRun(s) \/ DoEnd(s) \/ DoNoStart(s) \/ Erase(s)
               PROVE  RunKept
    BY <1>1 DEF PassStep, EraseStep
  <1>2. /\ UnitAt(s) \in UnitsOf(s)
        /\ ix[s] \in DOMAIN schedule[s]
        /\ schedule[s] \in Seq(WorkUnit)
    BY UnitType DEF DoExit, DoRun, DoEnd, DoNoStart, Erase, TypeOK, SharedTypeOK
  <1>3. ASSUME NEW p, UnitAt(s).type # "RUN" \/ UnitAt(s).prog # p, HasRun(schedule[s], p)
        PROVE  HasRun(MarkUsed(s), p)
    BY <1>2, <1>3, ExceptHasRun DEF UnitAt, MarkUsed
  <1>4. CASE DoExit(s) \/ DoEnd(s) \/ DoNoStart(s)
    BY <1>3, <1>4, RunKeptBy DEF DoExit, DoEnd, DoNoStart
  <1>5. CASE DoRun(s)
    <2>1. UnitAt(s).prog \in Range(Progs[s])
      BY <1>2, <1>5 DEF DoRun, UnitsOf
    <2> QED
      BY <1>3, <1>5, <2>1, RunKeptRun DEF DoRun
  <1>6. CASE Erase(s) /\ UnitAt(s).type = "NOTINIT"
    <2>1. \A p : HasRun(schedule[s], p) => HasRun(RemoveAt(schedule[s], ix[s]), p)
      BY <1>2, <1>6, RemoveHasRun DEF UnitAt
    <2> QED
      BY <1>6, <2>1, RunKeptBy DEF Erase
  <1>7. CASE Erase(s) /\ UnitAt(s).type # "NOTINIT"
    BY <1>7 DEF Erase, RunKept
  <1> QED
    BY <1>4, <1>5, <1>6, <1>7

LEMMA RunKeptStep == ASSUME TypeOK, AlwaysRuns, [Next]_vars PROVE RunKept
  <1>1. ASSUME UNCHANGED schedule PROVE RunKept
    BY <1>1 DEF RunKept
  <1>2. ASSUME NEW s \in Schedulers, ReapStep(s) PROVE RunKept
    <2>1. ASSUME NEW k \in Pids, ReapChild(s, k)
          PROVE  UNCHANGED schedule \/ \E wu : SetSchedule(s, Append(schedule[s], wu))
      BY <2>1 DEF ReapChild, WhatNext
    <2> QED
      BY <1>1, <1>2, <2>1, RunKeptAppend DEF ReapStep, ReapUnknown, ReapNone, ReapDone, sharedVars
  <1>3. ASSUME NEW s \in Schedulers, ActStep(s) PROVE RunKept
    <2>1. CASE ActStartNow(s)
      <3>1. job[s].self \in Range(Progs[s])
        BY <2>1 DEF ActStartNow, InActions, At, TypeOK, ThreadTypeOK
      <3> QED
        BY <2>1, <3>1, RunKeptRun DEF ActStartNow
    <2>2. CASE ActQueue(s)
      BY <2>2, RunKeptAppend DEF ActQueue
    <2> QED
      BY <1>1, <1>3, <2>1, <2>2 DEF ActStep, ActSkip, ActDone, sharedVars
  <1>4. ASSUME NEW s \in Schedulers,
               \/ StartPass(s) \/ LeaveLoop(s) \/ LimitCheck(s) \/ SendStop(s) \/ StopsSent(s)
               \/ NextRound(s) \/ StopWaiting(s) \/ WaitStep(s) \/ SendKill(s) \/ KillsSent(s) \/ LastStep(s)
        PROVE  UNCHANGED schedule
    BY <1>4 DEF StartPass, LeaveLoop, LimitCheck, CheckLimit, LimitsDone, SendStop, StopsSent, NextRound,
                StopWaiting, WaitStep, WaitDeath, WaitUnknown, WaitNobody, RoundDone, SendKill, KillsSent,
                LastStep, LastDeath, LastUnknown, LastNobody, GiveUp, BecomeReady, sharedVars
  <1>5. CASE Commands
    <2>1. CASE CmdQuit
      BY <1>1, <2>1 DEF CmdQuit, sharedVars
    <2> QED
      BY <1>1, <1>5, <2>1, RunKeptAppend DEF Commands, CmdStart, CmdStop, PushQuit, CmdQuitOne, CtrlC, Push
  <1>6. ASSUME NEW s \in Schedulers, NEW wu, Elapse(s, wu) PROVE RunKept
    <2>1. PICK i \in DOMAIN schedule[s] :
            /\ schedule[s][i] = wu
            /\ SetSchedule(s, [schedule[s] EXCEPT ![i] = Unit(wu.type, wu.prog, TRUE)])
      BY <1>6 DEF Elapse
    <2>2. schedule[s] \in Seq(WorkUnit)
      BY DEF TypeOK, SharedTypeOK
    <2>3. /\ Unit(wu.type, wu.prog, TRUE).type = wu.type
          /\ Unit(wu.type, wu.prog, TRUE).prog = wu.prog
      BY DEF Unit
    <2>4. ASSUME NEW p, HasRun(schedule[s], p)
          PROVE  HasRun([schedule[s] EXCEPT ![i] = Unit(wu.type, wu.prog, TRUE)], p)
      <3> DEFINE e == Unit(wu.type, wu.prog, TRUE)
      <3>1. schedule[s][i].type = "RUN" /\ schedule[s][i].prog = p => e.type = "RUN" /\ e.prog = p
        BY <2>1, <2>3
      <3> HIDE DEF e
      <3>2. HasRun([schedule[s] EXCEPT ![i] = e], p)
        BY <2>2, <2>4, <3>1, ExceptHasRun
      <3> QED
        BY <3>2 DEF e
    <2> QED
      BY <2>1, <2>4, RunKeptBy
  <1>7. CASE World
    BY <1>1, <1>6, <1>7 DEF World, KidEnds, KidIsKilled, Tick, allButKid, sharedVars
  <1>8. CASE UNCHANGED vars
    BY <1>1, <1>8 DEF vars, sharedVars
  <1> QED
    BY <1>1, <1>2, <1>3, <1>4, <1>5, <1>7, <1>8, ThreadAt, RunKeptPass DEF Next, Terminated

(* What makes SequenceContinues inductive is ModeInv: the deaths that do   *)
(* not queue the next command come after mode is OFF.                      *)
SequenceInv == up => SequenceContinues

LEMMA SequenceInvStep ==
    ASSUME NoMaxRun, AlwaysRuns, TypeOK, NoHandStop, ModeInv, SequenceInv, [Next]_vars
    PROVE  SequenceInv'
  <1> SUFFICES ASSUME up', NEW s \in Schedulers, NEW p \in Range(Progs[s]),
                      mode'[s] = "ON", seq_idx'[p] # 0, pid'[p] = NoPid
               PROVE  HasRun(schedule'[s], p)
    BY DEF SequenceInv, SequenceContinues, HasRun
  <1> USE DEF TypeOK, ProgramTypeOK
  <1>1. up
    BY ThreadFlow
       DEF Next, Commands, CmdStart, CmdStop, CmdQuit, PushQuit, CmdQuitOne, CtrlC, SocketCommand, Command, World, KidEnds,
           KidIsKilled, Elapse, Tick, Terminated, vars
  <1>2. mode[s] = "ON"
    BY NextMode DEF ModeStays
  <1>3. p \in Programs
    BY ProgsType
  <1>4. CASE seq_idx[p] # 0 /\ pid[p] = NoPid
    <2>1. HasRun(schedule[s], p)
      BY <1>1, <1>2, <1>4 DEF SequenceInv, SequenceContinues, HasRun
    <2> QED
      BY <2>1, RunKeptStep DEF RunKept
  <1>5. CASE ~(seq_idx[p] # 0 /\ pid[p] = NoPid)
    <2>1. ASSUME NEW t \in Schedulers, NEW k \in Pids, NEW q \in Range(Progs[t]), StartStep(t, q, k)
          PROVE  FALSE
      BY <1>3, <1>5, <2>1, KernelAssumption DEF StartStep
    <2>2. ASSUME NEW t \in Schedulers, NEW k \in Pids, DeathStep(t, k)
          PROVE  HasRun(schedule'[s], p)
      <3> DEFINE q == running[t][k]
      <3>1. q \in Range(Progs[t]) /\ q \in Programs
        BY <2>2, ProgsType DEF DeathStep, SharedTypeOK
      <3>2. q = p
        BY <1>3, <1>5, <2>2, <3>1 DEF DeathStep, ClearPid
      <3>3. t = s
        BY <3>1, <3>2, SchedulerAssumption
      <3>4. WhatNext(s, p, kid[k].status)
        BY <1>2, <2>2, <3>2, <3>3 DEF DeathStep, ModeInv, InLoop
      <3>5. CASE LastInSequence(p)
        <4>1. NextSeqIdx(p) = 0
          BY <1>3, <3>5, ProgramAssumption DEF LastInSequence, NextSeqIdx
        <4> QED
          BY <1>3, <3>4, <3>5, <4>1 DEF WhatNext, NoHandStop
      <3>6. CASE ~LastInSequence(p)
        <4> DEFINE wu == Unit("RUN", p, TRUE)
        <4>1. wu.type = "RUN" /\ wu.prog = p
          BY DEF Unit
        <4>2. SetSchedule(s, Append(schedule[s], wu))
          <5>1. stop_mode[p] # 1
            BY <1>3 DEF NoHandStop
          <5>2. SetSchedule(s, Append(schedule[s], Unit("RUN", p, TRUE)))
            BY <3>4, <3>6, <5>1, Zenon DEF WhatNext
          <5> QED
            BY <5>2
        <4> HIDE DEF wu
        <4>3. schedule'[s] = Append(schedule[s], wu) /\ schedule[s] \in Seq(WorkUnit)
          BY <4>2 DEF SetSchedule, SharedTypeOK
        <4>4. HasRun(Append(schedule[s], wu), p)
          BY <4>1, <4>3, AppendHasRun
        <4> QED
          BY <4>3, <4>4
      <3> QED
        BY <3>5, <3>6
    <2> QED
      BY <1>5, <2>1, <2>2, NextKind DEF StepKind, ThreadStepKind, CalmStep, LostStep, LimitStep, NoMaxRun
  <1> QED
    BY <1>4, <1>5

(* While PETeR runs, a sequence that is not at its first command and does  *)
(* not run is going to: for any number of schedulers, when no program has  *)
(* a maxruntime and run() finds its binaries and log files.                *)
THEOREM SequencesContinue ==
    ASSUME NoMaxRun, AlwaysRuns PROVE Spec => [](up => SequenceContinues)
  <1>1. Init => SequenceInv
    BY ProgsType DEF Init, Prepared, ProgramInit, SequenceInv, SequenceContinues
  <1>2. TypeOK /\ NoHandStop /\ ModeInv /\ SequenceInv /\ [Next]_vars => SequenceInv'
    BY SequenceInvStep
  <1>3. SequenceInv <=> (up => SequenceContinues)
    BY DEF SequenceInv
  <1> QED
    BY <1>1, <1>2, <1>3, TypeCorrect, NoHandStopInvariant, ModeInvariant, PTL DEF Spec

(***************************************************************************)
(* The end of a scheduler (Scheduler.cc 250-348): the count of the         *)
(* programs that are left is exact, and a scheduler that is READY has sent *)
(* SIGKILL to every child it leaves behind.                                *)
(***************************************************************************)

-----------------------------------------------------------------------------
(* What a thread does to the counters of the others.                       *)

(* The position, the counters and the status of the others stay.           *)
LEMMA ThreadOwn ==
    ASSUME TypeOK, NEW s \in Schedulers, Thread(s), NEW t \in Schedulers \ {s}
    PROVE  pc'[t] = pc[t] /\ ix'[t] = ix[t] /\ cnt'[t] = cnt[t] /\ status'[t] = status[t]
  <1> USE DEF TypeOK, ThreadTypeOK, SharedTypeOK
  <1>1. pc'[t] = pc[t]
    BY ThreadFlow DEF Goto
  <1>2. ix'[t] = ix[t]
    <2>1. ix' = ix \/ Advance(s) \/ Rewind(s)
      <3>1. CASE PassStep(s) \/ EraseStep(s) \/ LimitCheck(s) \/ StartPass(s) \/ LeaveLoop(s)
        BY <3>1 DEF PassStep, EraseStep, LimitCheck, StartPass, LeaveLoop, DoExit, DoRun, DoEnd, DoNoStart,
                    NotYet, PassDone, Erase, EraseDone, CheckLimit, LimitsDone
      <3>2. CASE ReapStep(s) \/ ActStep(s)
        BY <3>2 DEF ReapStep, ActStep, ReapUnknown, ReapChild, ReapNone, ReapDone, ActStartNow, ActQueue,
                    ActSkip, ActDone
      <3>3. CASE SendStop(s) \/ StopsSent(s) \/ NextRound(s) \/ StopWaiting(s) \/ SendKill(s) \/ KillsSent(s)
        BY <3>3 DEF SendStop, StopsSent, NextRound, StopWaiting, SendKill, KillsSent
      <3>4. CASE WaitStep(s) \/ LastStep(s)
        BY <3>4 DEF WaitStep, LastStep, WaitDeath, WaitUnknown, WaitNobody, RoundDone, LastDeath,
                    LastUnknown, LastNobody, GiveUp
      <3> QED
        BY <3>1, <3>2, <3>3, <3>4, ThreadAt
    <2> QED
      BY <2>1 DEF Advance, Rewind
  <1>3. cnt'[t] = cnt[t]
    <2>1. CASE PassStep(s) \/ EraseStep(s) \/ LimitCheck(s) \/ StartPass(s) \/ ReapStep(s) \/ ActStep(s)
      BY <2>1 DEF PassStep, EraseStep, LimitCheck, StartPass, DoExit, DoRun, DoEnd, DoNoStart,
                  NotYet, PassDone, Erase, EraseDone, CheckLimit, LimitsDone, ReapStep, ActStep,
                  ReapUnknown, ReapChild, ReapNone, ReapDone, ActStartNow, ActQueue, ActSkip, ActDone
    <2>2. CASE LeaveLoop(s) \/ SendStop(s) \/ StopsSent(s) \/ NextRound(s) \/ StopWaiting(s)
      BY <2>2 DEF LeaveLoop, SendStop, StopsSent, NextRound, OneTryLess, StopWaiting
    <2>3. CASE SendKill(s) \/ KillsSent(s) \/ WaitStep(s) \/ LastStep(s)
      BY <2>3 DEF SendKill, KillsSent, WaitStep, LastStep, WaitDeath, WaitUnknown, WaitNobody, RoundDone,
                  LastDeath, LastUnknown, LastNobody, GiveUp
    <2> QED
      BY <2>1, <2>2, <2>3, ThreadAt
  <1>4. status'[t] = status[t]
    <2>1. CASE PassStep(s) \/ EraseStep(s) \/ LimitCheck(s) \/ StartPass(s) \/ ReapStep(s) \/ ActStep(s)
      BY <2>1 DEF PassStep, EraseStep, LimitCheck, StartPass, DoExit, DoRun, DoEnd, DoNoStart,
                  NotYet, PassDone, Erase, EraseDone, CheckLimit, LimitsDone, ReapStep, ActStep,
                  ReapUnknown, ReapChild, ReapNone, ReapDone, ActStartNow, ActQueue, ActSkip, ActDone,
                  sharedVars
    <2>2. CASE LeaveLoop(s) \/ SendStop(s) \/ StopsSent(s) \/ NextRound(s) \/ StopWaiting(s)
      BY <2>2 DEF LeaveLoop, SendStop, StopsSent, NextRound, StopWaiting, BecomeReady, sharedVars
    <2>3. CASE SendKill(s) \/ KillsSent(s) \/ WaitStep(s) \/ LastStep(s)
      BY <2>3 DEF SendKill, KillsSent, WaitStep, LastStep, WaitDeath, WaitUnknown, WaitNobody, RoundDone,
                  LastDeath, LastUnknown, LastNobody, GiveUp, BecomeReady, sharedVars
    <2> QED
      BY <2>1, <2>2, <2>3, ThreadAt
  <1> QED
    BY <1>1, <1>2, <1>3, <1>4

(* A status of READY is given together with the end of the thread.         *)
LEMMA ThreadReady ==
    ASSUME TypeOK, NEW s \in Schedulers, Thread(s), status[s] # "READY", status'[s] = "READY"
    PROVE  pc'[s] = "ready"
  <1> USE DEF TypeOK, ThreadTypeOK, SharedTypeOK
  <1>1. ~(PassStep(s) \/ EraseStep(s) \/ LimitCheck(s) \/ StartPass(s) \/ ReapStep(s) \/ ActStep(s))
    BY DEF PassStep, EraseStep, LimitCheck, StartPass, DoExit, DoRun, DoEnd, DoNoStart,
           NotYet, PassDone, Erase, EraseDone, CheckLimit, LimitsDone, ReapStep, ActStep,
           ReapUnknown, ReapChild, ReapNone, ReapDone, ActStartNow, ActQueue, ActSkip, ActDone, sharedVars
  <1>2. CASE LeaveLoop(s) \/ SendStop(s) \/ StopsSent(s) \/ NextRound(s) \/ StopWaiting(s)
    BY <1>2 DEF LeaveLoop, SendStop, StopsSent, NextRound, StopWaiting, BecomeReady, Goto, sharedVars
  <1>3. CASE SendKill(s) \/ KillsSent(s) \/ WaitStep(s) \/ LastStep(s)
    BY <1>3 DEF SendKill, KillsSent, WaitStep, LastStep, WaitDeath, WaitUnknown, WaitNobody, RoundDone,
                LastDeath, LastUnknown, LastNobody, GiveUp, BecomeReady, Goto, sharedVars
  <1> QED
    BY <1>1, <1>2, <1>3, ThreadAt

-----------------------------------------------------------------------------
(* What the steps of the others leave to a scheduler that is ending.       *)

SamePids(t) == \A p \in Range(Progs[t]) : pid'[p] = pid[p]

(* No child of a program of t is new, and none has lost a signal.          *)
NoNewChild(t) ==
    \A k \in Pids : (kid'[k].st = "alive" /\ kid'[k].prog \in Range(Progs[t])) =>
        kid[k].st = "alive" /\ kid'[k].prog = kid[k].prog /\ kid[k].pend \subseteq kid'[k].pend

LEMMA SamePidsStep ==
    ASSUME TypeOK, NoMaxRun, NEW t \in Schedulers,
           CalmStep \/ \E s \in Schedulers \ {t} : ThreadStepKind(s)
    PROVE  SamePids(t)
  <1> SUFFICES ASSUME NEW p \in Range(Progs[t]) PROVE pid'[p] = pid[p]
    BY DEF SamePids
  <1> USE DEF TypeOK, ProgramTypeOK
  <1>1. ASSUME NEW s \in Schedulers \ {t}, NEW k \in Pids, NEW q \in Range(Progs[s]), StartStep(s, q, k)
        PROVE  pid'[p] = pid[p]
    <2>1. p # q /\ p \in Programs
      BY SchedulerAssumption, ProgsType
    <2>2. pid' = [pid EXCEPT ![q] = k]
      BY <1>1 DEF StartStep
    <2> QED
      BY <2>1, <2>2
  <1>2. ASSUME NEW s \in Schedulers \ {t}, NEW k \in Pids, DeathStep(s, k)
        PROVE  pid'[p] = pid[p]
    <2>1. running[s][k] \in Range(Progs[s])
      BY <1>2 DEF DeathStep, SharedTypeOK
    <2>2. running[s][k] # p
      BY <2>1, SchedulerAssumption
    <2> QED
      BY <1>2, <2>2, ProgsType DEF DeathStep, ClearPid
  <1> QED
    BY <1>1, <1>2 DEF ThreadStepKind, CalmStep, LostStep, LimitStep, NoMaxRun

LEMMA NoNewChildStep ==
    ASSUME TypeOK, StepKind, NEW t \in Schedulers, ~InLoop(t) PROVE NoNewChild(t)
  <1> USE DEF TypeOK, KernelTypeOK
  <1>1. CASE SameChildren
    BY <1>1 DEF SameChildren, NoNewChild
  <1>2. ASSUME NEW s \in Schedulers, NEW k \in Pids, NEW q \in Range(Progs[s]), StartStep(s, q, k)
        PROVE  NoNewChild(t)
    <2>1. q \notin Range(Progs[t])
      BY <1>2, SchedulerAssumption DEF StartStep, InLoop
    <2> QED
      BY <1>2, <2>1 DEF StartStep, Forked, NoNewChild
  <1>3. ASSUME NEW k \in Pids, kid' = Reaped(k) PROVE NoNewChild(t)
    BY <1>3 DEF Reaped, Free, NoNewChild
  <1> QED
    BY <1>1, <1>2, <1>3 DEF StepKind, ThreadStepKind, CalmStep, LimitStep, LostStep, DeathStep

-----------------------------------------------------------------------------
(* p_count.                                                                *)

(* The programs of s with a pid, among the first n.                        *)
LeftIn(pids, s, n) == {i \in 1..n : pids[Progs[s][i]] # NoPid}

LEMMA LeftCount ==
    ASSUME NEW s \in Schedulers, NEW pids, NEW n \in Nat
    PROVE  /\ IsFiniteSet(LeftIn(pids, s, n))
           /\ Cardinality(LeftIn(pids, s, n)) \in Nat
           /\ n = 0 => Cardinality(LeftIn(pids, s, n)) = 0
           /\ Cardinality(LeftIn(pids, s, n)) = 0 => LeftIn(pids, s, n) = {}
           /\ Cardinality(LeftIn(pids, s, n + 1))
                = Cardinality(LeftIn(pids, s, n)) + (IF pids[Progs[s][n + 1]] # NoPid THEN 1 ELSE 0)
  <1>1. IsFiniteSet(LeftIn(pids, s, n))
    <2>1. IsFiniteSet(1..n)
      BY FS_Interval
    <2>2. LeftIn(pids, s, n) \in SUBSET (1..n)
      BY DEF LeftIn
    <2> QED
      BY <2>1, <2>2, FS_Subset
  <1>2. n = 0 => LeftIn(pids, s, n) = {}
    BY DEF LeftIn
  <1>3. n + 1 \notin LeftIn(pids, s, n)
    BY DEF LeftIn
  <1>4. LeftIn(pids, s, n + 1) =
          IF pids[Progs[s][n + 1]] # NoPid THEN LeftIn(pids, s, n) \cup {n + 1} ELSE LeftIn(pids, s, n)
    BY DEF LeftIn
  <1> QED
    <2> DEFINE L == LeftIn(pids, s, n)
    <2> HIDE DEF L
    <2>1. Cardinality(L) \in Nat /\ (L = {} <=> Cardinality(L) = 0)
      BY <1>1, FS_CardinalityType, FS_EmptySet DEF L
    <2>2. Cardinality(L \cup {n + 1}) = Cardinality(L) + 1
      BY <1>1, <1>3, FS_AddElement DEF L
    <2> QED
      BY <1>1, <1>2, <1>4, <2>1, <2>2 DEF L

(* One program fewer.                                                      *)
LEMMA LeftRemoved ==
    ASSUME NEW s \in Schedulers, NEW pids \in [Programs -> Pids \cup {NoPid}],
           NEW q \in Range(Progs[s]), pids[q] # NoPid
    PROVE  Cardinality(LeftIn([pids EXCEPT ![q] = NoPid], s, NumProgs(s)))
             = Cardinality(LeftIn(pids, s, NumProgs(s))) - 1
  <1> DEFINE n == NumProgs(s)
             after == [pids EXCEPT ![q] = NoPid]
  <1>1. PICK j \in 1..n : Progs[s][j] = q
    <2>1. Progs[s] \in Seq(Programs)
      BY SchedulerAssumption
    <2> QED
      BY <2>1 DEF NumProgs, Range
  <1>2. \A i \in 1..n : Progs[s][i] \in Programs /\ (Progs[s][i] = q => i = j)
    BY <1>1, ProgsType, SchedulerAssumption DEF NumProgs
  <1>3. LeftIn(after, s, n) = LeftIn(pids, s, n) \ {j} /\ j \in LeftIn(pids, s, n)
    BY <1>1, <1>2 DEF LeftIn
  <1>4. IsFiniteSet(LeftIn(pids, s, n))
    BY LeftCount, ProgsType
  <1> QED
    BY <1>3, <1>4, FS_RemoveElement

(* Between the loop and the end p_count counts the programs with a pid:    *)
(* while signals are sent, those that the iterator has passed.             *)
Ending == {"sig", "round", "wait", "kill", "wait9"}
Counted(s) == IF pc[s] \in {"sig", "kill"} THEN ix[s] - 1 ELSE NumProgs(s)

CountOK(s) ==
    pc[s] \in Ending =>
        /\ Counted(s) \in 0..NumProgs(s)
        /\ cnt[s].p = Cardinality(LeftIn(pid, s, Counted(s)))

(* One program more is counted.                                            *)
LEMMA CountNext ==
    ASSUME TypeOK, NEW s \in Schedulers, CountOK(s), pc[s] \in {"sig", "kill"}, ix[s] <= NumProgs(s),
           UNCHANGED <<pc, pid>>, Advance(s),
           cnt' = IF pid[Progs[s][ix[s]]] # NoPid THEN [cnt EXCEPT ![s].p = @ + 1] ELSE cnt
    PROVE  CountOK(s)'
  <1> USE DEF TypeOK, ThreadTypeOK
  <1> DEFINE n == ix[s] - 1
  <1>1. n \in 0..NumProgs(s) - 1 /\ cnt[s].p = Cardinality(LeftIn(pid, s, n))
    BY ProgsType DEF CountOK, Counted, Ending
  <1>2. n \in Nat /\ n + 1 = ix[s]
    OBVIOUS
  <1>3. Cardinality(LeftIn(pid, s, n)) \in Nat
    BY <1>2, LeftCount
  <1>4. Cardinality(LeftIn(pid, s, ix[s]))
          = Cardinality(LeftIn(pid, s, n)) + (IF pid[Progs[s][ix[s]]] # NoPid THEN 1 ELSE 0)
    BY <1>2, LeftCount
  <1>5. cnt'[s].p = cnt[s].p + (IF pid[Progs[s][ix[s]]] # NoPid THEN 1 ELSE 0)
    BY <1>1, <1>3 DEF Count
  <1>6. Counted(s)' = ix[s] /\ ix[s] \in 0..NumProgs(s)
    BY ProgsType DEF Counted, Advance
  <1> QED
    BY <1>1, <1>4, <1>5, <1>6 DEF CountOK

(* A program that has died is counted off.                                 *)
LEMMA CountOff ==
    ASSUME TypeOK, MapAgrees, NEW s \in Schedulers, CountOK(s), pc[s] \in {"wait", "wait9"},
           UNCHANGED pc, NEW w, CountDeath(s, w), cnt'[s].p = cnt[s].p - 1
    PROVE  CountOK(s)'
  <1>1. PICK k \in Pids : running[s][k] # NoProg /\ pid' = ClearPid(running[s][k])
    BY DEF CountDeath, Reapable
  <1>2. running[s][k] \in Range(Progs[s]) /\ pid[running[s][k]] # NoPid
    BY <1>1, KernelAssumption DEF MapAgrees, TypeOK, SharedTypeOK
  <1>3. Cardinality(LeftIn(pid', s, NumProgs(s))) = Cardinality(LeftIn(pid, s, NumProgs(s))) - 1
    BY <1>1, <1>2, LeftRemoved DEF ClearPid, TypeOK, ProgramTypeOK
  <1> QED
    BY <1>3 DEF CountOK, Counted, Ending

(* Every step of its own thread keeps the count of s.                      *)
LEMMA CountThread ==
    ASSUME TypeOK, MapAgrees, PidIsChild, NEW s \in Schedulers, Thread(s), CountOK(s)
    PROVE  CountOK(s)'
  <1> USE DEF TypeOK, ThreadTypeOK
  <1>1. CASE pc'[s] \notin Ending
    BY <1>1 DEF CountOK
  <1>2. CASE pc'[s] \in Ending /\ pc[s] \notin Ending
    <2>1. pc[s] = "top" /\ pc'[s] = "sig"
      BY <1>2, ThreadFlow DEF Goto, Flow, Ending
    <2>2. LeaveLoop(s)
      BY <2>1, ThreadAt DEF StartPass, Goto
    <2>3. /\ cnt'[s].p = 0 /\ ix'[s] = 1
          /\ UNCHANGED pid
      BY <2>2 DEF LeaveLoop, NoCount, Rewind, programVars
    <2>4. Cardinality(LeftIn(pid, s, 0)) = 0
      BY LeftCount
    <2> QED
      BY <2>1, <2>3, <2>4, ProgsType DEF CountOK, Counted
  <1>3. CASE SendStop(s)
    <2> DEFINE p == Progs[s][ix[s]]
    <2>1. p \in Programs
      BY <1>3, ProgsType DEF SendStop
    <2>2. KillSucceeds(pid[p]) <=> pid[p] # NoPid
      BY <2>1, KernelAssumption DEF PidIsChild, KillSucceeds, ProgramTypeOK
    <2> QED
      BY <1>3, <2>2, CountNext DEF SendStop, At, programVars
  <1>4. CASE SendKill(s)
    BY <1>4, CountNext DEF SendKill, At, NotRunning, programVars
  <1>5. CASE StopsSent(s) \/ KillsSent(s)
    <2>1. /\ pc[s] \in {"sig", "kill"} /\ pc'[s] \in {"round", "wait9"}
          /\ cnt'[s].p = cnt[s].p
          /\ ix[s] > NumProgs(s)
          /\ UNCHANGED pid
      BY <1>5 DEF StopsSent, KillsSent, At, Goto, programVars
    <2>2. Counted(s) = NumProgs(s) /\ Counted(s)' = NumProgs(s) /\ NumProgs(s) \in Nat
      BY <2>1, ProgsType DEF CountOK, Counted, Ending
    <2> QED
      BY <2>1, <2>2 DEF CountOK, Ending
  <1>6. CASE StopWaiting(s)
    <2>1. CASE ProgramsLeft(s)
      <3>1. cnt'[s].p = 0 /\ ix'[s] = 1 /\ pc'[s] = "kill" /\ UNCHANGED pid
        BY <1>6, <2>1 DEF StopWaiting, Rewind, Goto, programVars, Count
      <3>2. Cardinality(LeftIn(pid, s, 0)) = 0
        BY LeftCount
      <3> QED
        BY <3>1, <3>2, ProgsType DEF CountOK, Counted
    <2>2. CASE ~ProgramsLeft(s)
      BY <1>6, <2>2 DEF StopWaiting, BecomeReady, Goto, CountOK, Ending
    <2> QED
      BY <2>1, <2>2
  <1>7. CASE WaitDeath(s)
    BY <1>7, CountOff DEF WaitDeath, InWait, At, Count
  <1>8. CASE LastDeath(s)
    BY <1>8, CountOff DEF LastDeath, At, Count
  <1>9. CASE NextRound(s) \/ WaitNobody(s) \/ RoundDone(s) \/ LastNobody(s)
    <2>1. /\ pc[s] \in {"round", "wait", "wait9"} /\ pc'[s] \in {"round", "wait", "wait9"}
          /\ UNCHANGED pid
      BY <1>9 DEF NextRound, WaitNobody, RoundDone, LastNobody, InWait, At, Goto, programVars
    <2>2. cnt'[s].p = cnt[s].p
      BY <1>9 DEF NextRound, OneTryLess, WaitNobody, RoundDone, LastNobody, Count
    <2> QED
      BY <2>1, <2>2 DEF CountOK, Counted, Ending
  <1>10. CASE WaitUnknown(s) \/ LastUnknown(s) \/ GiveUp(s)
    BY <1>10 DEF WaitUnknown, LastUnknown, GiveUp, BecomeReady, Goto, CountOK, Ending
  <1> QED
    BY <1>1, <1>2, <1>3, <1>4, <1>5, <1>6, <1>7, <1>8, <1>9, <1>10, ThreadAt
       DEF WaitStep, LastStep, Ending

-----------------------------------------------------------------------------
(* SIGKILL.                                                                *)

(* The living children of the first n programs of s have been sent SIGKILL.*)
Marked(kids, s, n) ==
    \A i \in 1..n, k \in Pids :
        (kids[k].st = "alive" /\ kids[k].prog = Progs[s][i]) => SIGKILL \in kids[k].pend

KillOK(s) ==
    /\ pc[s] = "kill" => Marked(kid, s, ix[s] - 1)
    /\ pc[s] \in {"wait9", "ready"} => Marked(kid, s, NumProgs(s))
    /\ status[s] = "READY" => pc[s] = "ready"

LEMMA MarkedStays ==
    ASSUME NEW s \in Schedulers, NEW n \in 0..NumProgs(s), Marked(kid, s, n), NoNewChild(s)
    PROVE  Marked(kid', s, n)
  <1>1. \A i \in 1..n : Progs[s][i] \in Range(Progs[s])
    BY ProgsType
  <1> QED
    BY <1>1 DEF Marked, NoNewChild

LEMMA KillThread ==
    ASSUME TypeOK, StepKind, Tracked, NEW s \in Schedulers, Thread(s), CountOK(s), KillOK(s)
    PROVE  KillOK(s)'
  <1> USE DEF TypeOK, ThreadTypeOK, SharedTypeOK
  <1>0. NumProgs(s) \in Nat
    BY ProgsType
  <1>1. status'[s] = "READY" => pc'[s] = "ready"
    BY ThreadReady, ThreadFlow DEF KillOK
  <1>2. CASE pc'[s] \notin {"kill", "wait9", "ready"}
    BY <1>1, <1>2 DEF KillOK
  <1>3. CASE StopWaiting(s)
    <2>1. UNCHANGED kid /\ pc[s] = "round"
      BY <1>3 DEF StopWaiting, At
    <2>2. CASE ProgramsLeft(s)
      <3>1. pc'[s] = "kill" /\ ix'[s] = 1
        BY <1>3, <2>2 DEF StopWaiting, Goto, Rewind
      <3> QED
        BY <1>1, <3>1 DEF KillOK, Marked
    <2>3. CASE ~ProgramsLeft(s)
      <3>1. LeftIn(pid, s, NumProgs(s)) = {}
        <4>1. cnt[s].p = Cardinality(LeftIn(pid, s, NumProgs(s)))
          BY <2>1 DEF CountOK, Counted, Ending
        <4>2. Cardinality(LeftIn(pid, s, NumProgs(s))) = 0
          BY <1>0, <2>3, <4>1, LeftCount DEF ProgramsLeft
        <4> QED
          BY <1>0, <4>2, LeftCount
      <3>2. Marked(kid, s, NumProgs(s))
        <4> SUFFICES ASSUME NEW i \in 1..NumProgs(s), NEW k \in Pids, kid[k].st = "alive",
                            kid[k].prog = Progs[s][i]
                     PROVE  FALSE
          BY DEF Marked
        <4>1. pid[Progs[s][i]] = k
          BY DEF Tracked, Unreaped
        <4>2. i \in LeftIn(pid, s, NumProgs(s))
          BY <4>1, KernelAssumption DEF LeftIn
        <4> QED
          BY <3>1, <4>2
      <3>3. pc'[s] = "ready"
        BY <1>3, <2>3 DEF StopWaiting, BecomeReady, Goto
      <3> QED
        BY <1>1, <2>1, <3>2, <3>3 DEF KillOK
    <2> QED
      BY <2>2, <2>3
  <1>4. CASE pc[s] \in {"kill", "wait9"}
    <2>1. NoNewChild(s)
      BY <1>4, NoNewChildStep DEF InLoop
    <2>2. CASE SendKill(s)
      <3> DEFINE p == Progs[s][ix[s]]
      <3>1. /\ ix[s] \in 1..NumProgs(s) /\ pc[s] = "kill"
            /\ kid' = Signalled(pid[p], SIGKILL)
            /\ pc'[s] = "kill" /\ ix'[s] = ix[s] + 1
        BY <1>0, <2>2 DEF SendKill, At, Advance
      <3>2. Marked(kid', s, ix[s] - 1)
        <4>1. ix[s] - 1 \in 0..NumProgs(s)
          BY <1>0, <3>1
        <4> QED
          BY <2>1, <3>1, <4>1, MarkedStays DEF KillOK
      <3>3. ASSUME NEW k \in Pids, kid'[k].st = "alive", kid'[k].prog = p PROVE SIGKILL \in kid'[k].pend
        <4>1. p \in Range(Progs[s])
          BY <3>1, ProgsType
        <4>2. kid[k].st = "alive" /\ kid[k].prog = p
          BY <2>1, <3>3, <4>1 DEF NoNewChild
        <4>3. pid[p] = k
          BY <4>2 DEF Tracked, Unreaped
        <4> QED
          BY <3>1, <4>2, <4>3 DEF Signalled, Alive, KernelTypeOK
      <3>4. Marked(kid', s, ix[s])
        <4> SUFFICES ASSUME NEW i \in 1..ix[s], NEW k \in Pids, kid'[k].st = "alive",
                            kid'[k].prog = Progs[s][i]
                     PROVE  SIGKILL \in kid'[k].pend
          BY DEF Marked
        <4>1. CASE i = ix[s]
          BY <3>3, <4>1
        <4>2. CASE i # ix[s]
          <5>1. i \in 1..ix[s] - 1
            BY <3>1, <4>2
          <5> QED
            BY <3>2, <5>1 DEF Marked
        <4> QED
          BY <4>1, <4>2
      <3> QED
        BY <1>1, <3>1, <3>4 DEF KillOK
    <2>3. CASE KillsSent(s)
      <3>1. UNCHANGED kid /\ ix[s] > NumProgs(s) /\ pc[s] = "kill" /\ pc'[s] = "wait9"
        BY <2>3 DEF KillsSent, At, Goto
      <3>2. Marked(kid, s, NumProgs(s))
        <4>1. Marked(kid, s, ix[s] - 1)
          BY <3>1 DEF KillOK
        <4>2. \A i \in 1..NumProgs(s) : i \in 1..ix[s] - 1
          BY <1>0, <3>1
        <4> QED
          BY <4>1, <4>2 DEF Marked
      <3> QED
        BY <1>1, <3>1, <3>2 DEF KillOK
    <2>4. CASE LastStep(s)
      <3>1. pc[s] = "wait9" /\ pc'[s] # "kill"
        BY <2>4, ThreadFlow DEF LastStep, LastDeath, LastUnknown, LastNobody, GiveUp, At, Goto, Flow
      <3>2. Marked(kid', s, NumProgs(s))
        BY <1>0, <2>1, <3>1, MarkedStays DEF KillOK
      <3> QED
        BY <1>1, <3>1, <3>2 DEF KillOK
    <2> QED
      BY <1>4, <2>2, <2>3, <2>4, ThreadAt
  <1>5. CASE pc'[s] \in {"kill", "wait9", "ready"} /\ pc[s] \notin {"kill", "wait9"}
    <2>1. pc[s] = "round" /\ pc'[s] \in {"kill", "ready"}
      BY <1>5, ThreadFlow DEF Goto, Flow
    <2>2. ~NextRound(s)
      BY <2>1 DEF NextRound, Goto
    <2> QED
      BY <1>3, <2>1, <2>2, ThreadAt
  <1> QED
    BY <1>2, <1>4, <1>5

-----------------------------------------------------------------------------
(* The invariant.                                                          *)

ShutdownInv == NeverNull => \A s \in Schedulers : CountOK(s) /\ KillOK(s)

(* What keeps it for a scheduler whose own thread does not move.           *)
LEMMA ShutdownKept ==
    ASSUME TypeOK, StepKind, NEW t \in Schedulers, CountOK(t), KillOK(t), SamePids(t),
           pc'[t] = pc[t], ix'[t] = ix[t], cnt'[t] = cnt[t],
           status'[t] = "READY" => status[t] = "READY"
    PROVE  CountOK(t)' /\ KillOK(t)'
  <1>1. \A n \in 0..NumProgs(t) : LeftIn(pid', t, n) = LeftIn(pid, t, n)
    BY ProgsType DEF LeftIn, SamePids
  <1>2. CountOK(t)'
    BY <1>1 DEF CountOK, Counted
  <1>3. CASE InLoop(t)
    <2>1. pc'[t] \notin {"kill", "wait9", "ready"} /\ status[t] # "READY"
      BY <1>3 DEF KillOK, InLoop
    <2>2. KillOK(t)'
      BY <2>1 DEF KillOK
    <2> QED
      BY <1>2, <2>2
  <1>4. CASE ~InLoop(t)
    <2>1. NoNewChild(t)
      BY <1>4, NoNewChildStep
    <2>2. pc[t] = "kill" => ix[t] - 1 \in 0..NumProgs(t)
      BY DEF CountOK, Counted, Ending
    <2>3. NumProgs(t) \in 0..NumProgs(t)
      BY ProgsType
    <2> QED
      BY <1>2, <2>1, <2>2, <2>3, MarkedStays DEF KillOK
  <1> QED
    BY <1>2, <1>3, <1>4

LEMMA ShutdownStep ==
    ASSUME NoMaxRun, TypeOK, ChildInv, TrackedInv, ShutdownInv, [Next]_vars PROVE ShutdownInv'
  <1> SUFFICES ASSUME NeverNull', NEW t \in Schedulers PROVE CountOK(t)' /\ KillOK(t)'
    BY DEF ShutdownInv
  <1>1. CountOK(t) /\ KillOK(t) /\ PidIsChild /\ Tracked /\ MapAgrees
    BY DeadForEver DEF ShutdownInv, ChildInv, TrackedInv
  <1>2. StepKind
    BY NextKind
  <1>3. CASE Thread(t)
    BY <1>1, <1>2, <1>3, CountThread, KillThread
  <1>4. ASSUME NEW s \in Schedulers \ {t}, Thread(s) PROVE CountOK(t)' /\ KillOK(t)'
    <2>1. SamePids(t)
      BY <1>4, ThreadKind, SamePidsStep
    <2>2. pc'[t] = pc[t] /\ ix'[t] = ix[t] /\ cnt'[t] = cnt[t] /\ status'[t] = status[t]
      BY <1>4, ThreadOwn
    <2> QED
      BY <1>1, <1>2, <2>1, <2>2, ShutdownKept
  <1>5. CASE Commands \/ World \/ UNCHANGED vars
    <2>1. SamePids(t)
      BY <1>5, OthersKind, SamePidsStep
    <2>2. UNCHANGED threadVars
      BY <1>5, OthersFlow
    <2>3. UNCHANGED status
      BY <1>5 DEF Commands, CmdStart, CmdStop, CmdQuit, PushQuit, CmdQuitOne, CtrlC, World, KidEnds, KidIsKilled,
                  Elapse, Tick, allButKid, sharedVars, vars
    <2> QED
      BY <1>1, <1>2, <2>1, <2>2, <2>3, ShutdownKept DEF threadVars
  <1> QED
    BY <1>3, <1>4, <1>5 DEF Next, Terminated

LEMMA ShutdownInvariant == ASSUME NoMaxRun PROVE Spec => []ShutdownInv
  <1>1. Init => ShutdownInv
    BY DEF Init, Prepared, ShutdownInv, CountOK, KillOK, Ending
  <1>2. TypeOK /\ ChildInv /\ TrackedInv /\ ShutdownInv /\ [Next]_vars => ShutdownInv'
    BY ShutdownStep
  <1> QED
    BY <1>1, <1>2, TypeCorrect, ChildInvariant, TrackedInvariant, PTL DEF Spec

LEMMA NoneSurvive == ASSUME TypeOK, NeverNull, ShutdownInv PROVE NoSurvivor
  <1> SUFFICES ASSUME NEW s \in Schedulers, status[s] = "READY", NEW k \in Pids, Alive(k),
                      Owns(s, kid[k].prog)
               PROVE  SIGKILL \in kid[k].pend
    BY DEF NoSurvivor
  <1>1. Marked(kid, s, NumProgs(s))
    BY DEF ShutdownInv, KillOK
  <1>2. Progs[s] \in Seq(Programs)
    BY SchedulerAssumption
  <1>3. \E i \in 1..NumProgs(s) : Progs[s][i] = kid[k].prog
    BY <1>2 DEF Owns, Range, NumProgs
  <1> QED
    BY <1>1, <1>3 DEF Marked, Alive

(* Without a maxruntime a scheduler that is READY has sent SIGKILL to      *)
(* every child of its programs that is still alive, for any number of      *)
(* schedulers until a thread has reaped a child it does not know.          *)
THEOREM ReadyLeavesNone == ASSUME NoMaxRun PROVE Spec => [](NeverNull => NoSurvivor)
  <1>1. TypeOK /\ ShutdownInv => (NeverNull => NoSurvivor)
    BY NoneSurvive
  <1> QED
    BY <1>1, TypeCorrect, ShutdownInvariant, PTL

(* With one scheduler, and without a maxruntime, all of it holds for ever: *)
(* the pids are those of children, the event list tells the truth, and     *)
(* READY leaves nobody unkilled.                                           *)
COROLLARY OneSchedulerSafe ==
    ASSUME NoMaxRun, NEW s0, Schedulers = {s0}
    PROVE  Spec => [](PidIsChild /\ LogTruth /\ NoSurvivor)
  BY OneSchedulerNeverNull, PidsAreChildren, LogsTellTruth, ReadyLeavesNone, PTL

(***************************************************************************)
(* The limit on the number of starts (Program.cc 508-513): whatever the    *)
(* order of deaths, limits on the run time, stops, lost threads and delay, *)
(* a program that only restarts itself is started MaxStarts + n times at   *)
(* most, n being the number of its commands.                               *)
(*                                                                         *)
(* The argument counts tokens: a start of a program uses up the one right  *)
(* to start it, which its entry in the map, a RUN unit in the schedule or  *)
(* a <start/> still to do stands for, and a death gives back one at most.  *)
(***************************************************************************)

-----------------------------------------------------------------------------
(* What is assumed of the configuration and the commands.                  *)

OneRun(sq, p) ==
    \A i, j \in DOMAIN sq :
        (sq[i].type = "RUN" /\ sq[i].prog = p /\ sq[j].type = "RUN" /\ sq[j].prog = p) => i = j

(* A list of actions starts its own program only, and once.                *)
OwnStart(p, acts) ==
    \A i, j \in DOMAIN acts :
        acts[i].type = "start" => acts[i].prog \in {NoProg, p} /\ (acts[j].type = "start" => i = j)

OnlyOwnRestarts ==
    /\ "start" \notin CmdKinds
    /\ \A s \in Schedulers : \A p \in Range(Progs[s]) : OneRun(InitSchedule[s], p)
    /\ \A p \in Programs : \A r \in DOMAIN OnExit[p] : OwnStart(p, OnExit[p][r])
    /\ \A p \in Programs : \A g \in DOMAIN OnSignal[p] : OwnStart(p, OnSignal[p][g])

(* The list that a thread goes through is such a list.                     *)
JobsOwn == \A s \in Schedulers : pc[s] = "act" => OwnStart(job[s].self, job[s].todo)

LEMMA ActionsOwn ==
    ASSUME OnlyOwnRestarts, NEW p \in Programs, NEW st \in Status, HasActions(p, st)
    PROVE  OwnStart(p, ActionsFor(p, st))
  BY DEF OnlyOwnRestarts, HasActions, ActionsFor, Status

LEMMA TailFacts ==
    ASSUME NEW acts \in Seq(Action), acts # << >>
    PROVE  /\ Head(acts) = acts[1] /\ 1 \in DOMAIN acts
           /\ \A i \in DOMAIN Tail(acts) : i + 1 \in DOMAIN acts /\ Tail(acts)[i] = acts[i + 1] /\ i + 1 # 1
  OBVIOUS

LEMMA TailOwn ==
    ASSUME NEW p, NEW acts \in Seq(Action), acts # << >>, OwnStart(p, acts)
    PROVE  OwnStart(p, Tail(acts))
  <1> SUFFICES ASSUME NEW i \in DOMAIN Tail(acts), NEW j \in DOMAIN Tail(acts),
                      Tail(acts)[i].type = "start"
               PROVE  Tail(acts)[i].prog \in {NoProg, p} /\ (Tail(acts)[j].type = "start" => i = j)
    BY DEF OwnStart
  <1>1. /\ i + 1 \in DOMAIN acts /\ Tail(acts)[i] = acts[i + 1]
        /\ j + 1 \in DOMAIN acts /\ Tail(acts)[j] = acts[j + 1]
        /\ i \in Nat /\ j \in Nat
    BY TailFacts
  <1> QED
    BY <1>1 DEF OwnStart

HasStart(acts) == \E i \in DOMAIN acts : acts[i].type = "start"

(* A start that is done was the only one.                                  *)
LEMMA TailStart ==
    ASSUME NEW p, NEW acts \in Seq(Action), acts # << >>, OwnStart(p, acts)
    PROVE  /\ HasStart(Tail(acts)) => HasStart(acts)
           /\ Head(acts).type = "start" => HasStart(acts) /\ ~HasStart(Tail(acts))
  <1>1. HasStart(Tail(acts)) => HasStart(acts)
    BY TailFacts DEF HasStart
  <1>2. ASSUME Head(acts).type = "start" PROVE HasStart(acts) /\ ~HasStart(Tail(acts))
    BY <1>2, TailFacts DEF HasStart, OwnStart
  <1> QED
    BY <1>1, <1>2

-----------------------------------------------------------------------------
(* Schedules.                                                              *)

(* sq2 has no RUN unit that sq has not.                                    *)
NoMoreRuns(sq, sq2) ==
    \A p : (HasRun(sq2, p) => HasRun(sq, p)) /\ (OneRun(sq, p) => OneRun(sq2, p))

LEMMA AppendOther ==
    ASSUME NEW sq \in Seq(WorkUnit), NEW e, e.type # "RUN" PROVE NoMoreRuns(sq, Append(sq, e))
  <1>1. \A i \in DOMAIN Append(sq, e) : Append(sq, e)[i].type = "RUN" =>
                                          i \in DOMAIN sq /\ Append(sq, e)[i] = sq[i]
    OBVIOUS
  <1> QED
    BY <1>1 DEF NoMoreRuns, HasRun, OneRun

LEMMA ExceptOther ==
    ASSUME NEW sq \in Seq(WorkUnit), NEW i \in DOMAIN sq, NEW e,
           e.type = "RUN" => sq[i].type = "RUN" /\ sq[i].prog = e.prog
    PROVE  NoMoreRuns(sq, [sq EXCEPT ![i] = e])
  <1>1. /\ DOMAIN [sq EXCEPT ![i] = e] = DOMAIN sq
        /\ \A j \in DOMAIN sq : [sq EXCEPT ![i] = e][j].type = "RUN" =>
             sq[j].type = "RUN" /\ sq[j].prog = [sq EXCEPT ![i] = e][j].prog
    OBVIOUS
  <1> QED
    BY <1>1 DEF NoMoreRuns, HasRun, OneRun

LEMMA RemoveOther ==
    ASSUME NEW sq \in Seq(WorkUnit), NEW i \in 1..Len(sq) PROVE NoMoreRuns(sq, RemoveAt(sq, i))
  <1> DEFINE From(j) == IF j < i THEN j ELSE j + 1
  <1>1. \A j \in DOMAIN RemoveAt(sq, i) : /\ j \in Nat /\ From(j) \in DOMAIN sq
                                          /\ RemoveAt(sq, i)[j] = sq[From(j)]
    <2>1. i \in DOMAIN sq /\ Len(sq) \in Nat /\ DOMAIN sq = 1..Len(sq)
      OBVIOUS
    <2>2. /\ \A n \in 1..i - 1 : RemoveAt(sq, i)[n] = sq[n]
          /\ \A n \in i..Len(sq) - 1 : RemoveAt(sq, i)[n] = sq[n + 1]
          /\ DOMAIN RemoveAt(sq, i) = 1..Len(sq) - 1
      BY <2>1, RemoveAtFacts
    <2>3. SUFFICES ASSUME NEW j \in 1..Len(sq) - 1
                   PROVE  From(j) \in 1..Len(sq) /\ RemoveAt(sq, i)[j] = sq[From(j)]
      BY <2>1, <2>2
    <2>4. CASE j < i
      BY <2>1, <2>2, <2>4
    <2>5. CASE j >= i
      BY <2>1, <2>2, <2>5
    <2> QED
      BY <2>1, <2>4, <2>5
  <1>2. \A j, k \in DOMAIN RemoveAt(sq, i) : From(j) = From(k) => j = k
    BY <1>1
  <1> HIDE DEF From
  <1> QED
    BY <1>1, <1>2 DEF NoMoreRuns, HasRun, OneRun

(* One RUN unit more, where there was none.                                *)
LEMMA AppendRun ==
    ASSUME NEW sq \in Seq(WorkUnit), NEW p, NEW d, ~HasRun(sq, p)
    PROVE  OneRun(Append(sq, Unit("RUN", p, d)), p)
  <1>1. \A i \in DOMAIN Append(sq, Unit("RUN", p, d)) :
           \/ i = Len(sq) + 1
           \/ i \in DOMAIN sq /\ Append(sq, Unit("RUN", p, d))[i] = sq[i]
    OBVIOUS
  <1> QED
    BY <1>1 DEF HasRun, OneRun

LEMMA AppendRunOther ==
    ASSUME NEW sq \in Seq(WorkUnit), NEW p, NEW d, NEW q, q # p
    PROVE  LET sq2 == Append(sq, Unit("RUN", p, d))
           IN  (HasRun(sq2, q) => HasRun(sq, q)) /\ (OneRun(sq, q) => OneRun(sq2, q))
  <1>1. \A i \in DOMAIN Append(sq, Unit("RUN", p, d)) :
           \/ Append(sq, Unit("RUN", p, d))[i].prog = p
           \/ i \in DOMAIN sq /\ Append(sq, Unit("RUN", p, d))[i] = sq[i]
    BY DEF Unit
  <1> QED
    BY <1>1 DEF HasRun, OneRun

-----------------------------------------------------------------------------
(* The tokens of a program p of scheduler s.                               *)

Remembered(s, p) == \E k \in Pids : running[s][k] = p
Queued(s, p) == HasRun(schedule[s], p)
Pending(s, p) == pc[s] = "act" /\ job[s].self = p /\ HasStart(job[s].todo)

OneToken(s, p) ==
    /\ \A j, k \in Pids : running[s][j] = p /\ running[s][k] = p => j = k
    /\ OneRun(schedule[s], p)
    /\ ~(Remembered(s, p) /\ Queued(s, p))
    /\ ~(Remembered(s, p) /\ Pending(s, p))
    /\ ~(Queued(s, p) /\ Pending(s, p))

(* What has been spent when p has a token: one start for each command that *)
(* the sequence is past, and MaxStarts before them.                        *)
Budget(s, p) ==
    MaxStarts[p] # -1 =>
        /\ starts[p] <= MaxStarts[p] + SeqLen[p]
        /\ Remembered(s, p) => starts[p] <= MaxStarts[p] + seq_idx[p] + 1
        /\ Queued(s, p) => starts[p] <= MaxStarts[p] + seq_idx[p]
        /\ Pending(s, p) /\ ~job[s].lim => starts[p] <= MaxStarts[p] + seq_idx[p]

BudgetOK(s, p) == OneToken(s, p) /\ Budget(s, p)

BudgetInv == \A s \in Schedulers : \A p \in Range(Progs[s]) : BudgetOK(s, p)

(* A step in which p wins nothing.                                         *)
NoGain(s, p) ==
    /\ starts'[p] = starts[p] /\ seq_idx'[p] = seq_idx[p]
    /\ \A k \in Pids : running'[s][k] = p => running[s][k] = p
    /\ HasRun(schedule'[s], p) => HasRun(schedule[s], p)
    /\ OneRun(schedule[s], p) => OneRun(schedule'[s], p)
    /\ Pending(s, p)' => Pending(s, p) /\ job'[s].lim = job[s].lim

LEMMA NoGainKeeps ==
    ASSUME NEW s, NEW p, BudgetOK(s, p), NoGain(s, p) PROVE BudgetOK(s, p)'
  <1>1. Remembered(s, p)' => Remembered(s, p)
    BY DEF NoGain, Remembered
  <1>2. Queued(s, p)' => Queued(s, p)
    BY DEF NoGain, Queued
  <1>3. Pending(s, p)' => Pending(s, p) /\ job'[s].lim = job[s].lim
    BY DEF NoGain
  <1>4. OneToken(s, p)'
    BY <1>1, <1>2, <1>3 DEF BudgetOK, NoGain, OneToken
  <1>5. Budget(s, p)'
    BY <1>1, <1>2, <1>3 DEF BudgetOK, NoGain, Budget
  <1> QED
    BY <1>4, <1>5 DEF BudgetOK

(* The programs of the other schedulers are not touched.                   *)
LEMMA OtherNoGain ==
    ASSUME TypeOK, NEW t \in Schedulers, NEW s \in Schedulers \ {t}, NEW p \in Range(Progs[s]),
           starts' = starts \/ \E q \in Range(Progs[t]) : \E n : starts' = [starts EXCEPT ![q] = n],
           seq_idx' = seq_idx \/ \E q \in Range(Progs[t]) : \E n : seq_idx' = [seq_idx EXCEPT ![q] = n],
           running' = running \/ \E r : running' = [running EXCEPT ![t] = r],
           schedule' = schedule \/ \E sq : SetSchedule(t, sq),
           job' = job \/ \E j : job' = [job EXCEPT ![t] = j],
           pc' = pc \/ \E l : Goto(t, l)
    PROVE  NoGain(s, p)
  <1> USE DEF TypeOK, ProgramTypeOK, SharedTypeOK, ThreadTypeOK
  <1>1. p \in Programs /\ p \notin Range(Progs[t])
    BY SchedulerAssumption, ProgsType
  <1>2. starts'[p] = starts[p] /\ seq_idx'[p] = seq_idx[p]
    BY <1>1
  <1>3. running'[s] = running[s] /\ schedule'[s] = schedule[s] /\ job'[s] = job[s] /\ pc'[s] = pc[s]
    BY DEF SetSchedule, Goto
  <1> QED
    BY <1>2, <1>3 DEF NoGain, Pending

(* Steps that start nothing and decide nothing.                            *)
QuietStep(t) ==
    /\ UNCHANGED <<starts, seq_idx, job>>
    /\ running' = running \/ \E k \in Pids : running' = Unregister(t, k)
    /\ schedule' = schedule \/ \E sq : SetSchedule(t, sq) /\ NoMoreRuns(schedule[t], sq)
    /\ pc' = pc \/ \E l \in Labels \ {"act"} : Goto(t, l)

LEMMA QuietNoGain ==
    ASSUME TypeOK, NEW t \in Schedulers, QuietStep(t), NEW s \in Schedulers, NEW p \in Range(Progs[s])
    PROVE  NoGain(s, p)
  <1> USE DEF TypeOK, SharedTypeOK, ThreadTypeOK
  <1>1. p \in Programs
    BY ProgsType
  <1>2. \A k \in Pids : running'[s][k] = p => running[s][k] = p
    <2>1. ASSUME NEW j \in Pids, running' = Unregister(t, j), NEW k \in Pids, running'[s][k] = p
          PROVE  running[s][k] = p
      BY <1>1, <2>1, KernelAssumption DEF Unregister
    <2> QED
      BY <2>1 DEF QuietStep
  <1>3. NoMoreRuns(schedule[s], schedule'[s])
    BY DEF QuietStep, SetSchedule, NoMoreRuns
  <1>4. pc'[s] = "act" => pc[s] = "act"
    BY DEF QuietStep, Goto
  <1> QED
    BY <1>2, <1>3, <1>4 DEF QuietStep, NoMoreRuns, NoGain, Pending

LEMMA QuietSteps ==
    ASSUME TypeOK, NEW t \in Schedulers, Thread(t), ~DoRun(t), ~ActStep(t),
           \A k \in Pids : ~ReapChild(t, k)
    PROVE  QuietStep(t)
  <1> USE DEF TypeOK
  <1>1. CASE \/ StartPass(t) \/ LeaveLoop(t) \/ NotYet(t) \/ PassDone(t) \/ EraseDone(t) \/ CheckLimit(t)
             \/ LimitsDone(t) \/ ReapUnknown(t) \/ ReapNone(t) \/ ReapDone(t)
    BY <1>1 DEF StartPass, LeaveLoop, NotYet, PassDone, EraseDone, CheckLimit, LimitsDone, ReapUnknown,
                ReapNone, ReapDone, programVars, sharedVars, QuietStep, Labels
  <1>2. CASE DoExit(t) \/ DoEnd(t) \/ DoNoStart(t)
    <2>1. InPass(t) /\ SetSchedule(t, MarkUsed(t))
      BY <1>2 DEF DoExit, DoEnd, DoNoStart
    <2>2. schedule[t] \in Seq(WorkUnit) /\ ix[t] \in DOMAIN schedule[t]
      BY <2>1, UnitType DEF SharedTypeOK
    <2>3. NoMoreRuns(schedule[t], MarkUsed(t))
      BY <2>2, ExceptOther DEF MarkUsed, Used, Unit
    <2> QED
      BY <1>2, <2>1, <2>3 DEF DoExit, DoEnd, DoNoStart, programVars, QuietStep
  <1>3. CASE Erase(t)
    <2>1. schedule[t] \in Seq(WorkUnit) /\ ix[t] \in 1..Len(schedule[t])
      BY <1>3, UnitType DEF Erase, SharedTypeOK
    <2>2. NoMoreRuns(schedule[t], RemoveAt(schedule[t], ix[t]))
      BY <2>1, RemoveOther
    <2> QED
      BY <1>3, <2>2 DEF Erase, programVars, QuietStep
  <1>4. CASE \/ SendStop(t) \/ StopsSent(t) \/ NextRound(t) \/ StopWaiting(t)
             \/ WaitUnknown(t) \/ WaitNobody(t) \/ RoundDone(t) \/ SendKill(t) \/ KillsSent(t)
             \/ LastUnknown(t) \/ LastNobody(t) \/ GiveUp(t)
    BY <1>4 DEF SendStop, StopsSent, NextRound, StopWaiting, WaitUnknown, WaitNobody, RoundDone, SendKill,
                KillsSent, LastUnknown, LastNobody, GiveUp, BecomeReady, programVars, sharedVars, QuietStep,
                Labels
  <1>5. CASE WaitDeath(t) \/ LastDeath(t)
    <2>1. \E k \in Pids : running' = Unregister(t, k)
      BY <1>5 DEF WaitDeath, LastDeath, CountDeath, Reapable
    <2> QED
      BY <1>5, <2>1 DEF WaitDeath, LastDeath, QuietStep
  <1> QED
    BY <1>1, <1>2, <1>3, <1>4, <1>5 DEF Thread, ActStep

-----------------------------------------------------------------------------
(* The steps that start and decide.                                        *)

BudgetKept == \A s \in Schedulers : \A p \in Range(Progs[s]) : BudgetOK(s, p)'

(* A start uses the token of its program up.                               *)
LEMMA LaunchSpends ==
    ASSUME TypeOK, NEW t \in Schedulers, NEW q \in Range(Progs[t]), BudgetOK(t, q),
           Queued(t, q) \/ (Pending(t, q) /\ ~job[t].lim),
           NEW k \in Pids, running' = Register(t, k, q),
           starts' = [starts EXCEPT ![q] = CountedStart(q)], UNCHANGED seq_idx,
           ~Queued(t, q)', ~Pending(t, q)', OneRun(schedule'[t], q)
    PROVE  BudgetOK(t, q)'
  <1> USE DEF TypeOK, ProgramTypeOK, SharedTypeOK
  <1>1. q \in Programs
    BY ProgsType
  <1>2. \A j \in Pids : running'[t][j] = q => j = k
    <2>1. \A j \in Pids : running[t][j] # q
      BY DEF BudgetOK, OneToken, Remembered
    <2> QED
      BY <2>1 DEF Register
  <1>3. OneToken(t, q)'
    BY <1>2 DEF OneToken
  <1>4. ASSUME MaxStarts[q] # -1
        PROVE  starts'[q] <= MaxStarts[q] + seq_idx'[q] + 1 /\ starts'[q] <= MaxStarts[q] + SeqLen[q]
    <2>1. starts[q] <= MaxStarts[q] + seq_idx[q]
      BY <1>4 DEF BudgetOK, Budget
    <2>2. starts'[q] <= starts[q] + 1 /\ starts'[q] \in Nat
      BY <1>1 DEF CountedStart
    <2>3. MaxStarts[q] \in Nat /\ SeqLen[q] \in Nat /\ seq_idx[q] \in Nat /\ seq_idx[q] < SeqLen[q]
      BY <1>1, <1>4, ProgramAssumption
    <2> QED
      BY <1>1, <2>1, <2>2, <2>3
  <1> QED
    BY <1>3, <1>4 DEF BudgetOK, Budget

(* Nobody else wins anything by it.                                        *)
LEMMA LaunchOthers ==
    ASSUME TypeOK, NEW t \in Schedulers, NEW q \in Range(Progs[t]), NEW k \in Pids,
           running' = Register(t, k, q), starts' = [starts EXCEPT ![q] = CountedStart(q)],
           UNCHANGED <<seq_idx, pc>>, NEW sq, SetSchedule(t, sq), NoMoreRuns(schedule[t], sq),
           job' = job \/ (job[t].self = q /\ \E j : job' = [job EXCEPT ![t] = j]),
           job'[t].self = job[t].self,
           NEW s \in Schedulers, NEW p \in Range(Progs[s]), p # q
    PROVE  NoGain(s, p)
  <1> USE DEF TypeOK, ProgramTypeOK, SharedTypeOK, ThreadTypeOK
  <1>1. CASE s # t
    BY <1>1, OtherNoGain DEF Register
  <1>2. CASE s = t
    <2>1. p \in Programs
      BY ProgsType
    <2>2. starts'[p] = starts[p] /\ \A j \in Pids : running'[t][j] = p => running[t][j] = p
      BY <2>1 DEF Register
    <2>3. schedule'[t] = sq
      BY DEF SetSchedule
    <2>4. Pending(t, p)' => Pending(t, p) /\ job'[t].lim = job[t].lim
      BY DEF Pending
    <2> QED
      BY <1>2, <2>2, <2>3, <2>4 DEF NoGain, NoMoreRuns
  <1> QED
    BY <1>1, <1>2

LEMMA DoRunBudget ==
    ASSUME TypeOK, BudgetInv, NEW t \in Schedulers, DoRun(t) PROVE BudgetKept
  <1> USE DEF TypeOK, SharedTypeOK, ThreadTypeOK
  <1> DEFINE n == ix[t]
             sq == MarkUsed(t)
  <1>0. PICK q \in Range(Progs[t]) : q = UnitAt(t).prog
    BY UnitType DEF DoRun, UnitsOf
  <1>1. /\ schedule[t] \in Seq(WorkUnit) /\ n \in DOMAIN schedule[t]
        /\ schedule[t][n].type = "RUN" /\ schedule[t][n].prog = q
        /\ pc[t] = "pass"
    BY <1>0, UnitType DEF DoRun, UnitAt, InPass, At
  <1>2. sq \in Seq(WorkUnit) /\ NoMoreRuns(schedule[t], sq)
    <2>1. sq \in Seq(WorkUnit)
      BY UnitType, UnitFacts, SeqMonotonic DEF DoRun
    <2> QED
      BY <1>1, <2>1, ExceptOther DEF MarkUsed, Used, Unit
  <1>3. Run(t, q, sq) /\ UNCHANGED <<pc, job>>
    BY <1>0 DEF DoRun
  <1> HIDE DEF sq
  <1>4. CASE ~Launch(t, q, sq)
    <2>1. NoMoreRuns(schedule[t], Append(sq, ExitUnit))
      BY <1>2, AppendOther DEF ExitUnit, Unit, NoMoreRuns
    <2>2. QuietStep(t)
      BY <1>2, <1>3, <1>4, <2>1 DEF Run, AlreadyRunning, ForkFails, CannotRun, NoLogFile, programVars, QuietStep
    <2> QED
      BY <2>2, QuietNoGain, NoGainKeeps DEF BudgetInv, BudgetKept
  <1>5. CASE Launch(t, q, sq)
    <2>1. PICK k \in Pids : running' = Register(t, k, q)
      BY <1>5 DEF Launch, FreePids
    <2>2. /\ starts' = [starts EXCEPT ![q] = CountedStart(q)]
          /\ SetSchedule(t, sq) /\ UNCHANGED <<seq_idx, pc>>
      BY <1>3, <1>5 DEF Launch
    <2>3. BudgetOK(t, q)
      BY DEF BudgetInv
    <2>4. HasRun(schedule[t], q) /\ ~HasRun(sq, q) /\ OneRun(sq, q)
      <3>1. OneRun(schedule[t], q)
        BY <2>3 DEF BudgetOK, OneToken
      <3>2. HasRun(schedule[t], q)
        BY <1>1 DEF HasRun
      <3>3. ~HasRun(sq, q)
        <4>1. \A i \in DOMAIN schedule[t] : i # n => ~(schedule[t][i].type = "RUN" /\ schedule[t][i].prog = q)
          BY <1>1, <3>1 DEF OneRun
        <4>2. /\ DOMAIN sq = DOMAIN schedule[t]
              /\ sq[n].type # "RUN"
              /\ \A i \in DOMAIN schedule[t] : i # n => sq[i] = schedule[t][i]
          BY <1>1 DEF sq, MarkUsed, Used, Unit
        <4> QED
          BY <4>1, <4>2 DEF HasRun
      <3> QED
        BY <1>2, <3>1, <3>2, <3>3 DEF NoMoreRuns
    <2>5. schedule'[t] = sq
      BY <2>2 DEF SetSchedule
    <2>6. BudgetOK(t, q)'
      BY <1>1, <2>1, <2>2, <2>3, <2>4, <2>5, LaunchSpends DEF Queued, Pending
    <2>7. ASSUME NEW s \in Schedulers, NEW p \in Range(Progs[s]), p # q PROVE NoGain(s, p)
      BY <1>2, <1>3, <2>1, <2>2, <2>7, LaunchOthers
    <2>8. ASSUME NEW s \in Schedulers, NEW p \in Range(Progs[s]) PROVE BudgetOK(s, p)'
      <3>1. CASE p = q
        <4>1. s = t
          BY <3>1, SchedulerAssumption
        <4> QED
          BY <2>6, <3>1, <4>1
      <3>2. CASE p # q
        BY <2>7, <3>2, NoGainKeeps DEF BudgetInv
      <3> QED
        BY <3>1, <3>2
    <2> QED
      BY <2>8 DEF BudgetKept
  <1> QED
    BY <1>4, <1>5

LEMMA SmallMod == ASSUME NEW a \in Nat, NEW n \in Nat, a < n PROVE a % n = a
  OBVIOUS

(* A death uses the entry of its program in the map up, and gives back one *)
(* token at most: the next command of the sequence or the actions.         *)
LEMMA ReapSpends ==
    ASSUME TypeOK, NEW t \in Schedulers, NEW k \in Pids, ReapChild(t, k),
           NEW p \in Range(Progs[t]), running[t][k] = p, BudgetOK(t, p)
    PROVE  BudgetOK(t, p)'
  <1> USE DEF TypeOK, ProgramTypeOK, SharedTypeOK, ThreadTypeOK
  <1>1. p \in Programs /\ p # NoProg
    BY ProgsType, KernelAssumption
  <1>2. /\ Remembered(t, p) /\ ~Queued(t, p) /\ OneRun(schedule[t], p)
        /\ \A j \in Pids : running[t][j] = p => j = k
    BY DEF BudgetOK, OneToken, Remembered
  <1>3. pc[t] = "reap" /\ UNCHANGED starts /\ WhatNext(t, p, kid[k].status)
    BY DEF ReapChild, InReap, At
  <1>4. \A j \in Pids : running'[t][j] # p
    BY <1>1, <1>2 DEF ReapChild, Unregister
  <1>5. /\ seq_idx[p] \in Nat /\ seq_idx[p] < SeqLen[p] /\ SeqLen[p] \in Nat
        /\ starts[p] \in Nat
        /\ MaxStarts[p] # -1 => /\ MaxStarts[p] \in Nat
                                /\ starts[p] <= MaxStarts[p] + seq_idx[p] + 1
                                /\ starts[p] <= MaxStarts[p] + SeqLen[p]
    BY <1>1, <1>2, ProgramAssumption DEF BudgetOK, Budget
  <1>6. CASE UNCHANGED <<schedule, pc, job>>
    <2>1. ~Queued(t, p)' /\ ~Pending(t, p)' /\ OneRun(schedule'[t], p)
      BY <1>2, <1>3, <1>6 DEF Queued, Pending
    <2> QED
      BY <1>3, <1>4, <1>5, <2>1 DEF BudgetOK, OneToken, Budget, Remembered
  <1>7. CASE /\ ~LastInSequence(p) /\ seq_idx' = [seq_idx EXCEPT ![p] = NextSeqIdx(p)]
             /\ SetSchedule(t, Append(schedule[t], Unit("RUN", p, TRUE)))
             /\ UNCHANGED <<pc, job>>
    <2>1. schedule'[t] = Append(schedule[t], Unit("RUN", p, TRUE))
      BY <1>7 DEF SetSchedule
    <2>2. OneRun(schedule'[t], p)
      <3>1. schedule[t] \in Seq(WorkUnit) /\ ~HasRun(schedule[t], p)
        BY <1>2 DEF Queued
      <3>2. OneRun(Append(schedule[t], Unit("RUN", p, TRUE)), p)
        <4> HIDE DEF TypeOK, ProgramTypeOK, SharedTypeOK, ThreadTypeOK
        <4> QED
          BY <3>1, AppendRun
      <3> QED
        BY <2>1, <3>2
    <2>3. ~Pending(t, p)'
      BY <1>3, <1>7 DEF Pending
    <2>4. seq_idx'[p] = seq_idx[p] + 1
      <3>1. seq_idx[p] + 1 < SeqLen[p]
        <4>1. seq_idx[p] # SeqLen[p] - 1
          BY <1>7 DEF LastInSequence
        <4> QED
          BY <1>5, <4>1
      <3>2. (seq_idx[p] + 1) % SeqLen[p] = seq_idx[p] + 1
        BY <1>5, <3>1, SmallMod
      <3> QED
        BY <1>1, <1>7, <3>2 DEF NextSeqIdx
    <2>5. OneToken(t, p)'
      BY <1>4, <2>2, <2>3 DEF OneToken, Remembered
    <2>6. Budget(t, p)'
      BY <1>3, <1>4, <1>5, <2>3, <2>4 DEF Budget, Remembered
    <2> QED
      BY <2>5, <2>6 DEF BudgetOK
  <1>8. CASE /\ seq_idx' = [seq_idx EXCEPT ![p] = NextSeqIdx(p)]
             /\ job'[t].lim = LimitReached(p) /\ UNCHANGED schedule
    <2>1. ~Queued(t, p)' /\ OneRun(schedule'[t], p)
      BY <1>2, <1>8 DEF Queued
    <2>2. seq_idx'[p] \in Nat
      BY <1>1, <1>8, NextSeqIdxType
    <2>3. ~LimitReached(p) /\ MaxStarts[p] # -1 => starts[p] <= MaxStarts[p]
      BY <1>5 DEF LimitReached
    <2>4. OneToken(t, p)'
      BY <1>4, <2>1 DEF OneToken, Remembered
    <2>5. Budget(t, p)'
      BY <1>3, <1>4, <1>5, <1>8, <2>1, <2>2, <2>3 DEF Budget, Remembered
    <2> QED
      BY <2>4, <2>5 DEF BudgetOK
  <1>9. \/ UNCHANGED <<schedule, pc, job>>
        \/ /\ ~LastInSequence(p) /\ seq_idx' = [seq_idx EXCEPT ![p] = NextSeqIdx(p)]
           /\ SetSchedule(t, Append(schedule[t], Unit("RUN", p, TRUE)))
           /\ UNCHANGED <<pc, job>>
        \/ /\ seq_idx' = [seq_idx EXCEPT ![p] = NextSeqIdx(p)]
           /\ job'[t].lim = LimitReached(p) /\ UNCHANGED schedule
    <2>1. CASE stop_mode[p] = 1
      BY <1>3, <2>1 DEF WhatNext
    <2>2. CASE stop_mode[p] # 1 /\ ~LastInSequence(p)
      BY <1>3, <2>2 DEF WhatNext
    <2>3. CASE stop_mode[p] # 1 /\ LastInSequence(p) /\ ~HasActions(p, kid[k].status)
      BY <1>3, <2>3 DEF WhatNext
    <2>4. CASE stop_mode[p] # 1 /\ LastInSequence(p) /\ HasActions(p, kid[k].status)
      <3>1. /\ seq_idx' = [seq_idx EXCEPT ![p] = NextSeqIdx(p)] /\ UNCHANGED schedule
            /\ job' = [job EXCEPT ![t] = [self |-> p, todo |-> ActionsFor(p, kid[k].status),
                                         lim |-> LimitReached(p)]]
        BY <1>3, <2>4 DEF WhatNext
      <3> QED
        BY <3>1
    <2> QED
      BY <2>1, <2>2, <2>3, <2>4
  <1> QED
    BY <1>6, <1>7, <1>8, <1>9

LEMMA ReapOthers ==
    ASSUME TypeOK, NEW t \in Schedulers, NEW k \in Pids, ReapChild(t, k),
           NEW p \in Range(Progs[t]), running[t][k] = p,
           NEW s \in Schedulers, NEW q \in Range(Progs[s]), q # p
    PROVE  NoGain(s, q)
  <1> USE DEF TypeOK, ProgramTypeOK, SharedTypeOK, ThreadTypeOK
  <1>1. q \in Programs /\ p \in Programs
    BY ProgsType
  <1>2. /\ UNCHANGED starts /\ pc[t] = "reap" /\ WhatNext(t, p, kid[k].status)
        /\ running' = Unregister(t, k)
    BY DEF ReapChild, InReap, At
  <1>3. seq_idx' = seq_idx \/ seq_idx' = [seq_idx EXCEPT ![p] = NextSeqIdx(p)]
    BY <1>2 DEF WhatNext
  <1>4. schedule' = schedule \/ SetSchedule(t, Append(schedule[t], Unit("RUN", p, TRUE)))
    BY <1>2 DEF WhatNext
  <1>5. UNCHANGED <<pc, job>> \/ (/\ Goto(t, "act")
                                 /\ \E j : j.self = p /\ job' = [job EXCEPT ![t] = j])
    BY <1>2 DEF WhatNext
  <1>6. CASE s # t
    <2>1. schedule' = schedule \/ \E sq : SetSchedule(t, sq)
      BY <1>4
    <2>2. running' = running \/ \E r : running' = [running EXCEPT ![t] = r]
      BY <1>2 DEF Unregister
    <2>3. job' = job \/ \E j : job' = [job EXCEPT ![t] = j]
      BY <1>5
    <2>4. pc' = pc \/ \E l : Goto(t, l)
      BY <1>5
    <2>5. seq_idx' = seq_idx \/ \E r \in Range(Progs[t]) : \E n : seq_idx' = [seq_idx EXCEPT ![r] = n]
      BY <1>3
    <2> QED
      BY <1>2, <1>6, <2>1, <2>2, <2>3, <2>4, <2>5, OtherNoGain
  <1>7. CASE s = t
    <2>1. starts'[q] = starts[q] /\ seq_idx'[q] = seq_idx[q]
      BY <1>1, <1>2, <1>3
    <2>2. \A j \in Pids : running'[t][j] = q => running[t][j] = q
      BY <1>1, <1>2, KernelAssumption DEF Unregister
    <2>3. /\ HasRun(schedule'[t], q) => HasRun(schedule[t], q)
          /\ OneRun(schedule[t], q) => OneRun(schedule'[t], q)
      <3>1. \/ schedule' = schedule
            \/ schedule'[t] = Append(schedule[t], Unit("RUN", p, TRUE))
        BY <1>4 DEF SetSchedule
      <3>2. schedule[t] \in Seq(WorkUnit)
        OBVIOUS
      <3>3. LET sq == Append(schedule[t], Unit("RUN", p, TRUE))
            IN  (HasRun(sq, q) => HasRun(schedule[t], q)) /\ (OneRun(schedule[t], q) => OneRun(sq, q))
        BY <3>2, AppendRunOther
      <3>4. CASE schedule' = schedule
        BY <3>4
      <3>5. CASE schedule'[t] = Append(schedule[t], Unit("RUN", p, TRUE))
        BY <3>3, <3>5
      <3> QED
        BY <3>1, <3>4, <3>5
    <2>4. ~Pending(t, q)'
      BY <1>2, <1>5 DEF Pending
    <2> QED
      BY <1>7, <2>1, <2>2, <2>3, <2>4 DEF NoGain
  <1> QED
    BY <1>6, <1>7

LEMMA ReapBudget ==
    ASSUME TypeOK, BudgetInv, NEW t \in Schedulers, NEW k \in Pids, ReapChild(t, k) PROVE BudgetKept
  <1>1. PICK p \in Range(Progs[t]) : p = running[t][k]
    BY DEF TypeOK, SharedTypeOK, ReapChild
  <1>2. BudgetOK(t, p)'
    BY <1>1, ReapSpends DEF BudgetInv
  <1>3. ASSUME NEW s \in Schedulers, NEW q \in Range(Progs[s]) PROVE BudgetOK(s, q)'
    <2>1. CASE q = p
      <3>1. s = t
        BY <2>1, SchedulerAssumption
      <3> QED
        BY <1>2, <2>1, <3>1
    <2>2. CASE q # p
      <3>1. NoGain(s, q)
        BY <1>1, <2>2, ReapOthers
      <3> QED
        BY <3>1, NoGainKeeps DEF BudgetInv
    <2> QED
      BY <2>1, <2>2
  <1> QED
    BY <1>3 DEF BudgetKept

(* The first action of the list is done, or skipped, and nothing else.     *)
LEMMA SkipNoGain ==
    ASSUME TypeOK, JobsOwn, NEW t \in Schedulers, InActions(t), NextAction(t),
           UNCHANGED <<starts, seq_idx, running, pc>>,
           schedule' = schedule \/ \E sq : SetSchedule(t, sq) /\ NoMoreRuns(schedule[t], sq),
           NEW s \in Schedulers, NEW p \in Range(Progs[s])
    PROVE  NoGain(s, p)
  <1> USE DEF TypeOK, SharedTypeOK, ThreadTypeOK
  <1>1. NoMoreRuns(schedule[s], schedule'[s])
    BY DEF SetSchedule, NoMoreRuns
  <1>2. CASE s # t
    BY <1>2, OtherNoGain DEF NextAction
  <1>3. CASE s = t
    <2>1. job[t].todo \in Seq(Action) /\ job[t].todo # << >> /\ OwnStart(job[t].self, job[t].todo)
      BY DEF InActions, At, JobsOwn, Job
    <2>2. HasStart(Tail(job[t].todo)) => HasStart(job[t].todo)
      BY <2>1, TailStart
    <2>3. job'[t].self = job[t].self /\ job'[t].lim = job[t].lim /\ job'[t].todo = Tail(job[t].todo)
      BY DEF NextAction
    <2>4. Pending(t, p)' => Pending(t, p)
      BY <2>2, <2>3 DEF Pending
    <2> QED
      BY <1>1, <1>3, <2>3, <2>4 DEF NoGain, NoMoreRuns
  <1> QED
    BY <1>2, <1>3

(* A <start/> that is not skipped is one of the program itself.            *)
LEMMA StartOfSelf ==
    ASSUME TypeOK, JobsOwn, NEW t \in Schedulers, InActions(t), ActionAt(t).type = "start"
    PROVE  /\ TargetAt(t) = job[t].self
           /\ Pending(t, job[t].self)
           /\ ~HasStart(Tail(job[t].todo))
  <1>1. /\ job[t].todo \in Seq(Action) /\ job[t].todo # << >>
        /\ pc[t] = "act" /\ OwnStart(job[t].self, job[t].todo)
    BY DEF TypeOK, ThreadTypeOK, InActions, At, JobsOwn, Job
  <1>2. ActionAt(t).prog \in {NoProg, job[t].self}
    BY <1>1, TailFacts DEF OwnStart, ActionAt
  <1>3. NoProg \notin Range(Progs[t])
    BY KernelAssumption, ProgsType
  <1>4. HasStart(job[t].todo) /\ ~HasStart(Tail(job[t].todo))
    BY <1>1, TailStart DEF ActionAt
  <1> QED
    BY <1>1, <1>2, <1>3, <1>4 DEF TargetAt, Target, Pending

LEMMA ActBudget ==
    ASSUME TypeOK, JobsOwn, BudgetInv, NEW t \in Schedulers, ActStep(t) PROVE BudgetKept
  <1> USE DEF TypeOK, SharedTypeOK, ThreadTypeOK
  <1>0. /\ schedule[t] \in Seq(WorkUnit)
        /\ pc[t] = "act"
        /\ job[t].self \in Range(Progs[t])
    BY DEF ActStep, ActStartNow, ActQueue, ActSkip, ActDone, InActions, At
  <1>1. CASE ActSkip(t)
    <2>1. ASSUME NEW s \in Schedulers, NEW p \in Range(Progs[s]) PROVE NoGain(s, p)
      BY <1>1, SkipNoGain DEF ActSkip, programVars, sharedVars
    <2> QED
      BY <2>1, NoGainKeeps DEF BudgetInv, BudgetKept
  <1>2. CASE ActDone(t)
    <2>1. ASSUME NEW s \in Schedulers, NEW p \in Range(Progs[s]) PROVE NoGain(s, p)
      BY <1>2 DEF ActDone, Goto, programVars, NoGain, Pending
    <2> QED
      BY <2>1, NoGainKeeps DEF BudgetInv, BudgetKept
  <1>3. CASE ActQueue(t) /\ ActionAt(t).type # "start"
    <2>1. PICK e : e.type \in {"END", "EXIT"} /\ SetSchedule(t, Append(schedule[t], e))
      BY <1>3 DEF ActQueue, ExitUnit, Unit
    <2>2. NoMoreRuns(schedule[t], Append(schedule[t], e))
      BY <1>0, <2>1, AppendOther
    <2>3. ASSUME NEW s \in Schedulers, NEW p \in Range(Progs[s]) PROVE NoGain(s, p)
      BY <1>3, <2>1, <2>2, SkipNoGain DEF ActQueue, programVars
    <2> QED
      BY <2>3, NoGainKeeps DEF BudgetInv, BudgetKept
  <1>4. CASE ActQueue(t) /\ ActionAt(t).type = "start"
    <2>1. PICK q \in Range(Progs[t]) : q = job[t].self
      BY <1>0
    <2>2. TargetAt(t) = q /\ Pending(t, q) /\ ~HasStart(Tail(job[t].todo)) /\ InActions(t)
      BY <1>4, <2>1, StartOfSelf DEF ActQueue
    <2>3. ~job[t].lim
      BY <1>4, <2>1, <2>2 DEF ActQueue, SkippedStart
    <2>4. PICK d : SetSchedule(t, Append(schedule[t], Unit("RUN", q, d)))
      BY <1>4, <2>2 DEF ActQueue
    <2>5. /\ UNCHANGED <<starts, seq_idx, running, pc>>
          /\ job' = [job EXCEPT ![t] = [self |-> q, todo |-> Tail(job[t].todo), lim |-> FALSE]]
      <3>1. UNCHANGED <<starts, seq_idx, running, pc>> /\ NextAction(t)
        BY <1>4 DEF ActQueue, programVars
      <3>2. job[t].lim = FALSE
        BY <2>3 DEF Job
      <3> QED
        BY <2>1, <3>1, <3>2 DEF NextAction
    <2>6. schedule'[t] = Append(schedule[t], Unit("RUN", q, d))
      BY <2>4 DEF SetSchedule
    <2>7. BudgetOK(t, q)
      BY DEF BudgetInv
    <2>8. BudgetOK(t, q)'
      <3>1. ~Pending(t, q)'
        BY <2>2, <2>5 DEF Pending
      <3>2. OneRun(schedule'[t], q)
        BY <1>0, <2>2, <2>6, <2>7, AppendRun DEF BudgetOK, OneToken, Queued
      <3>3. ~Remembered(t, q)'
        BY <2>2, <2>5, <2>7 DEF BudgetOK, OneToken, Remembered
      <3>4. OneToken(t, q)'
        BY <2>5, <2>7, <3>1, <3>2, <3>3 DEF BudgetOK, OneToken
      <3>5. Budget(t, q)'
        BY <2>2, <2>3, <2>5, <2>7, <3>1, <3>3 DEF BudgetOK, Budget
      <3> QED
        BY <3>4, <3>5 DEF BudgetOK
    <2>9. ASSUME NEW s \in Schedulers, NEW p \in Range(Progs[s]), p # q PROVE NoGain(s, p)
      <3>1. CASE s # t
        BY <2>4, <2>5, <3>1, OtherNoGain
      <3>2. CASE s = t
        <4>1. ~Pending(t, p)'
          BY <2>5, <2>9 DEF Pending
        <4>2. /\ HasRun(schedule'[t], p) => HasRun(schedule[t], p)
              /\ OneRun(schedule[t], p) => OneRun(schedule'[t], p)
          BY <1>0, <2>6, <2>9, AppendRunOther
        <4> QED
          BY <2>5, <3>2, <4>1, <4>2 DEF NoGain
      <3> QED
        BY <3>1, <3>2
    <2>10. ASSUME NEW s \in Schedulers, NEW p \in Range(Progs[s]) PROVE BudgetOK(s, p)'
      <3>1. p = q => s = t
        BY SchedulerAssumption
      <3> QED
        BY <2>8, <2>9, <3>1, NoGainKeeps DEF BudgetInv
    <2> QED
      BY <2>10 DEF BudgetKept
  <1>5. CASE ActStartNow(t)
    <2>1. PICK q \in Range(Progs[t]) : q = job[t].self
      BY <1>0
    <2>2. Pending(t, q) /\ ~HasStart(Tail(job[t].todo)) /\ InActions(t) /\ NextAction(t) /\ UNCHANGED pc
      BY <1>5, <2>1, StartOfSelf DEF ActStartNow
    <2>3. ~job[t].lim
      BY <1>5, <2>1 DEF ActStartNow, SkippedStart
    <2>4. Run(t, q, schedule[t])
      BY <1>5, <2>1 DEF ActStartNow
    <2>5. NoMoreRuns(schedule[t], schedule[t]) /\ NoMoreRuns(schedule[t], Append(schedule[t], ExitUnit))
      BY <1>0, AppendOther DEF ExitUnit, Unit, NoMoreRuns
    <2>6. CASE ~Launch(t, q, schedule[t])
      <3>1. /\ UNCHANGED <<starts, seq_idx, running, pc>>
            /\ \E sq : SetSchedule(t, sq) /\ NoMoreRuns(schedule[t], sq)
        BY <2>2, <2>4, <2>5, <2>6 DEF Run, AlreadyRunning, ForkFails, CannotRun, NoLogFile, programVars
      <3>2. ASSUME NEW s \in Schedulers, NEW p \in Range(Progs[s]) PROVE NoGain(s, p)
        BY <2>2, <3>1, SkipNoGain
      <3> QED
        BY <3>2, NoGainKeeps DEF BudgetInv, BudgetKept
    <2>7. CASE Launch(t, q, schedule[t])
      <3>1. PICK k \in Pids : running' = Register(t, k, q)
        BY <2>7 DEF Launch, FreePids
      <3>2. /\ starts' = [starts EXCEPT ![q] = CountedStart(q)]
            /\ SetSchedule(t, schedule[t]) /\ UNCHANGED <<seq_idx, pc>>
        BY <2>2, <2>7 DEF Launch
      <3>3. BudgetOK(t, q)
        BY DEF BudgetInv
      <3>4. schedule'[t] = schedule[t]
        BY <3>2 DEF SetSchedule
      <3>5. job'[t].self = q /\ job'[t].todo = Tail(job[t].todo)
        BY <2>1, <2>2 DEF NextAction
      <3>6. ~Queued(t, q)' /\ ~Pending(t, q)' /\ OneRun(schedule'[t], q)
        BY <2>2, <3>3, <3>4, <3>5 DEF BudgetOK, OneToken, Queued, Pending
      <3>7. BudgetOK(t, q)'
        BY <2>2, <2>3, <3>1, <3>2, <3>3, <3>6, LaunchSpends
      <3>8. ASSUME NEW s \in Schedulers, NEW p \in Range(Progs[s]), p # q PROVE NoGain(s, p)
        BY <2>1, <2>2, <2>5, <3>1, <3>2, <3>5, <3>8, LaunchOthers DEF NextAction
      <3>9. ASSUME NEW s \in Schedulers, NEW p \in Range(Progs[s]) PROVE BudgetOK(s, p)'
        <4>1. p = q => s = t
          BY SchedulerAssumption
        <4> QED
          BY <3>7, <3>8, <4>1, NoGainKeeps DEF BudgetInv
      <3> QED
        BY <3>9 DEF BudgetKept
    <2> QED
      BY <2>6, <2>7
  <1> QED
    BY <1>1, <1>2, <1>3, <1>4, <1>5 DEF ActStep
-----------------------------------------------------------------------------
(* The other steps.                                                        *)

LEMMA JobsOwnStep ==
    ASSUME OnlyOwnRestarts, TypeOK, JobsOwn, [Next]_vars PROVE JobsOwn'
  <1> USE DEF TypeOK, ThreadTypeOK
  <1>1. ASSUME UNCHANGED job, NEW t \in Schedulers, UNCHANGED pc \/ \E l \in Labels \ {"act"} : Goto(t, l)
        PROVE  JobsOwn'
    BY <1>1 DEF JobsOwn, Goto
  <1>2. ASSUME UNCHANGED <<job, pc>> PROVE JobsOwn'
    BY <1>2 DEF JobsOwn
  <1>3. ASSUME NEW t \in Schedulers, NEW k \in Pids, ReapChild(t, k) PROVE JobsOwn'
    <2>1. PICK p \in Range(Progs[t]) : p = running[t][k]
      BY <1>3 DEF SharedTypeOK, ReapChild
    <2>2. PICK st \in Status : st = kid[k].status
      BY DEF KernelTypeOK, Kid, KidRecord
    <2>3. WhatNext(t, p, st)
      BY <1>3, <2>1, <2>2 DEF ReapChild
    <2>4. CASE UNCHANGED <<pc, job>>
      BY <1>2, <2>4
    <2>5. CASE /\ HasActions(p, st) /\ Goto(t, "act")
               /\ job' = [job EXCEPT ![t] = [self |-> p, todo |-> ActionsFor(p, st),
                                            lim |-> LimitReached(p)]]
      <3>1. OwnStart(p, ActionsFor(p, st))
        BY <2>5, ActionsOwn, ProgsType
      <3>2. job'[t].self = p /\ job'[t].todo = ActionsFor(p, st)
        BY <2>5
      <3>3. \A s \in Schedulers \ {t} : pc'[s] = pc[s] /\ job'[s] = job[s]
        BY <2>5 DEF Goto
      <3> QED
        BY <3>1, <3>2, <3>3 DEF JobsOwn
    <2> QED
      BY <2>3, <2>4, <2>5 DEF WhatNext
  <1>4. ASSUME NEW t \in Schedulers, InActions(t), NextAction(t), UNCHANGED pc PROVE JobsOwn'
    <2>1. job[t].todo \in Seq(Action) /\ job[t].todo # << >> /\ OwnStart(job[t].self, job[t].todo)
      BY <1>4 DEF InActions, At, JobsOwn, Job
    <2>2. OwnStart(job[t].self, Tail(job[t].todo))
      BY <2>1, TailOwn
    <2>3. job'[t].self = job[t].self /\ job'[t].todo = Tail(job[t].todo)
      BY <1>4 DEF NextAction
    <2>4. \A s \in Schedulers \ {t} : job'[s] = job[s]
      BY <1>4 DEF NextAction
    <2> QED
      BY <1>4, <2>2, <2>3, <2>4 DEF JobsOwn
  <1>5. ASSUME NEW t \in Schedulers, ActStep(t) PROVE JobsOwn'
    <2>1. CASE ActDone(t)
      BY <2>1 DEF ActDone, Goto, JobsOwn
    <2> QED
      BY <1>4, <1>5, <2>1 DEF ActStep, ActStartNow, ActQueue, ActSkip
  <1>6. ASSUME NEW t \in Schedulers, Thread(t) PROVE JobsOwn'
    <2>1. CASE DoRun(t)
      BY <1>2, <2>1 DEF DoRun
    <2>2. CASE ~DoRun(t) /\ ~ActStep(t) /\ \A k \in Pids : ~ReapChild(t, k)
      <3>1. QuietStep(t)
        BY <1>6, <2>2, QuietSteps
      <3> QED
        BY <1>1, <3>1 DEF QuietStep
    <2> QED
      BY <1>3, <1>5, <2>1, <2>2
  <1> QED
    BY <1>2, <1>6, OthersFlow DEF Next, Terminated, threadVars

(* Without a <start/> command, nobody else starts anything.                *)
LEMMA OthersNoGain ==
    ASSUME OnlyOwnRestarts, TypeOK, Commands \/ World \/ UNCHANGED vars,
           NEW s \in Schedulers, NEW p \in Range(Progs[s])
    PROVE  NoGain(s, p)
  <1> USE DEF TypeOK, SharedTypeOK
  <1>1. UNCHANGED <<starts, seq_idx, running>>
    BY DEF Commands, CmdStart, CmdStop, CmdQuit, PushQuit, CmdQuitOne, CtrlC, World, KidEnds, KidIsKilled,
           Elapse, Tick, allButKid, programVars, sharedVars, vars
  <1>2. UNCHANGED <<pc, job>>
    BY OthersFlow DEF threadVars
  <1>3. schedule[s] \in Seq(WorkUnit) /\ NoMoreRuns(schedule[s], schedule[s])
    BY DEF NoMoreRuns
  <1>4. ASSUME NEW t \in Schedulers, NEW e, e.type # "RUN", SetSchedule(t, Append(schedule[t], e))
        PROVE  NoMoreRuns(schedule[s], schedule'[s])
    <2>1. NoMoreRuns(schedule[t], Append(schedule[t], e))
      BY <1>4, AppendOther
    <2> QED
      BY <1>3, <1>4, <2>1 DEF SetSchedule
  <1>5. CASE Commands
    <2>1. \A t \in Schedulers, q \in Programs : ~CmdStart(t, q)
      BY DEF CmdStart, SocketCommand, Command, OnlyOwnRestarts
    <2>2. ASSUME NEW t \in Schedulers, NEW q \in Programs, CmdStop(t, q)
          PROVE  NoMoreRuns(schedule[s], schedule'[s])
      <3>1. SetSchedule(t, Append(schedule[t], Unit("END", q, TRUE))) /\ Unit("END", q, TRUE).type # "RUN"
        BY <2>2 DEF CmdStop, Push, Unit
      <3> QED
        BY <1>4, <3>1
    <2>3. ExitUnit.type # "RUN"
      BY DEF ExitUnit, Unit
    <2>4. ASSUME NEW t \in Schedulers, PushQuit(t) \/ CmdQuitOne(t)
          PROVE  NoMoreRuns(schedule[s], schedule'[s])
      BY <1>4, <2>3, <2>4 DEF PushQuit, CmdQuitOne, Push
    <2>5. ASSUME CmdQuit PROVE NoMoreRuns(schedule[s], schedule'[s])
      BY <1>3, <2>5 DEF CmdQuit, sharedVars
    <2>6. ASSUME CtrlC PROVE NoMoreRuns(schedule[s], schedule'[s])
      BY <1>3, <2>6 DEF CtrlC
    <2>7. NoMoreRuns(schedule[s], schedule'[s])
      BY <1>5, <2>1, <2>2, <2>4, <2>5, <2>6 DEF Commands
    <2> QED
      BY <1>1, <1>2, <2>7 DEF NoMoreRuns, NoGain, Pending
  <1>6. CASE World \/ UNCHANGED vars
    <2>1. ASSUME NEW t \in Schedulers, NEW wu, Elapse(t, wu) PROVE NoMoreRuns(schedule[s], schedule'[s])
      <3>1. PICK i \in DOMAIN schedule[t] :
              /\ schedule[t][i] = wu
              /\ SetSchedule(t, [schedule[t] EXCEPT ![i] = Unit(wu.type, wu.prog, TRUE)])
        BY <2>1 DEF Elapse
      <3>2. PICK e : e = Unit(wu.type, wu.prog, TRUE)
        OBVIOUS
      <3>3. e.type = wu.type /\ e.prog = wu.prog
        BY <3>2 DEF Unit
      <3>4. NoMoreRuns(schedule[t], [schedule[t] EXCEPT ![i] = e])
        BY <3>1, <3>3, ExceptOther
      <3> QED
        BY <1>3, <3>1, <3>2, <3>4 DEF SetSchedule
    <2>2. NoMoreRuns(schedule[s], schedule'[s])
      BY <1>3, <1>6, <2>1 DEF World, KidEnds, KidIsKilled, Tick, allButKid, sharedVars, vars
    <2> QED
      BY <1>1, <1>2, <2>2 DEF NoMoreRuns, NoGain, Pending
  <1> QED
    BY <1>5, <1>6

LEMMA BudgetStep ==
    ASSUME OnlyOwnRestarts, TypeOK, JobsOwn, BudgetInv, [Next]_vars PROVE BudgetInv'
  <1>1. ASSUME NEW t \in Schedulers, Thread(t) PROVE BudgetKept
    <2>1. CASE ~DoRun(t) /\ ~ActStep(t) /\ \A k \in Pids : ~ReapChild(t, k)
      <3>1. QuietStep(t)
        BY <1>1, <2>1, QuietSteps
      <3> QED
        BY <3>1, QuietNoGain, NoGainKeeps DEF BudgetInv, BudgetKept
    <2> QED
      BY <2>1, DoRunBudget, ActBudget, ReapBudget
  <1>2. ASSUME Commands \/ World \/ UNCHANGED vars PROVE BudgetKept
    BY <1>2, OthersNoGain, NoGainKeeps DEF BudgetInv, BudgetKept
  <1>3. BudgetKept
    BY <1>1, <1>2 DEF Next, Terminated
  <1> QED
    BY <1>3 DEF BudgetKept, BudgetInv

LEMMA BudgetStart == ASSUME OnlyOwnRestarts, Init PROVE JobsOwn /\ BudgetInv
  <1> USE DEF Init, Prepared, ProgramInit
  <1>1. JobsOwn
    BY DEF JobsOwn
  <1>2. ASSUME NEW s \in Schedulers, NEW p \in Range(Progs[s]) PROVE BudgetOK(s, p)
    <2>1. p \in Programs /\ p # NoProg
      BY ProgsType, KernelAssumption
    <2>2. \A k \in Pids : running[s][k] # p
      BY <2>1
    <2>3. ~Pending(s, p)
      BY DEF Pending
    <2>4. OneRun(schedule[s], p)
      BY DEF OnlyOwnRestarts
    <2>5. OneToken(s, p)
      BY <2>2, <2>3, <2>4 DEF OneToken, Remembered
    <2>6. Budget(s, p)
      BY <2>1, <2>2, <2>3, ProgramAssumption DEF Budget, Remembered
    <2> QED
      BY <2>5, <2>6 DEF BudgetOK
  <1> QED
    BY <1>1, <1>2 DEF BudgetInv

(* A restart limit bounds the starts of a program that only restarts       *)
(* itself, whatever the order of deaths, limits, stops and delays, for any *)
(* number of schedulers and whether or not threads are lost.               *)
THEOREM RestartsBounded == ASSUME OnlyOwnRestarts PROVE Spec => []RestartBudget
  <1>1. Init => JobsOwn /\ BudgetInv
    BY BudgetStart
  <1>2. TypeOK /\ JobsOwn /\ BudgetInv /\ [Next]_vars => JobsOwn' /\ BudgetInv'
    BY JobsOwnStep, BudgetStep
  <1>3. BudgetInv => RestartBudget
    <2> SUFFICES ASSUME BudgetInv, NEW p \in Programs, MaxStarts[p] # -1
                 PROVE  starts[p] <= MaxStarts[p] + SeqLen[p]
      BY DEF RestartBudget
    <2>1. PICK s \in Schedulers : p \in Range(Progs[s])
      BY SchedulerAssumption
    <2> QED
      BY <2>1 DEF BudgetInv, BudgetOK, Budget
  <1> QED
    BY <1>1, <1>2, <1>3, TypeCorrect, PTL DEF Spec
=============================================================================
