--------------------------- MODULE SchedulerProofs ---------------------------
(***************************************************************************)
(* What TLAPS proves of module Scheduler, for every configuration, any     *)
(* number of schedulers, programs, processes and commands.                 *)
(***************************************************************************)
EXTENDS SchedulerProps, SequenceTheorems, TLAPS

-----------------------------------------------------------------------------
(* Facts about the data.                                                   *)

(* Erasing an element of a vector leaves a vector of the same elements.    *)
LEMMA RemoveAtType ==
    ASSUME NEW S, NEW sq \in Seq(S), NEW i \in 1..Len(sq)
    PROVE  RemoveAt(sq, i) \in Seq(S)
  BY SubSeqProperties, ConcatProperties DEF RemoveAt

(* Signals, deaths and reaping keep the children well-typed.               *)
LEMMA SignalledType ==
    ASSUME KernelTypeOK, NEW k, NEW g \in Nat
    PROVE  Signalled(k, g) \in [Pids -> Kid]
  BY DEF KernelTypeOK, Signalled, Kid, KidRecord, Alive

LEMMA ReapedType ==
    ASSUME KernelTypeOK, NEW k \in Pids
    PROVE  Reaped(k) \in [Pids -> Kid]
  BY DEF KernelTypeOK, Reaped, Kid, KidRecord, Free, Exited, Status

LEMMA ForkedType ==
    ASSUME KernelTypeOK, NEW k \in Pids, NEW p \in Programs, NEW c \in Nat
    PROVE  Forked(k, p, c) \in [Pids -> Kid]
  BY DEF KernelTypeOK, Forked, Kid, KidRecord, Exited, Status

(* inc_seq_idx() stays within the sequence.                                *)
LEMMA NextSeqIdxType ==
    ASSUME ProgramTypeOK, NEW p \in Programs
    PROVE  NextSeqIdx(p) \in Nat /\ NextSeqIdx(p) < SeqLen[p]
  BY ProgramAssumption DEF ProgramTypeOK, NextSeqIdx

(* The programs of a scheduler are Programs.                               *)
LEMMA ProgsType ==
    /\ \A s \in Schedulers : Range(Progs[s]) \subseteq Programs
    /\ \A s \in Schedulers : \A i \in 1..NumProgs(s) : Progs[s][i] \in Range(Progs[s])
    /\ \A s \in Schedulers : NumProgs(s) \in Nat
  BY SchedulerAssumption DEF NumProgs, Range
LEMMA UnitFacts ==
    ASSUME NEW s \in Schedulers
    PROVE  /\ Used \in UnitsOf(s)
           /\ ExitUnit \in UnitsOf(s)
           /\ \A p \in Range(Progs[s]), d \in BOOLEAN :
                Unit("RUN", p, d) \in UnitsOf(s) /\ Unit("END", p, d) \in UnitsOf(s)
           /\ UnitsOf(s) \subseteq WorkUnit
  BY ProgsType DEF Used, ExitUnit, Unit, UnitsOf, WorkUnit, UnitTypes

(* Handing s a new, well-typed schedule.                                   *)
LEMMA SetScheduleType ==
    ASSUME SharedTypeOK, NEW s \in Schedulers, NEW sq \in Seq(UnitsOf(s)), SetSchedule(s, sq)
    PROVE  /\ schedule' \in [Schedulers -> Seq(WorkUnit)]
           /\ \A t \in Schedulers : schedule'[t] \in Seq(UnitsOf(t))
  <1>1. sq \in Seq(WorkUnit)
    BY UnitFacts, SeqMonotonic
  <1> QED
    BY <1>1 DEF SharedTypeOK, SetSchedule

-----------------------------------------------------------------------------
(* Type correctness.                                                       *)

LEMMA InitType == Init => TypeOK
  <1> SUFFICES ASSUME Init PROVE TypeOK
    OBVIOUS
  <1>1. KernelTypeOK
    BY DEF Init, Prepared, KernelInit, KernelTypeOK, Kid, KidRecord, Free, Exited, Status
  <1>2. ProgramTypeOK
    BY ProgramAssumption DEF Init, Prepared, ProgramInit, ProgramTypeOK, Ages, Young, StartsCap
  <1>3. ThreadTypeOK
    BY DEF Init, Prepared, ThreadTypeOK, Labels, Job, NoJob, Count, NoCount
  <1>4. SharedTypeOK
    BY SchedulerAssumption DEF Init, Prepared, SharedTypeOK
  <1>5. OtherTypeOK
    BY SchedulerAssumption DEF Init, Prepared, OtherTypeOK, NoEvent
  <1> QED
    BY <1>1, <1>2, <1>3, <1>4, <1>5 DEF TypeOK

(* run() keeps the types of what it changes.                               *)
LEMMA RunType ==
    ASSUME TypeOK, NEW s \in Schedulers, NEW p \in Range(Progs[s]), NEW sq \in Seq(UnitsOf(s)),
           Run(s, p, sq), UNCHANGED <<mode, status, changed, ncmd, sock>>
    PROVE  KernelTypeOK' /\ ProgramTypeOK' /\ SharedTypeOK' /\ OtherTypeOK'
  <1> p \in Programs
    BY ProgsType
  <1> USE DEF TypeOK
  <1>1. Append(sq, ExitUnit) \in Seq(UnitsOf(s))
    BY UnitFacts, AppendProperties
  <1>2. CASE AlreadyRunning(s, p, sq) \/ ForkFails(s, p, sq) \/ NoLogFile(s, p, sq)
    BY <1>2, SetScheduleType
       DEF AlreadyRunning, ForkFails, NoLogFile, KernelTypeOK, ProgramTypeOK, SharedTypeOK,
           OtherTypeOK, programVars
  <1>3. CASE CannotRun(s, p, sq)
    BY <1>1, <1>3, SetScheduleType
       DEF CannotRun, KernelTypeOK, ProgramTypeOK, SharedTypeOK, OtherTypeOK, programVars
  <1>4. CASE Launch(s, p, sq)
    <2>1. PICK k \in FreePids : /\ kid' = Forked(k, p, seq_idx[p])
                                /\ pid' = [pid EXCEPT ![p] = k]
                                /\ running' = Register(s, k, p)
      BY <1>4 DEF Launch
    <2>2. k \in Pids
      BY DEF FreePids
    <2>3. KernelTypeOK'
      BY <2>1, <2>2, ForkedType DEF KernelTypeOK, ProgramTypeOK
    <2>4. ProgramTypeOK'
      <3>1. CountedStart(p) \in Nat /\ CountedStart(p) <= StartsCap(p)
        BY ProgramAssumption DEF ProgramTypeOK, CountedStart, StartsCap
      <3> QED
        BY <1>4, <2>1, <2>2, <3>1 DEF Launch, ProgramTypeOK, Ages
    <2>5. SharedTypeOK'
      BY <1>4, <2>1, <2>2, SetScheduleType DEF Launch, Register, SharedTypeOK
    <2>6. OtherTypeOK'
      BY <1>4 DEF Launch, OtherTypeOK, Event
    <2> QED
      BY <2>3, <2>4, <2>5, <2>6
  <1> QED
    BY <1>2, <1>3, <1>4 DEF Run

(* what_next() up to its list of actions.                                  *)
LEMMA WhatNextType ==
    ASSUME TypeOK, NEW s \in Schedulers, NEW p \in Range(Progs[s]), NEW st \in Status,
           WhatNext(s, p, st)
    PROVE  /\ seq_idx' \in [Programs -> Nat]
           /\ \A q \in Programs : seq_idx'[q] < SeqLen[q]
           /\ stop_mode' \in [Programs -> {0, 1}]
           /\ schedule' \in [Schedulers -> Seq(WorkUnit)]
           /\ \A t \in Schedulers : schedule'[t] \in Seq(UnitsOf(t))
           /\ changed' \in [Schedulers -> BOOLEAN]
           /\ job' \in [Schedulers -> Job]
           /\ pc' \in [Schedulers -> Labels]
           /\ \A t \in Schedulers : pc'[t] = "act" => job'[t].self \in Range(Progs[t])
  <1> USE DEF TypeOK
  <1> p \in Programs
    BY ProgsType
  <1>1. NextSeqIdx(p) \in Nat /\ NextSeqIdx(p) < SeqLen[p]
    BY NextSeqIdxType
  <1>2. Append(schedule[s], Unit("RUN", p, TRUE)) \in Seq(UnitsOf(s))
    BY UnitFacts, AppendProperties DEF SharedTypeOK
  <1>3. HasActions(p, st) => ActionsFor(p, st) \in Seq(Action)
    BY ProgramAssumption DEF HasActions, ActionsFor, Status
  <1>4. LimitReached(p) \in BOOLEAN
    BY DEF LimitReached
  <1>5. CASE stop_mode[p] = 1
    BY <1>5 DEF WhatNext, ProgramTypeOK, SharedTypeOK, ThreadTypeOK
  <1>6. CASE stop_mode[p] # 1 /\ ~LastInSequence(p)
    <2>1. SetSchedule(s, Append(schedule[s], Unit("RUN", p, TRUE)))
      BY <1>6 DEF WhatNext
    <2>2. /\ schedule' \in [Schedulers -> Seq(WorkUnit)]
          /\ \A t \in Schedulers : schedule'[t] \in Seq(UnitsOf(t))
      BY <1>2, <2>1, SetScheduleType
    <2>3. /\ seq_idx' = [seq_idx EXCEPT ![p] = NextSeqIdx(p)]
          /\ changed' = [changed EXCEPT ![s] = TRUE]
          /\ UNCHANGED <<stop_mode, pc, job>>
      BY <1>6 DEF WhatNext
    <2> QED
      BY <1>1, <2>2, <2>3 DEF ProgramTypeOK, SharedTypeOK, ThreadTypeOK
  <1>7. CASE stop_mode[p] # 1 /\ LastInSequence(p) /\ ~HasActions(p, st)
    <2>1. /\ seq_idx' = [seq_idx EXCEPT ![p] = NextSeqIdx(p)]
          /\ changed' = [changed EXCEPT ![s] = TRUE]
          /\ UNCHANGED <<stop_mode, schedule, pc, job>>
      BY <1>7 DEF WhatNext
    <2> QED
      BY <1>1, <2>1 DEF ProgramTypeOK, SharedTypeOK, ThreadTypeOK
  <1>8. CASE stop_mode[p] # 1 /\ LastInSequence(p) /\ HasActions(p, st)
    <2>1. /\ seq_idx' = [seq_idx EXCEPT ![p] = NextSeqIdx(p)]
          /\ job' = [job EXCEPT ![s] =
                      [self |-> p, todo |-> ActionsFor(p, st), lim |-> LimitReached(p)]]
          /\ Goto(s, "act")
          /\ UNCHANGED <<stop_mode, schedule, changed>>
      BY <1>8 DEF WhatNext
    <2>2. job' \in [Schedulers -> Job]
      BY <1>3, <1>4, <1>8, <2>1 DEF ThreadTypeOK, Job
    <2>3. pc' \in [Schedulers -> Labels]
      BY <2>1 DEF Goto, ThreadTypeOK, Labels
    <2>4. \A t \in Schedulers : pc'[t] = "act" => job'[t].self \in Range(Progs[t])
      BY <2>1 DEF Goto, ThreadTypeOK
    <2> QED
      BY <1>1, <2>1, <2>2, <2>3, <2>4 DEF ProgramTypeOK, SharedTypeOK
  <1> QED
    BY <1>5, <1>6, <1>7, <1>8

(* Steps of a thread that leave the children and the programs alone.       *)
LEMMA MoveType ==
    ASSUME TypeOK, NEW s \in Schedulers,
           \/ PassDone(s) \/ EraseDone(s) \/ LimitsDone(s) \/ ReapNone(s) \/ ReapDone(s)
           \/ LeaveLoop(s) \/ StopsSent(s) \/ NextRound(s) \/ StopWaiting(s) \/ WaitNobody(s)
           \/ RoundDone(s) \/ KillsSent(s) \/ LastNobody(s) \/ GiveUp(s) \/ NotYet(s)
    PROVE  TypeOK'
  <1> USE DEF TypeOK
  <1>1. KernelTypeOK' /\ ProgramTypeOK' /\ OtherTypeOK'
    BY DEF PassDone, EraseDone, LimitsDone, ReapNone, ReapDone, LeaveLoop, StopsSent, NextRound,
           StopWaiting, WaitNobody, RoundDone, KillsSent, LastNobody, GiveUp, NotYet,
           KernelTypeOK, ProgramTypeOK, OtherTypeOK, programVars
  <1>2. SharedTypeOK'
    BY DEF PassDone, EraseDone, LimitsDone, ReapNone, ReapDone, LeaveLoop, StopsSent, NextRound,
           StopWaiting, WaitNobody, RoundDone, KillsSent, LastNobody, GiveUp, NotYet,
           BecomeReady, SharedTypeOK, sharedVars
  <1>3. \A i \in Nat : PidAt(s, i) \in Pids \cup {NoPid}
    BY ProgsType DEF PidAt, ProgramTypeOK
  <1> SUFFICES ThreadTypeOK'
    BY <1>1, <1>2
  <1>4. CASE PassDone(s)
    BY <1>4 DEF PassDone, Goto, Rewind, Labels, ThreadTypeOK
  <1>5. CASE EraseDone(s)
    BY <1>5 DEF EraseDone, Goto, Rewind, Labels, ThreadTypeOK
  <1>6. CASE ReapDone(s)
    BY <1>6 DEF ReapDone, Goto, Labels, ThreadTypeOK
  <1>7. CASE NotYet(s)
    BY <1>7 DEF NotYet, Advance, ThreadTypeOK
  <1>8. CASE RoundDone(s)
    BY <1>8 DEF RoundDone, Goto, Labels, ThreadTypeOK
  <1>9. CASE LimitsDone(s)
    BY <1>3, <1>9 DEF LimitsDone, Goto, Rewind, Labels, ThreadTypeOK
  <1>10. CASE ReapNone(s)
    BY <1>3, <1>10 DEF ReapNone, Advance, ThreadTypeOK
  <1>11. CASE LeaveLoop(s)
    BY <1>11 DEF LeaveLoop, Goto, Rewind, Labels, Count, NoCount, ThreadTypeOK
  <1>12. CASE StopsSent(s)
    BY SchedulerAssumption, <1>12 DEF StopsSent, Goto, Labels, Count, ThreadTypeOK
  <1>13. CASE KillsSent(s)
    BY SchedulerAssumption, <1>13 DEF KillsSent, Goto, Labels, Count, ThreadTypeOK
  <1>14. CASE GiveUp(s)
    BY <1>14 DEF GiveUp, BecomeReady, Goto, Labels, ThreadTypeOK
  <1>15. CASE NextRound(s)
    BY <1>15 DEF NextRound, MoreTries, OneTryLess, Goto, Rewind, Labels, Count, ThreadTypeOK
  <1>16. CASE StopWaiting(s)
    <2>1. UNCHANGED <<wpid, job>>
      BY <1>16 DEF StopWaiting
    <2>2. pc' = [pc EXCEPT ![s] = "kill"] \/ pc' = [pc EXCEPT ![s] = "ready"]
      BY <1>16 DEF StopWaiting, BecomeReady, Goto
    <2>3. ix' = ix \/ ix' = [ix EXCEPT ![s] = 1]
      BY <1>16 DEF StopWaiting, Rewind
    <2>4. cnt' \in [Schedulers -> Count]
      BY <1>16 DEF StopWaiting, Count, ThreadTypeOK
    <2>5. /\ pc' \in [Schedulers -> Labels]
          /\ \A t \in Schedulers : pc'[t] = "act" => pc[t] = "act"
      BY <2>2 DEF Labels, ThreadTypeOK
    <2> QED
      BY <2>1, <2>3, <2>4, <2>5 DEF ThreadTypeOK
  <1>17. CASE WaitNobody(s)
    BY <1>17 DEF WaitNobody, Advance, Count, ThreadTypeOK
  <1>18. CASE LastNobody(s)
    BY <1>18 DEF LastNobody, MoreTries, Count, ThreadTypeOK
  <1> QED
    BY <1>4, <1>5, <1>6, <1>7, <1>8, <1>9, <1>10, <1>11, <1>12,
        <1>13, <1>14, <1>15, <1>16, <1>17, <1>18

(* Work units done or erased.                                              *)
LEMMA UnitType ==
    ASSUME TypeOK, NEW s \in Schedulers, InPass(s) \/ (At(s, "erase") /\ ix[s] <= Len(schedule[s]))
    PROVE  /\ UnitAt(s) \in UnitsOf(s)
           /\ ix[s] \in 1..Len(schedule[s])
           /\ MarkUsed(s) \in Seq(UnitsOf(s))
  <1>1. schedule[s] \in Seq(UnitsOf(s)) /\ ix[s] \in 1..Len(schedule[s])
    BY DEF TypeOK, SharedTypeOK, ThreadTypeOK, InPass
  <1>2. MarkUsed(s) \in Seq(UnitsOf(s))
    BY <1>1, UnitFacts, ExceptSeq DEF MarkUsed
  <1> QED
    BY <1>1, <1>2, ElementOfSeq DEF UnitAt

LEMMA UnitDoneType ==
    ASSUME TypeOK, NEW s \in Schedulers,
           DoExit(s) \/ DoRun(s) \/ DoEnd(s) \/ DoNoStart(s) \/ Erase(s)
    PROVE  TypeOK'
  <1> USE DEF TypeOK
  <1>1. CASE DoExit(s)
    <2>1. SharedTypeOK'
      BY <1>1, UnitType, SetScheduleType DEF DoExit, SharedTypeOK
    <2>2. ThreadTypeOK'
      BY <1>1 DEF DoExit, Advance, ThreadTypeOK
    <2> QED
      BY <1>1, <2>1, <2>2 DEF DoExit, KernelTypeOK, ProgramTypeOK, OtherTypeOK, programVars
  <1>2. CASE DoRun(s)
    <2>1. InPass(s) /\ UnitAt(s).prog \in Range(Progs[s])
      BY <1>2, UnitType DEF DoRun, UnitsOf
    <2>2. KernelTypeOK' /\ ProgramTypeOK' /\ SharedTypeOK' /\ OtherTypeOK'
      BY <1>2, <2>1, UnitType, RunType DEF DoRun
    <2>3. ThreadTypeOK'
      BY <1>2 DEF DoRun, Advance, ThreadTypeOK
    <2> QED
      BY <2>2, <2>3
  <1>3. CASE DoEnd(s)
    <2>1. InPass(s) /\ UnitAt(s).prog \in Programs
      BY <1>3, UnitType, ProgsType DEF DoEnd, UnitsOf
    <2>2. KernelTypeOK'
      BY <1>3, <2>1, SignalledType, ProgramAssumption DEF DoEnd, KernelTypeOK
    <2>3. ProgramTypeOK'
      BY <1>3, <2>1 DEF DoEnd, ProgramTypeOK
    <2>4. SharedTypeOK'
      BY <1>3, <2>1, UnitType, SetScheduleType DEF DoEnd, SharedTypeOK
    <2>5. ThreadTypeOK'
      BY <1>3 DEF DoEnd, Advance, ThreadTypeOK
    <2> QED
      BY <1>3, <2>2, <2>3, <2>4, <2>5 DEF DoEnd, OtherTypeOK
  <1>4. CASE DoNoStart(s)
    <2>1. SharedTypeOK'
      BY <1>4, UnitType, SetScheduleType DEF DoNoStart, SharedTypeOK
    <2>2. ThreadTypeOK'
      BY <1>4 DEF DoNoStart, Advance, ThreadTypeOK
    <2> QED
      BY <1>4, <2>1, <2>2 DEF DoNoStart, KernelTypeOK, ProgramTypeOK, OtherTypeOK, programVars
  <1>5. CASE Erase(s)
    <2>1. RemoveAt(schedule[s], ix[s]) \in Seq(UnitsOf(s))
      BY <1>5, UnitType, RemoveAtType DEF Erase, SharedTypeOK
    <2>2. SharedTypeOK'
      BY <1>5, <2>1, SetScheduleType DEF Erase, SharedTypeOK
    <2>3. ThreadTypeOK'
      <3>1. UNCHANGED <<pc, wpid, job, cnt>> /\ (ix' = ix \/ Advance(s))
        BY <1>5 DEF Erase
      <3> QED
        BY <3>1 DEF Advance, ThreadTypeOK
    <2> QED
      BY <1>5, <2>2, <2>3 DEF Erase, KernelTypeOK, ProgramTypeOK, OtherTypeOK, programVars
  <1> QED
    BY <1>1, <1>2, <1>3, <1>4, <1>5

(* Steps that count, signal and reap children.                             *)
LEMMA DeathType ==
    ASSUME TypeOK, NEW s \in Schedulers, NEW w, CountDeath(s, w)
    PROVE  /\ kid' \in [Pids -> Kid]
           /\ pid' \in [Programs -> Pids \cup {NoPid}]
           /\ running' \in [Schedulers -> [Pids -> Programs \cup {NoProg}]]
           /\ \A t \in Schedulers, k \in Pids : running'[t][k] \in Range(Progs[t]) \cup {NoProg}
  <1>1. PICK k \in Reapable(w) : /\ kid' = Reaped(k)
                                 /\ running' = Unregister(s, k)
                                 /\ pid' = ClearPid(running[s][k])
    BY DEF CountDeath
  <1>2. k \in Pids
    BY DEF Reapable
  <1> QED
    BY <1>1, <1>2, ReapedType DEF TypeOK, SharedTypeOK, ProgramTypeOK, Unregister, ClearPid

LEMMA ChildType ==
    ASSUME TypeOK, NEW s \in Schedulers,
           \/ CheckLimit(s) \/ SendStop(s) \/ SendKill(s) \/ ReapUnknown(s) \/ WaitUnknown(s)
           \/ LastUnknown(s) \/ WaitDeath(s) \/ LastDeath(s) \/ StartPass(s)
    PROVE  TypeOK'
  <1> USE DEF TypeOK
  <1>1. ix[s] <= NumProgs(s) => Progs[s][ix[s]] \in Programs
    BY ProgsType DEF ThreadTypeOK
  <1>2. \A k : \A g \in Nat : Signalled(k, g) \in [Pids -> Kid]
    BY SignalledType
  <1>3. \A p \in Programs : StopSig[p] \in Nat
    BY ProgramAssumption
  <1>4. SIGKILL \in Nat
    BY DEF SIGKILL
  <1>5. CASE CheckLimit(s)
    <2>1. KernelTypeOK'
      BY <1>1, <1>2, <1>3, <1>5 DEF CheckLimit, KernelTypeOK
    <2>2. ProgramTypeOK'
      <3> DEFINE p == Progs[s][ix[s]]
      <3>1. pid' = pid \/ pid' = [pid EXCEPT ![p] = NoPid]
        BY <1>5 DEF CheckLimit, ClearPid
      <3>2. UNCHANGED <<starts, seq_idx, stop_mode, age, ran>>
        BY <1>5 DEF CheckLimit
      <3>3. pid' \in [Programs -> Pids \cup {NoPid}]
        BY <3>1 DEF ProgramTypeOK
      <3> QED
        BY <3>2, <3>3 DEF ProgramTypeOK
    <2>3. ThreadTypeOK'
      BY <1>5 DEF CheckLimit, Advance, ThreadTypeOK
    <2> QED
      BY <1>5, <2>1, <2>2, <2>3 DEF CheckLimit, SharedTypeOK, OtherTypeOK, sharedVars
  <1>6. CASE SendStop(s)
    <2>1. KernelTypeOK'
      BY <1>1, <1>2, <1>3, <1>6 DEF SendStop, KernelTypeOK
    <2>2. ThreadTypeOK'
      BY <1>6 DEF SendStop, Advance, ThreadTypeOK, Count
    <2> QED
      BY <1>6, <2>1, <2>2 DEF SendStop, ProgramTypeOK, SharedTypeOK, OtherTypeOK, sharedVars, programVars
  <1>7. CASE SendKill(s)
    <2>1. KernelTypeOK'
      BY <1>1, <1>2, <1>4, <1>7 DEF SendKill, KernelTypeOK
    <2>2. ThreadTypeOK'
      BY <1>7 DEF SendKill, Advance, ThreadTypeOK, Count
    <2> QED
      BY <1>7, <2>1, <2>2 DEF SendKill, ProgramTypeOK, SharedTypeOK, OtherTypeOK, sharedVars, programVars
  <1>8. CASE ReapUnknown(s) \/ WaitUnknown(s) \/ LastUnknown(s)
    <2>1. \E k \in Pids : kid' = Reaped(k)
      BY <1>8 DEF ReapUnknown, WaitUnknown, LastUnknown, UnknownDeath, Reapable
    <2>2. KernelTypeOK'
      BY <2>1, ReapedType DEF KernelTypeOK
    <2>3. UNCHANGED <<programVars, ix, wpid, job, cnt, sharedVars, elog, up, ncmd, sock>> /\ Goto(s, "dead")
      BY <1>8 DEF ReapUnknown, WaitUnknown, LastUnknown
    <2>4. ThreadTypeOK'
      BY <2>3 DEF Goto, ThreadTypeOK, Labels
    <2> QED
      BY <2>2, <2>3, <2>4 DEF ProgramTypeOK, SharedTypeOK, OtherTypeOK, sharedVars, programVars
  <1>9. CASE WaitDeath(s)
    <2>1. ThreadTypeOK'
      BY <1>9 DEF WaitDeath, Advance, ThreadTypeOK, Count
    <2> QED
      BY <1>9, <2>1, DeathType
         DEF WaitDeath, KernelTypeOK, ProgramTypeOK, SharedTypeOK, OtherTypeOK
  <1>10. CASE LastDeath(s)
    <2>1. ThreadTypeOK'
      BY <1>10 DEF LastDeath, MoreTries, ThreadTypeOK, Count
    <2> QED
      BY <1>10, <2>1, DeathType
         DEF LastDeath, KernelTypeOK, ProgramTypeOK, SharedTypeOK, OtherTypeOK
  <1>11. CASE StartPass(s)
    <2>1. ThreadTypeOK'
      BY <1>11 DEF StartPass, Goto, Rewind, ThreadTypeOK, Labels
    <2>2. ProgramTypeOK'
      BY <1>11 DEF StartPass, ProgramTypeOK
    <2> QED
      BY <1>11, <2>1, <2>2 DEF StartPass, KernelTypeOK, SharedTypeOK, OtherTypeOK, sharedVars
  <1> QED
    BY <1>5, <1>6, <1>7, <1>8, <1>9, <1>10, <1>11

LEMMA ReapChildType ==
    ASSUME TypeOK, NEW s \in Schedulers, NEW k \in Pids, ReapChild(s, k)
    PROVE  TypeOK'
  <1> USE DEF TypeOK
  <1> DEFINE p == running[s][k]
             st == kid[k].status
  <1>1. p \in Range(Progs[s]) /\ p \in Programs
    BY ProgsType DEF ReapChild, SharedTypeOK
  <1>2. st \in Status
    BY DEF KernelTypeOK, Kid, KidRecord
  <1>3. WhatNext(s, p, st)
    BY DEF ReapChild
  <1>4. KernelTypeOK'
    BY ReapedType DEF ReapChild, KernelTypeOK
  <1>5. ProgramTypeOK'
    BY <1>1, <1>2, <1>3, WhatNextType DEF ReapChild, ProgramTypeOK, ClearPid
  <1>6. SharedTypeOK'
    BY <1>1, <1>2, <1>3, WhatNextType DEF ReapChild, SharedTypeOK, Unregister
  <1>7. ThreadTypeOK'
    BY <1>1, <1>2, <1>3, WhatNextType DEF ReapChild, ThreadTypeOK
  <1>8. OtherTypeOK'
    <2>1. DeathEvent(p, st) \in [ev : {"none", "START", "END", "CRASH"}, sig : Nat]
      BY <1>1, <1>2 DEF DeathEvent, Event, OtherTypeOK, Status
    <2> QED
      BY <1>1, <2>1 DEF ReapChild, OtherTypeOK
  <1> QED
    BY <1>4, <1>5, <1>6, <1>7, <1>8

(* Steps of the loop over the actions.                                     *)
LEMMA ActType ==
    ASSUME TypeOK, NEW s \in Schedulers,
           ActStartNow(s) \/ ActQueue(s) \/ ActSkip(s) \/ ActDone(s)
    PROVE  TypeOK'
  <1> USE DEF TypeOK
  <1>1. pc[s] = "act" /\ job[s].self \in Range(Progs[s])
    BY DEF ActStartNow, ActQueue, ActSkip, ActDone, InActions, At, ThreadTypeOK
  <1>2. ASSUME InActions(s)
        PROVE  /\ ActionAt(s) \in Action
               /\ TargetAt(s) \in Range(Progs[s])
               /\ NextAction(s) => /\ job' \in [Schedulers -> Job]
                                   /\ \A t \in Schedulers : job'[t].self = job[t].self
    <2>1. job[s].todo \in Seq(Action) /\ job[s].todo # << >>
      BY <1>2 DEF InActions, ThreadTypeOK, Job
    <2>2. Head(job[s].todo) \in Action /\ Tail(job[s].todo) \in Seq(Action)
      BY <2>1, HeadTailProperties
    <2>3. TargetAt(s) \in Range(Progs[s])
      BY <1>1 DEF TargetAt, Target
    <2>4. NextAction(s) => /\ job' \in [Schedulers -> Job]
                           /\ \A t \in Schedulers : job'[t].self = job[t].self
      <3>1. /\ job[s].self \in Programs \cup {NoProg}
            /\ job[s].lim \in BOOLEAN
        BY DEF ThreadTypeOK, Job
      <3> QED
        BY <2>2, <3>1 DEF NextAction, ThreadTypeOK, Job
    <2> QED
      BY <2>2, <2>3, <2>4 DEF ActionAt
  <1>3. CASE ActStartNow(s)
    <2>1. schedule[s] \in Seq(UnitsOf(s))
      BY DEF SharedTypeOK
    <2>2. KernelTypeOK' /\ ProgramTypeOK' /\ SharedTypeOK' /\ OtherTypeOK'
      BY <1>1, <1>3, <2>1, RunType DEF ActStartNow
    <2>3. ThreadTypeOK'
      BY <1>2, <1>3 DEF ActStartNow, ThreadTypeOK
    <2> QED
      BY <2>2, <2>3
  <1>4. CASE ActQueue(s)
    <2>1. PICK wu \in UnitsOf(s) : SetSchedule(s, Append(schedule[s], wu))
      BY <1>2, <1>4, UnitFacts DEF ActQueue, Action
    <2>2. Append(schedule[s], wu) \in Seq(UnitsOf(s))
      BY AppendProperties DEF SharedTypeOK
    <2>3. SharedTypeOK'
      BY <1>4, <2>1, <2>2, SetScheduleType DEF ActQueue, SharedTypeOK
    <2>4. ThreadTypeOK'
      BY <1>2, <1>4 DEF ActQueue, ThreadTypeOK
    <2> QED
      BY <1>4, <2>3, <2>4 DEF ActQueue, KernelTypeOK, ProgramTypeOK, OtherTypeOK, programVars
  <1>5. CASE ActSkip(s)
    <2>1. ThreadTypeOK'
      BY <1>2, <1>5 DEF ActSkip, ThreadTypeOK
    <2> QED
      BY <1>5, <2>1
         DEF ActSkip, KernelTypeOK, ProgramTypeOK, SharedTypeOK, OtherTypeOK, programVars, sharedVars
  <1>6. CASE ActDone(s)
    <2>1. ThreadTypeOK'
      BY <1>6 DEF ActDone, Goto, ThreadTypeOK, Labels, Job, NoJob
    <2> QED
      BY <1>6, <2>1 DEF ActDone, KernelTypeOK, ProgramTypeOK, SharedTypeOK, OtherTypeOK, programVars
  <1> QED
    BY <1>3, <1>4, <1>5, <1>6

LEMMA ThreadType == ASSUME TypeOK, NEW s \in Schedulers, Thread(s) PROVE TypeOK'
  BY MoveType, UnitDoneType, ChildType, ReapChildType, ActType DEF Thread

LEMMA CommandType == ASSUME TypeOK, Commands PROVE TypeOK'
  <1> USE DEF TypeOK
  <1>1. KernelTypeOK' /\ ProgramTypeOK' /\ ThreadTypeOK'
    BY DEF Commands, CmdStart, CmdStop, CmdQuit, PushQuit, CmdQuitOne, CtrlC,
           KernelTypeOK, ProgramTypeOK, ThreadTypeOK, programVars, threadVars
  <1>2. OtherTypeOK'
    <2>1. /\ UNCHANGED <<elog, up>>
          /\ \/ ncmd < MaxCmds /\ ncmd' = ncmd + 1
             \/ UNCHANGED ncmd
      BY DEF Commands, CmdStart, CmdStop, CmdQuit, PushQuit, CmdQuitOne, CtrlC, SocketCommand, Command
    <2>2. sock' \in Seq(Schedulers)
      <3>1. sock # << >> => Tail(sock) \in Seq(Schedulers)
        BY HeadTailProperties DEF OtherTypeOK
      <3> QED
        BY <3>1, SchedulerAssumption
           DEF Commands, CmdStart, CmdStop, CmdQuit, PushQuit, CmdQuitOne, CtrlC, SocketRest, OtherTypeOK
    <2> QED
      BY <2>1, <2>2, SchedulerAssumption DEF OtherTypeOK
  <1> SUFFICES SharedTypeOK'
    BY <1>1, <1>2
  <1>3. ASSUME NEW s \in Schedulers, NEW wu \in UnitsOf(s), Push(s, wu),
               UNCHANGED <<mode, status, running, changed>>
        PROVE  SharedTypeOK'
    <2>1. Append(schedule[s], wu) \in Seq(UnitsOf(s))
      BY AppendProperties DEF SharedTypeOK
    <2> QED
      BY <1>3, <2>1, SetScheduleType DEF Push, SharedTypeOK
  <1>4. ASSUME NEW s \in Schedulers, NEW p \in Programs, CmdStart(s, p) \/ CmdStop(s, p)
        PROVE  SharedTypeOK'
    BY <1>3, <1>4, UnitFacts DEF CmdStart, CmdStop
  <1>5. ASSUME NEW s \in Schedulers, PushQuit(s) \/ CmdQuitOne(s) PROVE SharedTypeOK'
    BY <1>3, <1>5, UnitFacts DEF PushQuit, CmdQuitOne
  <1>6. CASE CmdQuit
    BY <1>6 DEF CmdQuit, sharedVars, SharedTypeOK
  <1>7. CASE CtrlC
    <2>1. UNCHANGED <<status, schedule, running, changed>>
      BY <1>7 DEF CtrlC
    <2>2. mode' \in [Schedulers -> {"ON", "OFF"}]
      BY <1>7 DEF CtrlC
    <2> QED
      BY <2>1, <2>2 DEF SharedTypeOK
  <1> QED
    BY <1>4, <1>5, <1>6, <1>7 DEF Commands

LEMMA WorldType == ASSUME TypeOK, World PROVE TypeOK'
  <1> USE DEF TypeOK
  <1>1. ASSUME NEW k \in Pids, NEW st \in Status, Ends(k, st) PROVE KernelTypeOK'
    <2>1. kid[k] \in KidRecord /\ kid[k].prog \in Programs
      BY <1>1 DEF Ends, Alive, KernelTypeOK, Kid
    <2>2. [st |-> "zombie", prog |-> kid[k].prog, cmd |-> kid[k].cmd, pend |-> {}, status |-> st] \in Kid
      BY <2>1 DEF Kid, KidRecord
    <2> QED
      BY <1>1, <2>2 DEF Ends, KernelTypeOK
  <1>2. ASSUME NEW k \in Pids, KidEnds(k) PROVE TypeOK'
    <2>1. KernelTypeOK'
      <3>1. Statuses[kid[k].prog] \subseteq Status
        BY <1>2, SchedulerAssumption DEF KidEnds, Alive, KernelTypeOK, Kid, KidRecord
      <3> QED
        BY <1>1, <1>2, <3>1 DEF KidEnds
    <2> QED
      BY <1>2, <2>1 DEF KidEnds, allButKid, ProgramTypeOK, ThreadTypeOK, SharedTypeOK, OtherTypeOK,
                        programVars, threadVars, sharedVars
  <1>3. ASSUME NEW k \in Pids, NEW g \in kid[k].pend, KidIsKilled(k, g) PROVE TypeOK'
    <2>1. KilledBy(g) \in Status
      BY DEF KilledBy, Status, KernelTypeOK, Kid, KidRecord
    <2>2. KernelTypeOK'
      BY <1>1, <1>3, <2>1 DEF KidIsKilled, KilledByPending
    <2> QED
      BY <1>3, <2>2 DEF KidIsKilled, allButKid, ProgramTypeOK, ThreadTypeOK, SharedTypeOK, OtherTypeOK,
                        programVars, threadVars, sharedVars
  <1>4. ASSUME NEW s \in Schedulers, NEW wu, Elapse(s, wu) PROVE TypeOK'
    <2>1. PICK i \in DOMAIN schedule[s] :
            /\ schedule[s][i] = wu
            /\ SetSchedule(s, [schedule[s] EXCEPT ![i] = Unit(wu.type, wu.prog, TRUE)])
      BY <1>4 DEF Elapse
    <2>2. schedule[s] \in Seq(UnitsOf(s)) /\ i \in 1..Len(schedule[s])
      BY DEF SharedTypeOK
    <2>3. wu \in UnitsOf(s)
      BY <2>1, <2>2, ElementOfSeq
    <2>4. Unit(wu.type, wu.prog, TRUE) \in UnitsOf(s)
      BY <2>3 DEF UnitsOf, WorkUnit, Unit
    <2>5. [schedule[s] EXCEPT ![i] = Unit(wu.type, wu.prog, TRUE)] \in Seq(UnitsOf(s))
      BY <2>2, <2>4, ExceptSeq
    <2>6. /\ schedule' \in [Schedulers -> Seq(WorkUnit)]
          /\ \A t \in Schedulers : schedule'[t] \in Seq(UnitsOf(t))
      BY <2>1, <2>5, SetScheduleType
    <2>7. UNCHANGED <<mode, status, running, changed>>
      BY <1>4 DEF Elapse
    <2>8. SharedTypeOK'
      BY <2>6, <2>7 DEF SharedTypeOK
    <2> QED
      BY <1>4, <2>8 DEF Elapse, KernelTypeOK, ProgramTypeOK, ThreadTypeOK, OtherTypeOK,
                        programVars, threadVars
  <1>5. ASSUME NEW p \in Programs, Tick(p) PROVE TypeOK'
    <2>1. ProgramTypeOK'
      BY <1>5 DEF Tick, GrowOlder, ProgramTypeOK, Ages, Young, Mature, Old
    <2> QED
      BY <1>5, <2>1 DEF Tick, KernelTypeOK, ThreadTypeOK, SharedTypeOK, OtherTypeOK,
                        threadVars, sharedVars
  <1> QED
    BY <1>2, <1>3, <1>4, <1>5 DEF World

LEMMA StutterType == ASSUME TypeOK, UNCHANGED vars PROVE TypeOK'
  BY DEF TypeOK, KernelTypeOK, ProgramTypeOK, ThreadTypeOK, SharedTypeOK, OtherTypeOK,
         vars, programVars, threadVars, sharedVars

(* Every reachable state of every configuration is well-typed; what the    *)
(* other theorems rest on.                                                 *)
THEOREM TypeCorrect == Spec => []TypeOK
  <1>1. Init => TypeOK
    BY InitType
  <1>2. TypeOK /\ [Next]_vars => TypeOK'
    BY ThreadType, CommandType, WorldType, StutterType DEF Next, Terminated
  <1> QED
    BY <1>1, <1>2, PTL DEF Spec

-----------------------------------------------------------------------------
(* What a step does to the children, to the pids and to the maps that      *)
(* remember them. Every step is of one of five kinds.                      *)

(* A child of p is forked: by the thread of s, in its loop.                *)
StartStep(s, p, k) ==
    /\ pc[s] \in {"pass", "act"}
    /\ p \in Range(Progs[s])
    /\ k \in FreePids
    /\ pid[p] = NoPid
    /\ kid' = Forked(k, p, seq_idx[p])
    /\ pid' = [pid EXCEPT ![p] = k]
    /\ running' = Register(s, k, p)
    /\ elog' = [elog EXCEPT ![p] = Event("START", 0)]
    /\ UNCHANGED <<seq_idx, pc>>

(* s reaps a child it knows. In the loop the death is logged, and what     *)
(* comes next is decided.                                                  *)
DeathStep(s, k) ==
    /\ kid[k].st = "zombie"
    /\ running[s][k] # NoProg
    /\ kid' = Reaped(k)
    /\ pid' = ClearPid(running[s][k])
    /\ running' = Unregister(s, k)
    /\ \E i : seq_idx' = [seq_idx EXCEPT ![running[s][k]] = i]
    /\ \/ /\ pc[s] = "reap"
          /\ elog' = [elog EXCEPT ![running[s][k]] = DeathEvent(running[s][k], kid[k].status)]
          /\ WhatNext(s, running[s][k], kid[k].status)
       \/ /\ pc[s] \in {"wait", "wait9"}
          /\ UNCHANGED <<elog, seq_idx>>

(* s reaps a child it does not know, and its thread returns.               *)
LostStep(s, k) ==
    /\ Unreaped(k)
    /\ running[s][k] = NoProg
    /\ kid' = Reaped(k)
    /\ Goto(s, "dead")
    /\ UNCHANGED <<pid, running, seq_idx, elog>>

(* The same children; those that are alive were so before, and have all    *)
(* the signals they had.                                                   *)
SameChildren ==
    \A k \in Pids : /\ kid'[k].prog = kid[k].prog
                    /\ kid'[k].cmd = kid[k].cmd
                    /\ kid'[k].st = "free" <=> kid[k].st = "free"
                    /\ kid'[k].st = "alive" => kid[k].st = "alive" /\ kid[k].pend \subseteq kid'[k].pend

(* A signal is sent to the pid of a program, a child ends, or neither.     *)
SignalSent(p) == \E g \in {StopSig[p], SIGKILL} : kid' = Signalled(pid[p], g)
NewsOfChildren ==
    \/ UNCHANGED kid
    \/ \E p \in Programs : SignalSent(p)
    \/ \E k \in Pids, st \in Status : Ends(k, st)

(* A program over its maxruntime is forgotten.                             *)
LimitStep(p) ==
    /\ MaxRun[p]
    /\ pid' = ClearPid(p)
    /\ SameChildren
    /\ SignalSent(p)
    /\ UNCHANGED <<running, seq_idx, elog>>

CalmStep == SameChildren /\ NewsOfChildren /\ UNCHANGED <<pid, running, seq_idx, elog>>

LEMMA SignalledSame ==
    ASSUME KernelTypeOK, NEW k, NEW g, kid' = Signalled(k, g) PROVE SameChildren
  BY DEF KernelTypeOK, Kid, KidRecord, Signalled, Alive, SameChildren

LEMMA EndsSame ==
    ASSUME KernelTypeOK, NEW k \in Pids, NEW st, Ends(k, st) PROVE SameChildren
  BY DEF KernelTypeOK, Kid, KidRecord, Ends, Alive, SameChildren

LEMMA RunKind ==
    ASSUME TypeOK, NEW s \in Schedulers, NEW p \in Range(Progs[s]), NEW sq, Run(s, p, sq),
           pc[s] \in {"pass", "act"}, UNCHANGED pc
    PROVE  CalmStep \/ \E k \in Pids : StartStep(s, p, k)
  <1>1. CASE Launch(s, p, sq)
    BY <1>1 DEF Launch, StartStep, FreePids, NotRunning
  <1>2. CASE ~Launch(s, p, sq)
    BY <1>2 DEF Run, AlreadyRunning, ForkFails, CannotRun, NoLogFile, programVars, CalmStep, SameChildren,
                NewsOfChildren
  <1> QED
    BY <1>1, <1>2

LEMMA DeathKind ==
    ASSUME TypeOK, NEW s \in Schedulers, NEW w, CountDeath(s, w), UNCHANGED <<seq_idx, elog>>,
           pc[s] \in {"wait", "wait9"}
    PROVE  \E k \in Pids : DeathStep(s, k)
  <1>1. PICK k \in Reapable(w) : /\ running[s][k] # NoProg
                                 /\ kid' = Reaped(k)
                                 /\ running' = Unregister(s, k)
                                 /\ pid' = ClearPid(running[s][k])
    BY DEF CountDeath
  <1>2. k \in Pids /\ kid[k].st = "zombie"
    BY DEF Reapable
  <1>3. seq_idx' = [seq_idx EXCEPT ![running[s][k]] = seq_idx[running[s][k]]]
    BY DEF TypeOK, ProgramTypeOK
  <1> QED
    BY <1>1, <1>2, <1>3 DEF DeathStep

LEMMA ReapChildKind ==
    ASSUME TypeOK, NEW s \in Schedulers, NEW k \in Pids, ReapChild(s, k)
    PROVE  DeathStep(s, k)
  <1> DEFINE p == running[s][k]
  <1>1. /\ kid[k].st = "zombie"
        /\ p # NoProg
        /\ kid' = Reaped(k)
        /\ pid' = ClearPid(p)
        /\ running' = Unregister(s, k)
        /\ pc[s] = "reap"
        /\ elog' = [elog EXCEPT ![p] = DeathEvent(p, kid[k].status)]
        /\ WhatNext(s, p, kid[k].status)
    BY DEF ReapChild, InReap, At, Reapable, Matches
  <1>2. seq_idx' = seq_idx \/ seq_idx' = [seq_idx EXCEPT ![p] = NextSeqIdx(p)]
    BY <1>1 DEF WhatNext
  <1>3. seq_idx = [seq_idx EXCEPT ![p] = seq_idx[p]]
    BY DEF TypeOK, ProgramTypeOK
  <1> QED
    BY <1>1, <1>2, <1>3 DEF DeathStep

(* The five kinds, of which a thread takes part in those of its own        *)
(* scheduler.                                                              *)
ThreadStepKind(s) ==
    \/ CalmStep
    \/ \E k \in Pids :
         DeathStep(s, k) \/ LostStep(s, k) \/ \E p \in Range(Progs[s]) : StartStep(s, p, k)
    \/ \E p \in Programs : LimitStep(p)

StepKind == CalmStep \/ \E s \in Schedulers : ThreadStepKind(s)

LEMMA ThreadKind ==
    ASSUME TypeOK, NEW s \in Schedulers, Thread(s) PROVE ThreadStepKind(s)
  <1> USE DEF TypeOK
  <1>1. CASE \/ StartPass(s) \/ LeaveLoop(s) \/ DoExit(s) \/ DoNoStart(s) \/ NotYet(s) \/ PassDone(s)
             \/ Erase(s) \/ EraseDone(s) \/ LimitsDone(s) \/ ReapNone(s) \/ ReapDone(s)
             \/ ActQueue(s) \/ ActSkip(s) \/ ActDone(s) \/ StopsSent(s) \/ NextRound(s)
             \/ StopWaiting(s) \/ WaitNobody(s) \/ RoundDone(s) \/ KillsSent(s)
             \/ LastNobody(s) \/ GiveUp(s)
    <2>1. UNCHANGED <<kid, pid, running, seq_idx, elog>>
      BY <1>1
         DEF StartPass, LeaveLoop, DoExit, DoNoStart, NotYet, PassDone, Erase, EraseDone, LimitsDone,
             ReapNone, ReapDone, ActQueue, ActSkip, ActDone, StopsSent, NextRound, StopWaiting,
             WaitNobody, RoundDone, KillsSent, LastNobody, GiveUp, BecomeReady, programVars, sharedVars
    <2> QED
      BY <2>1 DEF ThreadStepKind, CalmStep, SameChildren, NewsOfChildren
  <1>2. CASE DoRun(s)
    <2>1. UnitAt(s).prog \in Range(Progs[s]) /\ pc[s] = "pass"
      BY <1>2, UnitType DEF DoRun, UnitsOf, InPass, At
    <2> QED
      BY <1>2, <2>1, RunKind DEF DoRun, ThreadStepKind
  <1>3. CASE ActStartNow(s)
    <2>1. job[s].self \in Range(Progs[s]) /\ pc[s] = "act"
      BY <1>3 DEF ActStartNow, InActions, At, ThreadTypeOK
    <2> QED
      BY <1>3, <2>1, RunKind DEF ActStartNow, ThreadStepKind
  <1>4. CASE DoEnd(s) \/ SendStop(s) \/ SendKill(s)
    <2>1. \E p \in Programs : SignalSent(p)
      <3>1. DoEnd(s) => UnitAt(s).prog \in Programs
        BY UnitType, ProgsType DEF DoEnd, UnitsOf
      <3>2. ix[s] <= NumProgs(s) => Progs[s][ix[s]] \in Programs
        BY ProgsType DEF ThreadTypeOK
      <3> QED
        BY <1>4, <3>1, <3>2 DEF DoEnd, SendStop, SendKill, SignalSent
    <2>3. SameChildren
      BY <2>1, SignalledSame DEF SignalSent
    <2>2. UNCHANGED <<pid, running, seq_idx, elog>>
      BY <1>4 DEF DoEnd, SendStop, SendKill, programVars, sharedVars
    <2> QED
      BY <2>1, <2>2, <2>3 DEF ThreadStepKind, CalmStep, NewsOfChildren
  <1>5. CASE CheckLimit(s)
    <2> DEFINE p == Progs[s][ix[s]]
    <2>1. p \in Programs
      BY <1>5, ProgsType DEF CheckLimit, ThreadTypeOK
    <2>2. UNCHANGED <<running, seq_idx, elog>>
      BY <1>5 DEF CheckLimit, sharedVars
    <2>3. CASE OverRunLimit(p) /\ kid' = Signalled(pid[p], StopSig[p]) /\ pid' = ClearPid(p)
      BY <2>1, <2>2, <2>3, SignalledSame DEF OverRunLimit, ThreadStepKind, LimitStep, SignalSent
    <2>4. CASE UNCHANGED <<kid, pid>>
      BY <2>2, <2>4 DEF ThreadStepKind, CalmStep, SameChildren, NewsOfChildren
    <2> QED
      BY <1>5, <2>3, <2>4 DEF CheckLimit
  <1>6. ASSUME NEW k \in Pids, ReapChild(s, k) PROVE ThreadStepKind(s)
    BY <1>6, ReapChildKind DEF ThreadStepKind
  <1>7. CASE WaitDeath(s) \/ LastDeath(s)
    <2>1. /\ UNCHANGED <<seq_idx, elog>>
          /\ pc[s] \in {"wait", "wait9"}
          /\ \E w : CountDeath(s, w)
      BY <1>7 DEF WaitDeath, LastDeath, InWait, At
    <2> QED
      BY <2>1, DeathKind DEF ThreadStepKind
  <1>8. CASE ReapUnknown(s) \/ WaitUnknown(s) \/ LastUnknown(s)
    <2>1. \E k \in Pids : Unreaped(k) /\ running[s][k] = NoProg /\ kid' = Reaped(k)
      BY <1>8 DEF ReapUnknown, WaitUnknown, LastUnknown, UnknownDeath, Reapable, Matches
    <2>2. UNCHANGED <<pid, running, seq_idx, elog>> /\ Goto(s, "dead")
      BY <1>8 DEF ReapUnknown, WaitUnknown, LastUnknown, programVars, sharedVars
    <2> QED
      BY <2>1, <2>2 DEF ThreadStepKind, LostStep
  <1> QED
    BY <1>1, <1>2, <1>3, <1>4, <1>5, <1>6, <1>7, <1>8 DEF Thread

LEMMA OthersKind == ASSUME TypeOK, Commands \/ World \/ UNCHANGED vars PROVE CalmStep
  <1>1. CASE Commands
    BY <1>1 DEF Commands, CmdStart, CmdStop, CmdQuit, PushQuit, CmdQuitOne, CtrlC, programVars,
                sharedVars, CalmStep, SameChildren, NewsOfChildren
  <1>2. CASE World
    <2>1. ASSUME NEW k \in Pids, NEW st \in Status, Ends(k, st), UNCHANGED allButKid PROVE CalmStep
      BY <2>1, EndsSame DEF TypeOK, CalmStep, NewsOfChildren, allButKid, programVars, sharedVars
    <2>2. ASSUME NEW k \in Pids, KidEnds(k) \/ \E g \in kid[k].pend : KidIsKilled(k, g)
          PROVE  CalmStep
      <3>1. \E st \in Status : Ends(k, st)
        <4>1. KidEnds(k) => Statuses[kid[k].prog] \subseteq Status
          BY SchedulerAssumption DEF KidEnds, Alive, TypeOK, KernelTypeOK, Kid, KidRecord
        <4>2. \A g \in kid[k].pend : KilledBy(g) \in Status
          BY DEF KilledBy, Status, TypeOK, KernelTypeOK, Kid, KidRecord
        <4> QED
          BY <2>2, <4>1, <4>2 DEF KidEnds, KidIsKilled, KilledByPending
      <3> QED
        BY <2>1, <2>2, <3>1 DEF KidEnds, KidIsKilled
    <2>3. ASSUME NEW s \in Schedulers, NEW wu, Elapse(s, wu) PROVE CalmStep
      BY <2>3 DEF Elapse, programVars, CalmStep, SameChildren, NewsOfChildren
    <2>4. ASSUME NEW p \in Programs, Tick(p) PROVE CalmStep
      BY <2>4 DEF Tick, sharedVars, CalmStep, SameChildren, NewsOfChildren
    <2> QED
      BY <1>2, <2>2, <2>3, <2>4 DEF World
  <1>3. CASE UNCHANGED vars
    BY <1>3 DEF vars, programVars, sharedVars, CalmStep, SameChildren, NewsOfChildren
  <1> QED
    BY <1>1, <1>2, <1>3

LEMMA NextKind == ASSUME TypeOK, [Next]_vars PROVE StepKind
  BY ThreadKind, OthersKind DEF Next, Terminated, StepKind

-----------------------------------------------------------------------------
(* Invariants.                                                             *)

(* The map of a scheduler names a child's program, for every number of     *)
(* schedulers, with and without limits: waitpid finds an unknown child     *)
(* only when another scheduler reaps it.                                   *)
LEMMA KnownChildrenStep == ASSUME TypeOK, KnownChildren, [Next]_vars PROVE KnownChildren'
  <1> SUFFICES ASSUME NEW j \in Pids, Unreaped(j)'
               PROVE  \E t \in Schedulers : Owns(t, kid'[j].prog) /\ running'[t][j] = kid'[j].prog
    BY DEF KnownChildren, Owns
  <1> USE DEF TypeOK, KernelTypeOK, SharedTypeOK, KnownChildren, Unreaped
  <1>1. CASE CalmStep \/ \E p \in Programs : LimitStep(p)
    BY <1>1 DEF CalmStep, LimitStep, SameChildren, Owns
  <1>2. ASSUME NEW s \in Schedulers, NEW k \in Pids, NEW p \in Range(Progs[s]), StartStep(s, p, k)
        PROVE  \E t \in Schedulers : Owns(t, kid'[j].prog) /\ running'[t][j] = kid'[j].prog
    <2>1. CASE j = k
      BY <1>2, <2>1 DEF StartStep, Forked, Register, Owns
    <2>2. CASE j # k
      BY <1>2, <2>2 DEF StartStep, Forked, Register, Owns
    <2> QED
      BY <2>1, <2>2
  <1>3. ASSUME NEW s \in Schedulers, NEW k \in Pids, DeathStep(s, k) \/ LostStep(s, k)
        PROVE  \E t \in Schedulers : Owns(t, kid'[j].prog) /\ running'[t][j] = kid'[j].prog
    <2>1. kid' = Reaped(k) /\ (running' = Unregister(s, k) \/ running' = running)
      BY <1>3 DEF DeathStep, LostStep
    <2>2. j # k /\ kid'[j] = kid[j]
      BY <2>1 DEF Reaped, Free
    <2>3. CASE running' = running
      BY <2>2, <2>3 DEF Owns
    <2>4. CASE running' = Unregister(s, k)
      <3>1. \A t \in Schedulers : running'[t][j] = running[t][j]
        BY <2>2, <2>4, ProgsType DEF Unregister
      <3> QED
        BY <2>2, <3>1 DEF Owns
    <2> QED
      BY <2>1, <2>3, <2>4
  <1> QED
    BY <1>1, <1>2, <1>3, NextKind DEF StepKind, ThreadStepKind

THEOREM ChildrenKnown == Spec => []KnownChildren
  <1>1. Init => KnownChildren
    BY DEF Init, Prepared, KernelInit, Free, KnownChildren, Unreaped
  <1>2. TypeOK /\ KnownChildren /\ [Next]_vars => KnownChildren'
    BY KnownChildrenStep
  <1> QED
    BY <1>1, <1>2, TypeCorrect, PTL DEF Spec

(* A lone scheduler has each child in its map, and meets no other.         *)
LEMMA NeverNullStep ==
    ASSUME NEW s0, Schedulers = {s0}, TypeOK, KnownChildren, NeverNull, [Next]_vars
    PROVE  NeverNull'
  <1>1. ASSUME NEW s \in Schedulers, NEW k \in Pids, Unreaped(k)
        PROVE  running[s][k] # NoProg
    BY <1>1, KernelAssumption DEF TypeOK, KernelTypeOK, Kid, KidRecord, Unreaped, KnownChildren
  <1>2. ASSUME NEW s \in Schedulers, Thread(s) PROVE NeverNull'
    <2>1. ~ReapUnknown(s) /\ ~WaitUnknown(s) /\ ~LastUnknown(s)
      BY <1>1 DEF ReapUnknown, WaitUnknown, LastUnknown, UnknownDeath, Reapable, Matches
    <2>2. pc' = pc \/ \E l \in Labels \ {"dead"} : Goto(s, l)
      <3>1. ASSUME NEW sq, NEW p, Run(s, p, sq), UNCHANGED pc PROVE pc' = pc
        BY <3>1
      <3>2. ASSUME NEW k \in Pids, ReapChild(s, k) PROVE pc' = pc \/ Goto(s, "act")
        BY <3>2 DEF ReapChild, WhatNext
      <3> QED
        BY <1>2, <2>1, <3>2
           DEF Thread, StartPass, LeaveLoop, DoExit, DoRun, DoEnd, DoNoStart, NotYet, PassDone,
               Erase, EraseDone, CheckLimit, LimitsDone, ReapNone, ReapDone, ActStartNow, ActQueue,
               ActSkip, ActDone, SendStop, StopsSent, NextRound, StopWaiting, WaitDeath, WaitNobody,
               RoundDone, SendKill, KillsSent, LastDeath, LastNobody, GiveUp, BecomeReady, Labels
    <2> QED
      BY <2>2 DEF NeverNull, Goto, TypeOK, ThreadTypeOK
  <1>3. ASSUME Commands \/ World \/ UNCHANGED vars PROVE NeverNull'
    BY <1>3 DEF Commands, CmdStart, CmdStop, CmdQuit, PushQuit, CmdQuitOne, CtrlC, World, KidEnds, KidIsKilled,
                Elapse, Tick, allButKid, threadVars, vars, NeverNull
  <1> QED
    BY <1>2, <1>3 DEF Next, Terminated

(* With one scheduler no thread ever meets a child it does not know: it    *)
(* only ends READY.                                                        *)
THEOREM OneSchedulerNeverNull ==
    ASSUME NEW s0, Schedulers = {s0} PROVE Spec => []NeverNull
  <1>1. Init => NeverNull
    BY DEF Init, Prepared, NeverNull
  <1>2. TypeOK /\ KnownChildren /\ NeverNull /\ [Next]_vars => NeverNull'
    BY NeverNullStep
  <1> QED
    BY <1>1, <1>2, TypeCorrect, ChildrenKnown, PTL DEF Spec

-----------------------------------------------------------------------------
(* Programs without a maxruntime.                                          *)

NoMaxRun == \A p \in Programs : ~MaxRun[p]

(* What makes Tracked inductive: a scheduler's map names a program only    *)
(* under the pid the program has, and the child of a program runs the      *)
(* command its sequence is at.                                             *)
MapAgrees ==
    \A s \in Schedulers, k \in Pids : running[s][k] # NoProg => pid[running[s][k]] = k

TrackedInv == Tracked /\ MapAgrees /\ SequenceInStep

LEMMA TrackedStep ==
    ASSUME NoMaxRun, TypeOK, KnownChildren, TrackedInv, [Next]_vars PROVE TrackedInv'
  <1> USE DEF TypeOK, KernelTypeOK, ProgramTypeOK, SharedTypeOK, TrackedInv, Tracked, MapAgrees,
              SequenceInStep, Unreaped
  <1>1. CASE CalmStep
    BY <1>1 DEF CalmStep, SameChildren
  <1>2. ASSUME NEW s \in Schedulers, NEW k \in Pids, NEW p \in Range(Progs[s]), StartStep(s, p, k)
        PROVE  TrackedInv'
    <2>1. p \in Programs /\ pid[p] = NoPid /\ kid[k].st = "free"
      BY <1>2, ProgsType DEF StartStep, FreePids
    <2>2. \A j \in Pids : kid[j].st # "free" => kid[j].prog # p
      BY <2>1, KernelAssumption
    <2>3. \A t \in Schedulers, j \in Pids : running[t][j] # p
      <3> SUFFICES ASSUME NEW t \in Schedulers, NEW j \in Pids, running[t][j] = p PROVE FALSE
        OBVIOUS
      <3>1. pid[p] = j
        BY <2>1, KernelAssumption
      <3> QED
        BY <2>1, <3>1, KernelAssumption
    <2>4. Tracked'
      BY <1>2, <2>1, <2>2 DEF StartStep, Forked, Kid, KidRecord
    <2>5. MapAgrees'
      BY <1>2, <2>1, <2>3 DEF StartStep, Register
    <2>6. SequenceInStep'
      BY <1>2, <2>1 DEF StartStep, Forked
    <2> QED
      BY <2>4, <2>5, <2>6
  <1>3. ASSUME NEW s \in Schedulers, NEW k \in Pids, DeathStep(s, k) PROVE TrackedInv'
    <2> DEFINE p == running[s][k]
    <2>1. p \in Programs /\ pid[p] = k
      BY <1>3, ProgsType DEF DeathStep
    <2>2. \A j \in Pids : j # k /\ kid[j].st # "free" => kid[j].prog # p
      BY <2>1
    <2>3. \A t \in Schedulers, j \in Pids : running[t][j] = p => t = s /\ j = k
      BY <2>1, SchedulerAssumption, KernelAssumption, <1>3 DEF DeathStep
    <2>4. \A j \in Pids : (kid'[j].st # "free") => j # k /\ kid'[j] = kid[j]
      BY <1>3 DEF DeathStep, Reaped, Free
    <2>5. Tracked'
      BY <1>3, <2>1, <2>2, <2>4 DEF DeathStep, ClearPid
    <2>6. MapAgrees'
      BY <1>3, <2>1, <2>3 DEF DeathStep, ClearPid, Unregister
    <2>7. SequenceInStep'
      BY <1>3, <2>1, <2>2, <2>4 DEF DeathStep
    <2> QED
      BY <2>5, <2>6, <2>7
  <1>4. ASSUME NEW s \in Schedulers, NEW k \in Pids, LostStep(s, k) PROVE TrackedInv'
    BY <1>4 DEF LostStep, Reaped, Free
  <1>5. ASSUME NEW p \in Programs, LimitStep(p) PROVE TrackedInv'
    BY <1>5 DEF LimitStep, NoMaxRun
  <1> QED
    BY <1>1, <1>2, <1>3, <1>4, <1>5, NextKind DEF StepKind, ThreadStepKind

LEMMA TrackedInvariant == ASSUME NoMaxRun PROVE Spec => []TrackedInv
  <1>1. Init => TrackedInv
    BY DEF Init, Prepared, KernelInit, Free, TrackedInv, Tracked, MapAgrees, SequenceInStep, Unreaped
  <1>2. TypeOK /\ KnownChildren /\ TrackedInv /\ [Next]_vars => TrackedInv'
    BY TrackedStep
  <1> QED
    BY <1>1, <1>2, TypeCorrect, ChildrenKnown, PTL DEF Spec

(* Without a maxruntime a program has one child at most, the one its pid   *)
(* names, for any number of schedulers.                                    *)
THEOREM ChildrenTracked == ASSUME NoMaxRun PROVE Spec => []Tracked
  <1>1. TrackedInv => Tracked
    BY DEF TrackedInv
  <1> QED
    BY <1>1, TrackedInvariant, PTL

(* Without a maxruntime the child of a program runs the command the        *)
(* sequence of the program is at.                                          *)
THEOREM SequencesInStep == ASSUME NoMaxRun PROVE Spec => []SequenceInStep
  <1>1. TrackedInv => SequenceInStep
    BY DEF TrackedInv
  <1> QED
    BY <1>1, TrackedInvariant, PTL
=============================================================================
