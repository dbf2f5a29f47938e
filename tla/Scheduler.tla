------------------------------ MODULE Scheduler ------------------------------
(***************************************************************************)
(* The scheduler threads of PETeR: scheduler() of src/src/Scheduler.cc with *)
(* Program::run() and Program::what_next() of src/src/Program.cc, which it *)
(* calls, the children it starts, and the work units that the socket       *)
(* thread (Socket.cc) and the main thread (main.cc) hand to it.            *)
(*                                                                         *)
(* One step of a thread handles one work unit, one program, one waitpid or *)
(* one Action; between two steps children end, time passes, commands       *)
(* arrive and the other schedulers work.                                   *)
(***************************************************************************)
EXTENDS Program

CONSTANTS
    Schedulers,     \* the Scheduler objects that read_config creates
    Progs,          \* Progs[s]: the programs of s, in the order of the configuration
    InitSchedule,   \* InitSchedule[s]: the work units read_config adds for <init>
    Order,          \* the vector `schedulers`: the order in which they are visited
    Statuses,       \* Statuses[p]: how a child of p can end of its own accord
    RunOutcomes,    \* RunOutcomes[p]: what run() may meet before it forks
    WaitTries,      \* 10000 in the code: rounds of the wait after the stop signal
    KillTries,      \* 1000 in the code: rounds of the wait after SIGKILL
    MaxCmds,        \* bound: commands that arrive in a behaviour
    CmdKinds        \* the commands this instance sends

UnitTypes == {"EXIT", "RUN", "END", "NOSTART", "NOTINIT"}

(* A WorkUnit; due is t_at <= now.                                         *)
WorkUnit == [type : UnitTypes, prog : Programs \cup {NoProg}, due : BOOLEAN]
Unit(t, p, d) == [type |-> t, prog |-> p, due |-> d]
(* The work units of s: RUN and END name a program of s.                   *)
UnitsOf(s) == {wu \in WorkUnit : wu.type \in {"RUN", "END"} => wu.prog \in Range(Progs[s])}
ExitUnit == Unit("EXIT", NoProg, TRUE)
Used == Unit("NOTINIT", NoProg, TRUE)

ASSUME SchedulerAssumption ==
    /\ Progs \in [Schedulers -> Seq(Programs)]
    /\ \A s \in Schedulers : \A i, j \in DOMAIN Progs[s] : Progs[s][i] = Progs[s][j] => i = j
    /\ \A s, t \in Schedulers : s # t => Range(Progs[s]) \cap Range(Progs[t]) = {}
    /\ Programs = UNION {Range(Progs[s]) : s \in Schedulers}
    /\ InitSchedule \in [Schedulers -> Seq(WorkUnit)]
    /\ \A s \in Schedulers : InitSchedule[s] \in Seq(UnitsOf(s))
    /\ Order \in Seq(Schedulers)
    /\ Range(Order) = Schedulers
    /\ \A i, j \in DOMAIN Order : Order[i] = Order[j] => i = j
    /\ Statuses \in [Programs -> SUBSET Status]
    /\ RunOutcomes \in [Programs -> SUBSET {"ok", "missing", "nolog"}]
    /\ WaitTries \in Nat
    /\ KillTries \in Nat
    /\ MaxCmds \in Nat
    /\ CmdKinds \subseteq {"start", "stop", "quit", "quit_one", "ctrl_c"}

VARIABLES
    pc,         \* pc[s]: where the thread of s is
    ix,         \* ix[s]: the position of its wui, or pri, iterator
    wpid,       \* wpid[s]: pid, what it waits for in the loop that reaps
    job,        \* job[s]: what_next() in progress: for whom, actions to do, limit_reached
    cnt,        \* cnt[s]: p_count, k_count and tries
    mode,       \* mode[s]: "ON" or "OFF"; OFF asks the thread to end
    status,     \* status[s]: what main waits for
    schedule,   \* schedule[s]: the vector of work units
    running,    \* running[s]: the map from pid to Program
    changed,    \* changed[s]: the counter changed is not 0
    elog,       \* elog[p]: the latest start, end or crash in the event list, with its signal
    up,         \* the PETeR process exists
    ncmd,       \* the number of commands so far
    sock        \* the schedulers to which <quit/> is still to be passed on

threadVars == <<pc, ix, wpid, job, cnt>>
sharedVars == <<mode, status, schedule, running, changed>>
vars == <<kid, programVars, threadVars, sharedVars, elog, up, ncmd, sock>>

Labels == {"top", "pass", "erase", "limit", "reap", "act",
           "sig", "round", "wait", "kill", "wait9", "ready", "dead"}

NoJob == [self |-> NoProg, todo |-> << >>, lim |-> FALSE]
NoCount == [p |-> 0, k |-> 0, tries |-> 0]
NoEvent == [ev |-> "none", sig |-> 0]
Event(e, g) == [ev |-> e, sig |-> g]

(* What read_config and the constructors leave, but for the status.        *)
Prepared ==
    /\ KernelInit
    /\ ProgramInit
    /\ pc = [s \in Schedulers |-> "top"]
    /\ ix = [s \in Schedulers |-> 1]
    /\ wpid = [s \in Schedulers |-> NoPid]
    /\ job = [s \in Schedulers |-> NoJob]
    /\ cnt = [s \in Schedulers |-> NoCount]
    /\ mode = [s \in Schedulers |-> "ON"]
    /\ schedule = InitSchedule
    /\ running = [s \in Schedulers |-> [k \in Pids |-> NoProg]]
    /\ changed = [s \in Schedulers |-> TRUE]
    /\ elog = [p \in Programs |-> NoEvent]
    /\ up = TRUE
    /\ ncmd = 0
    /\ sock = << >>

(* main() has called start() on every scheduler. Module Peter has the      *)
(* launch itself.                                                          *)
Init == Prepared /\ status = [s \in Schedulers |-> "RUNNING"]

At(s, label) == up /\ pc[s] = label
Goto(s, label) == pc' = [pc EXCEPT ![s] = label]
Advance(s) == ix' = [ix EXCEPT ![s] = @ + 1]
Rewind(s) == ix' = [ix EXCEPT ![s] = 1]

(* The program the iterator over s->programs is at, and its pid.           *)
NumProgs(s) == Len(Progs[s])
PidAt(s, i) == IF i \in 1..NumProgs(s) THEN pid[Progs[s][i]] ELSE NoPid

UnitAt(s) == schedule[s][ix[s]]
MarkUsed(s) == [schedule[s] EXCEPT ![ix[s]] = Used]
SetSchedule(s, sq) == schedule' = [schedule EXCEPT ![s] = sq]

(* running[ k ] = p and running[ k ] = NULL.                               *)
RegisterForgotten(s, k, p) == running                            \* mutant
Register(s, k, p) == [running EXCEPT ![s][k] = p]

UnregisterProgram(s, k) ==                                       \* mutant
    [running EXCEPT ![s] = [j \in Pids |-> IF @[j] = @[k] THEN NoProg ELSE @[j]]]
Unregister(s, k) == [running EXCEPT ![s][k] = NoProg]

(***************************************************************************)
(* Program::run( s ), called with sq as the schedule of s.                 *)
(***************************************************************************)
AlreadyRunning(s, p, sq) ==
    /\ ~NotRunning(p)
    /\ SetSchedule(s, sq)
    /\ UNCHANGED <<kid, programVars, running, elog, up>>

Launch(s, p, sq) ==
    /\ NotRunning(p)
    /\ "ok" \in RunOutcomes[p]
    /\ \E k \in FreePids :
         /\ kid' = Forked(k, p, seq_idx[p])
         /\ pid' = [pid EXCEPT ![p] = k]
         /\ running' = Register(s, k, p)
    /\ starts' = [starts EXCEPT ![p] = CountedStart(p)]
    /\ age' = [age EXCEPT ![p] = Young]
    /\ ran' = [ran EXCEPT ![p] = Young]
    /\ elog' = [elog EXCEPT ![p] = Event("START", 0)]
    /\ SetSchedule(s, sq)
    /\ UNCHANGED <<seq_idx, stop_mode, up>>

(* fork() failed: exit(1), the other threads end as well.                  *)
ForkFails(s, p, sq) ==
    /\ NotRunning(p)
    /\ "ok" \in RunOutcomes[p]
    /\ FreePids = {}
    /\ up' = FALSE
    /\ SetSchedule(s, sq)
    /\ UNCHANGED <<kid, programVars, running, elog>>

(* The home directory or the binary is not there.                          *)
CannotRunQuietly(s, p, sq) ==                                    \* mutant
    /\ NotRunning(p)
    /\ "missing" \in RunOutcomes[p]
    /\ SetSchedule(s, sq)
    /\ UNCHANGED <<kid, programVars, running, elog, up>>
CannotRun(s, p, sq) ==
    /\ NotRunning(p)
    /\ "missing" \in RunOutcomes[p]
    /\ SetSchedule(s, Append(sq, ExitUnit))
    /\ UNCHANGED <<kid, programVars, running, elog, up>>

(* A log file cannot be opened: run() gives up and leaves it at that.      *)
NoLogFileLogged(s, p, sq) ==                                     \* mutant
    /\ NotRunning(p)
    /\ "nolog" \in RunOutcomes[p]
    /\ SetSchedule(s, sq)
    /\ elog' = [elog EXCEPT ![p] = Event("START", 0)]
    /\ UNCHANGED <<kid, programVars, running, up>>
NoLogFile(s, p, sq) ==
    /\ NotRunning(p)
    /\ "nolog" \in RunOutcomes[p]
    /\ SetSchedule(s, sq)
    /\ UNCHANGED <<kid, programVars, running, elog, up>>

Run(s, p, sq) ==
    \/ AlreadyRunning(s, p, sq)
    \/ Launch(s, p, sq)
    \/ ForkFails(s, p, sq)
    \/ CannotRun(s, p, sq)
    \/ NoLogFile(s, p, sq)

(***************************************************************************)
(* The loop of scheduler(), while mode is not OFF.                         *)
(***************************************************************************)
(* `now` is read: the times of death the coming pass records.              *)
StartPass(s) ==
    /\ At(s, "top")
    /\ mode[s] # "OFF"
    /\ Goto(s, "pass") /\ Rewind(s)
    /\ ran' = [p \in Programs |-> IF p \in Range(Progs[s]) THEN age[p] ELSE ran[p]]
    /\ UNCHANGED <<kid, pid, starts, seq_idx, stop_mode, age, wpid, job, cnt, sharedVars, elog, up, ncmd, sock>>

LeaveLoop(s) ==
    /\ At(s, "top")
    /\ mode[s] = "OFF"
    /\ Goto(s, "sig") /\ Rewind(s)
    /\ status' = [status EXCEPT ![s] = "ENDING"]
    /\ cnt' = [cnt EXCEPT ![s] = NoCount]
    /\ UNCHANGED <<kid, programVars, wpid, job, mode, schedule, running, changed, elog, up, ncmd, sock>>

(* First pass: do what is due.                                             *)
InPass(s) == At(s, "pass") /\ ix[s] <= Len(schedule[s])

DoExit(s) ==
    /\ InPass(s)
    /\ UnitAt(s).type = "EXIT"
    /\ mode' = [mode EXCEPT ![s] = "OFF"]
    /\ SetSchedule(s, MarkUsed(s))
    /\ Advance(s)
    /\ UNCHANGED <<kid, programVars, pc, wpid, job, cnt, status, running, changed, elog, up, ncmd, sock>>

DoRun(s) ==
    /\ InPass(s)
    /\ UnitAt(s).type = "RUN" /\ UnitAt(s).due
    /\ Run(s, UnitAt(s).prog, MarkUsed(s))
    /\ Advance(s)
    /\ UNCHANGED <<pc, wpid, job, cnt, mode, status, changed, ncmd, sock>>

DoEnd(s) ==
    /\ InPass(s)
    /\ UnitAt(s).type = "END" /\ UnitAt(s).due
    /\ LET p == UnitAt(s).prog IN
         /\ stop_mode' = [stop_mode EXCEPT ![p] = 0]
         /\ kid' = Signalled(pid[p], StopSig[p])
    /\ SetSchedule(s, MarkUsed(s))
    /\ Advance(s)
    /\ UNCHANGED <<pid, starts, seq_idx, age, ran, pc, wpid, job, cnt, mode, status,
                   running, changed, elog, up, ncmd, sock>>

DoNoStart(s) ==
    /\ InPass(s)
    /\ UnitAt(s).type = "NOSTART"
    /\ SetSchedule(s, MarkUsed(s))
    /\ Advance(s)
    /\ UNCHANGED <<kid, programVars, pc, wpid, job, cnt, mode, status, running, changed, elog, up, ncmd, sock>>

NotYet(s) ==
    /\ InPass(s)
    /\ UnitAt(s).type \notin {"EXIT", "NOSTART"}
    /\ UnitAt(s).type \in {"RUN", "END"} => ~UnitAt(s).due
    /\ Advance(s)
    /\ UNCHANGED <<kid, programVars, pc, wpid, job, cnt, sharedVars, elog, up, ncmd, sock>>

PassDone(s) ==
    /\ At(s, "pass") /\ ix[s] > Len(schedule[s])
    /\ Goto(s, "erase") /\ Rewind(s)
    /\ UNCHANGED <<kid, programVars, wpid, job, cnt, sharedVars, elog, up, ncmd, sock>>

(* Second pass: erase the used work units.                                 *)
Erase(s) ==
    /\ At(s, "erase") /\ ix[s] <= Len(schedule[s])
    /\ IF UnitAt(s).type = "NOTINIT"
         THEN SetSchedule(s, RemoveAt(schedule[s], ix[s])) /\ UNCHANGED ix
         ELSE Advance(s) /\ UNCHANGED schedule
    /\ UNCHANGED <<kid, programVars, pc, wpid, job, cnt, mode, status, running, changed, elog, up, ncmd, sock>>

EraseDone(s) ==
    /\ At(s, "erase") /\ ix[s] > Len(schedule[s])
    /\ Goto(s, "limit") /\ Rewind(s)
    /\ UNCHANGED <<kid, programVars, wpid, job, cnt, sharedVars, elog, up, ncmd, sock>>

(* A program that runs longer than maxruntime is signalled and forgotten.  *)
CheckLimit(s) ==
    /\ At(s, "limit") /\ ix[s] <= NumProgs(s)
    /\ LET p == Progs[s][ix[s]] IN
         \/ /\ OverRunLimit(p)
            /\ kid' = Signalled(pid[p], StopSig[p])
            /\ pid' = ClearPid(p)
         \/ /\ ~OverRunLimit(p)
            /\ UNCHANGED <<kid, pid>>
    /\ Advance(s)
    /\ UNCHANGED <<starts, seq_idx, stop_mode, age, ran, pc, wpid, job, cnt, sharedVars, elog, up, ncmd, sock>>

LimitsDone(s) ==
    /\ At(s, "limit") /\ ix[s] > NumProgs(s)
    /\ Goto(s, "reap") /\ Rewind(s)
    /\ wpid' = [wpid EXCEPT ![s] = PidAt(s, 1)]
    /\ UNCHANGED <<kid, programVars, job, cnt, sharedVars, elog, up, ncmd, sock>>

(***************************************************************************)
(* Wait for deaths: for every program, waitpid(pid) while it returns one.  *)
(* pid is read before the inner loop and not again in it.                  *)
(***************************************************************************)
InReap(s) == At(s, "reap") /\ ix[s] <= NumProgs(s)

(* The child is not in the map of this scheduler: the thread returns.      *)
ReapUnknown(s) ==
    /\ InReap(s)
    /\ \E k \in Reapable(wpid[s]) :
         /\ running[s][k] = NoProg
         /\ kid' = Reaped(k)
    /\ Goto(s, "dead")
    /\ UNCHANGED <<programVars, ix, wpid, job, cnt, sharedVars, elog, up, ncmd, sock>>

(* The pid is cleared, the event logged, and what_next() decides up to the *)
(* list of actions, which state "act" then goes through.                   *)
WhatNext(s, p, st) ==
    \/ /\ stop_mode[p] = 1
       /\ stop_mode' = [stop_mode EXCEPT ![p] = 0]
       /\ changed' = [changed EXCEPT ![s] = TRUE]
       /\ UNCHANGED <<seq_idx, schedule, pc, job>>
    \/ /\ stop_mode[p] # 1 /\ ~LastInSequence(p)
       /\ seq_idx' = [seq_idx EXCEPT ![p] = NextSeqIdx(p)]
       /\ SetSchedule(s, Append(schedule[s], Unit("RUN", p, TRUE)))
       /\ changed' = [changed EXCEPT ![s] = TRUE]
       /\ UNCHANGED <<stop_mode, pc, job>>
    \/ /\ stop_mode[p] # 1 /\ LastInSequence(p) /\ ~HasActions(p, st)
       /\ seq_idx' = [seq_idx EXCEPT ![p] = NextSeqIdx(p)]
       /\ changed' = [changed EXCEPT ![s] = TRUE]
       /\ UNCHANGED <<stop_mode, schedule, pc, job>>
    \/ /\ stop_mode[p] # 1 /\ LastInSequence(p) /\ HasActions(p, st)
       /\ seq_idx' = [seq_idx EXCEPT ![p] = NextSeqIdx(p)]
       /\ job' = [job EXCEPT ![s] = [self |-> p, todo |-> ActionsFor(p, st), lim |-> LimitReached(p)]]
       /\ Goto(s, "act")
       /\ UNCHANGED <<stop_mode, schedule, changed>>

(* EVT_CRASH for a signal, unless stop_mode says otherwise, else EVT_END.  *)
DeathEvent(p, st) ==
    IF st.sig = 0 THEN Event("END", 0)
    ELSE IF stop_mode[p] = 0 THEN Event("CRASH", st.sig) ELSE elog[p]

ReapChild(s, k) ==
    /\ InReap(s)
    /\ k \in Reapable(wpid[s])
    /\ LET p == running[s][k]
           st == kid[k].status
       IN  /\ p # NoProg
           /\ kid' = Reaped(k)
           /\ running' = Unregister(s, k)
           /\ pid' = ClearPid(p)
           /\ elog' = [elog EXCEPT ![p] = DeathEvent(p, st)]
           /\ WhatNext(s, p, st)
    /\ UNCHANGED <<starts, age, ran, ix, wpid, cnt, mode, status, up, ncmd, sock>>

(* waitpid() found nobody dead: on to the next program.                    *)
ReapNone(s) ==
    /\ InReap(s)
    /\ Reapable(wpid[s]) = {}
    /\ Advance(s)
    /\ wpid' = [wpid EXCEPT ![s] = PidAt(s, ix[s] + 1)]
    /\ UNCHANGED <<kid, programVars, pc, job, cnt, sharedVars, elog, up, ncmd, sock>>

ReapDone(s) ==
    /\ At(s, "reap") /\ ix[s] > NumProgs(s)
    /\ Goto(s, "top")
    /\ UNCHANGED <<kid, programVars, ix, wpid, job, cnt, sharedVars, elog, up, ncmd, sock>>

(***************************************************************************)
(* The loop of what_next() over the actions.                               *)
(***************************************************************************)
(* get_program_by_name(): looked up among the programs of s, else self.    *)
Target(s, self, a) == IF a.prog \in Range(Progs[s]) THEN a.prog ELSE self

InActions(s) == At(s, "act") /\ job[s].todo # << >>
ActionAt(s) == Head(job[s].todo)
TargetAt(s) == Target(s, job[s].self, ActionAt(s))
NextAction(s) ==
    job' = [job EXCEPT ![s] = [self |-> @.self, todo |-> Tail(@.todo), lim |-> @.lim]]
SkippedStart(s) == job[s].lim /\ TargetAt(s) = job[s].self

(* <start/> of the program itself, without a delay: run() at once.         *)
ActStartNow(s) ==
    /\ InActions(s)
    /\ ActionAt(s).type = "start" /\ ~SkippedStart(s)
    /\ TargetAt(s) = job[s].self /\ ~ActionAt(s).after
    /\ Run(s, job[s].self, schedule[s])
    /\ NextAction(s)
    /\ UNCHANGED <<pc, ix, wpid, cnt, mode, status, changed, ncmd, sock>>

(* The other actions put a work unit in the schedule, or do nothing.       *)
ActQueue(s) ==
    /\ InActions(s)
    /\ LET a == ActionAt(s)
           p == TargetAt(s)
       IN  \/ /\ a.type = "start" /\ ~SkippedStart(s)
              /\ p # job[s].self \/ a.after
              /\ SetSchedule(s, Append(schedule[s], Unit("RUN", p, ~a.after)))
           \/ /\ a.type = "stop" /\ p # job[s].self
              /\ SetSchedule(s, Append(schedule[s], Unit("END", p, ~a.after)))
           \/ /\ a.type = "exit"
              /\ SetSchedule(s, Append(schedule[s], ExitUnit))
    /\ NextAction(s)
    /\ UNCHANGED <<kid, programVars, pc, ix, wpid, cnt, mode, status, running, changed, elog, up, ncmd, sock>>

ActSkip(s) ==
    /\ InActions(s)
    /\ \/ ActionAt(s).type = "start" /\ SkippedStart(s)
       \/ ActionAt(s).type = "stop" /\ TargetAt(s) = job[s].self
    /\ NextAction(s)
    /\ UNCHANGED <<kid, programVars, pc, ix, wpid, cnt, sharedVars, elog, up, ncmd, sock>>

ActDone(s) ==
    /\ At(s, "act") /\ job[s].todo = << >>
    /\ Goto(s, "reap")
    /\ job' = [job EXCEPT ![s] = NoJob]
    /\ changed' = [changed EXCEPT ![s] = TRUE]
    /\ UNCHANGED <<kid, programVars, ix, wpid, cnt, mode, status, schedule, running, elog, up, ncmd, sock>>

(***************************************************************************)
(* After the loop: stop the programs, wait for them, kill what is left.    *)
(***************************************************************************)
(* The stop signal to every program that has a pid; kill() tells whether   *)
(* it counts.                                                              *)
SendStop(s) ==
    /\ At(s, "sig") /\ ix[s] <= NumProgs(s)
    /\ LET p == Progs[s][ix[s]] IN
         /\ kid' = Signalled(pid[p], StopSig[p])
         /\ cnt' = IF KillSucceeds(pid[p]) THEN [cnt EXCEPT ![s].p = @ + 1] ELSE cnt
    /\ Advance(s)
    /\ UNCHANGED <<programVars, pc, wpid, job, sharedVars, elog, up, ncmd, sock>>

StopsSent(s) ==
    /\ At(s, "sig") /\ ix[s] > NumProgs(s)
    /\ status' = [status EXCEPT ![s] = "WAITING"]
    /\ cnt' = [cnt EXCEPT ![s] = [p |-> @.p, k |-> @.p, tries |-> WaitTries]]
    /\ Goto(s, "round")
    /\ UNCHANGED <<kid, programVars, ix, wpid, job, mode, schedule, running, changed, elog, up, ncmd, sock>>

(* ( tries-- > 0 ) && ( k_count > 0 )                                      *)
MoreTries(s) == cnt[s].tries > 0 /\ cnt[s].k > 0
OneTryLessForgotten(s) == cnt                                    \* mutant
OneTryLess(s) == [cnt EXCEPT ![s].tries = @ - 1]

NextRound(s) ==
    /\ At(s, "round") /\ MoreTries(s)
    /\ cnt' = OneTryLess(s)
    /\ Goto(s, "wait") /\ Rewind(s)
    /\ UNCHANGED <<kid, programVars, wpid, job, sharedVars, elog, up, ncmd, sock>>

BecomeReady(s) ==
    /\ status' = [status EXCEPT ![s] = "READY"]
    /\ Goto(s, "ready")
    /\ UNCHANGED <<mode, schedule, running, changed>>

(* if ( p_count > 0 )                                                      *)
ProgramsLeftButOne(s) == cnt[s].p > 1                            \* mutant
ProgramsLeft(s) == cnt[s].p > 0

(* Programs left: kill them, counting from 0 again; or else we are ready.  *)
StopWaiting(s) ==
    /\ At(s, "round") /\ ~MoreTries(s)
    /\ IF ProgramsLeft(s)
         THEN /\ Goto(s, "kill") /\ Rewind(s)
              /\ cnt' = [cnt EXCEPT ![s].p = 0]
              /\ UNCHANGED sharedVars
         ELSE BecomeReady(s) /\ UNCHANGED <<ix, cnt>>
    /\ UNCHANGED <<kid, programVars, wpid, job, elog, up, ncmd, sock>>

(* waitpid( w ) in either wait: a death is counted off in p_count and in   *)
(* k_count, the absence of children in k_count only.                       *)
CountDeath(s, w) ==
    \E k \in Reapable(w) :
      LET p == running[s][k] IN
      /\ p # NoProg
      /\ kid' = Reaped(k)
      /\ running' = Unregister(s, k)
      /\ pid' = ClearPid(p)

UnknownDeath(s, w) ==
    \E k \in Reapable(w) : running[s][k] = NoProg /\ kid' = Reaped(k)

(* One program's waitpid( pid ) in a round.                                *)
InWait(s) == At(s, "wait") /\ ix[s] <= NumProgs(s)

WaitDeath(s) ==
    /\ InWait(s)
    /\ CountDeath(s, PidAt(s, ix[s]))
    /\ cnt' = [cnt EXCEPT ![s] = [p |-> @.p - 1, k |-> @.k - 1, tries |-> @.tries]]
    /\ Advance(s)
    /\ UNCHANGED <<starts, seq_idx, stop_mode, age, ran, pc, wpid, job,
                   mode, status, schedule, changed, elog, up, ncmd, sock>>

WaitUnknown(s) ==
    /\ InWait(s)
    /\ UnknownDeath(s, PidAt(s, ix[s]))
    /\ Goto(s, "dead")
    /\ UNCHANGED <<programVars, ix, wpid, job, cnt, sharedVars, elog, up, ncmd, sock>>

WaitNobody(s) ==
    /\ InWait(s)
    /\ Reapable(PidAt(s, ix[s])) = {}
    /\ cnt' = IF NoChild(PidAt(s, ix[s])) THEN [cnt EXCEPT ![s].k = @ - 1] ELSE cnt
    /\ Advance(s)
    /\ UNCHANGED <<kid, programVars, pc, wpid, job, sharedVars, elog, up, ncmd, sock>>

RoundDone(s) ==
    /\ At(s, "wait") /\ ix[s] > NumProgs(s)
    /\ Goto(s, "round")
    /\ UNCHANGED <<kid, programVars, ix, wpid, job, cnt, sharedVars, elog, up, ncmd, sock>>

(* SIGKILL to every program that still has a pid.                          *)
SendKill(s) ==
    /\ At(s, "kill") /\ ix[s] <= NumProgs(s)
    /\ LET p == Progs[s][ix[s]] IN
         /\ kid' = Signalled(pid[p], SIGKILL)
         /\ cnt' = IF ~NotRunning(p) THEN [cnt EXCEPT ![s].p = @ + 1] ELSE cnt
    /\ Advance(s)
    /\ UNCHANGED <<programVars, pc, wpid, job, sharedVars, elog, up, ncmd, sock>>

KillsSent(s) ==
    /\ At(s, "kill") /\ ix[s] > NumProgs(s)
    /\ cnt' = [cnt EXCEPT ![s] = [p |-> @.p, k |-> @.p, tries |-> KillTries]]
    /\ Goto(s, "wait9")
    /\ UNCHANGED <<kid, programVars, ix, wpid, job, sharedVars, elog, up, ncmd, sock>>

(* The last wait: waitpid( 0 ), once a round.                              *)
LastDeath(s) ==
    /\ At(s, "wait9") /\ MoreTries(s)
    /\ CountDeath(s, NoPid)
    /\ cnt' = [cnt EXCEPT ![s] = [p |-> @.p - 1, k |-> @.k - 1, tries |-> @.tries - 1]]
    /\ UNCHANGED <<starts, seq_idx, stop_mode, age, ran, pc, ix, wpid, job,
                   mode, status, schedule, changed, elog, up, ncmd, sock>>

LastUnknown(s) ==
    /\ At(s, "wait9") /\ MoreTries(s)
    /\ UnknownDeath(s, NoPid)
    /\ Goto(s, "dead")
    /\ UNCHANGED <<programVars, ix, wpid, job, cnt, sharedVars, elog, up, ncmd, sock>>

LastNobody(s) ==
    /\ At(s, "wait9") /\ MoreTries(s)
    /\ Reapable(NoPid) = {}
    /\ cnt' = [cnt EXCEPT ![s] = [p |-> @.p, k |-> IF NoChild(NoPid) THEN @.k - 1 ELSE @.k,
                                   tries |-> @.tries - 1]]
    /\ UNCHANGED <<kid, programVars, pc, ix, wpid, job, sharedVars, elog, up, ncmd, sock>>

GiveUp(s) ==
    /\ At(s, "wait9") /\ ~MoreTries(s)
    /\ BecomeReady(s)
    /\ UNCHANGED <<kid, programVars, ix, wpid, job, cnt, elog, up, ncmd, sock>>

Thread(s) ==
    \/ StartPass(s) \/ LeaveLoop(s)
    \/ DoExit(s) \/ DoRun(s) \/ DoEnd(s) \/ DoNoStart(s) \/ NotYet(s) \/ PassDone(s)
    \/ Erase(s) \/ EraseDone(s)
    \/ CheckLimit(s) \/ LimitsDone(s)
    \/ ReapUnknown(s) \/ (\E k \in Pids : ReapChild(s, k)) \/ ReapNone(s) \/ ReapDone(s)
    \/ ActStartNow(s) \/ ActQueue(s) \/ ActSkip(s) \/ ActDone(s)
    \/ SendStop(s) \/ StopsSent(s) \/ NextRound(s) \/ StopWaiting(s)
    \/ WaitDeath(s) \/ WaitUnknown(s) \/ WaitNobody(s) \/ RoundDone(s)
    \/ SendKill(s) \/ KillsSent(s)
    \/ LastDeath(s) \/ LastUnknown(s) \/ LastNobody(s) \/ GiveUp(s)

(***************************************************************************)
(* What the other threads do to a Scheduler: the commands of the socket    *)
(* (socket_thread() in Socket.cc) and control-C (main.cc).                 *)
(***************************************************************************)
Push(s, wu) == SetSchedule(s, Append(schedule[s], wu))

Command(kind) == up /\ kind \in CmdKinds /\ ncmd < MaxCmds /\ ncmd' = ncmd + 1

(* The socket thread does one command after the other.                     *)
SocketCommand(kind) == Command(kind) /\ sock = << >>

CmdStart(s, p) ==
    /\ SocketCommand("start") /\ p \in Range(Progs[s])
    /\ Push(s, Unit("RUN", p, TRUE))
    /\ UNCHANGED <<kid, programVars, threadVars, mode, status, running, changed, elog, up, sock>>

CmdStop(s, p) ==
    /\ SocketCommand("stop") /\ p \in Range(Progs[s])
    /\ Push(s, Unit("END", p, TRUE))
    /\ UNCHANGED <<kid, programVars, threadVars, mode, status, running, changed, elog, up, sock>>

(* <quit/> for every scheduler, one after the other, while they run; or    *)
(* for the one the command names.                                          *)
CmdQuit ==
    /\ SocketCommand("quit")
    /\ sock' = Order
    /\ UNCHANGED <<kid, programVars, threadVars, sharedVars, elog, up>>

SocketRestNone == << >>                                          \* mutant
SocketRest == Tail(sock)

PushQuit(s) ==
    /\ up /\ sock # << >> /\ Head(sock) = s
    /\ Push(s, ExitUnit)
    /\ sock' = SocketRest
    /\ UNCHANGED <<kid, programVars, threadVars, mode, status, running, changed, elog, up, ncmd>>

CmdQuitOne(s) ==
    /\ SocketCommand("quit_one")
    /\ Push(s, ExitUnit)
    /\ UNCHANGED <<kid, programVars, threadVars, mode, status, running, changed, elog, up, sock>>

CtrlC ==
    /\ Command("ctrl_c")
    /\ mode' = [s \in Schedulers |-> "OFF"]
    /\ UNCHANGED <<kid, programVars, threadVars, status, schedule, running, changed, elog, up, sock>>

Commands ==
    \/ \E s \in Schedulers, p \in Programs : CmdStart(s, p) \/ CmdStop(s, p)
    \/ CmdQuit
    \/ \E s \in Schedulers : PushQuit(s) \/ CmdQuitOne(s)
    \/ CtrlC

(***************************************************************************)
(* The world: children end, time passes.                                   *)
(***************************************************************************)
allButKid == <<programVars, threadVars, sharedVars, elog, up, ncmd, sock>>

KidEnds(k) ==
    /\ up /\ Alive(k)
    /\ \E st \in Statuses[kid[k].prog] : Ends(k, st)
    /\ UNCHANGED allButKid

KidIsKilled(k, g) ==
    /\ up /\ KilledByPending(k, g)
    /\ UNCHANGED allButKid

(* The t_at of a work unit is reached.                                     *)
Elapse(s, wu) ==
    /\ up /\ ~wu.due
    /\ \E i \in DOMAIN schedule[s] :
         /\ schedule[s][i] = wu
         /\ SetSchedule(s, [schedule[s] EXCEPT ![i] = Unit(wu.type, wu.prog, TRUE)])
    /\ UNCHANGED <<kid, programVars, threadVars, mode, status, running, changed, elog, up, ncmd, sock>>

(* The age matters to programs with a limit on their run time only.        *)
Tick(p) ==
    /\ up
    /\ MinRun[p] \/ MaxRun[p]
    /\ \E k \in Pids : kid[k].prog = p
    /\ GrowOlder(p)
    /\ UNCHANGED <<kid, pid, starts, seq_idx, stop_mode, ran, threadVars, sharedVars, elog, up, ncmd, sock>>

World ==
    \/ \E k \in Pids : KidEnds(k) \/ \E g \in kid[k].pend : KidIsKilled(k, g)
    \/ \E s \in Schedulers : \E wu \in Range(schedule[s]) : Elapse(s, wu)
    \/ \E p \in Programs : Tick(p)

(* Nothing is left to happen: PETeR is gone, or its threads have ended.    *)
Finished == ~up \/ \A s \in Schedulers : pc[s] \in {"ready", "dead"}
Terminated == Finished /\ UNCHANGED vars

Next == (\E s \in Schedulers : Thread(s)) \/ Commands \/ World \/ Terminated

Spec == Init /\ [][Next]_vars

(***************************************************************************)
(* Fairness. The threads are detached pthreads that never block: each      *)
(* keeps running, and so does the loop of the socket thread over the       *)
(* schedulers. A delay elapses, and SIGKILL ends its target.               *)
(***************************************************************************)
Fairness ==
    /\ \A s \in Schedulers : WF_vars(Thread(s)) /\ WF_vars(PushQuit(s))
    /\ \A s \in Schedulers : \A wu \in UnitsOf(s) : WF_vars(Elapse(s, wu))
    /\ \A k \in Pids : WF_vars(KidIsKilled(k, SIGKILL))

FairSpec == Spec /\ Fairness
=============================================================================
