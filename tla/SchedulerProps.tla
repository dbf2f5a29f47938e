--------------------------- MODULE SchedulerProps ---------------------------
(***************************************************************************)
(* What the schedulers of PETeR promise.  Each property says which code it *)
(* is about; README.md says under which configurations it is checked and   *)
(* which of them are proved.                                               *)
(***************************************************************************)
EXTENDS Scheduler

Job == [self : Programs \cup {NoProg}, todo : Seq(Action), lim : BOOLEAN]
Count == [p : Int, k : Int, tries : Nat]

ThreadTypeOK ==
    /\ pc \in [Schedulers -> Labels]
    /\ ix \in [Schedulers -> Nat \ {0}]
    /\ wpid \in [Schedulers -> Pids \cup {NoPid}]
    /\ job \in [Schedulers -> Job]
    /\ \A s \in Schedulers : pc[s] = "act" => job[s].self \in Range(Progs[s])
    /\ cnt \in [Schedulers -> Count]

SharedTypeOK ==
    /\ mode \in [Schedulers -> {"ON", "OFF"}]
    /\ status \in [Schedulers -> {"INITIALISED", "RUNNING", "ENDING", "WAITING", "READY"}]
    /\ schedule \in [Schedulers -> Seq(WorkUnit)]
    /\ \A s \in Schedulers : schedule[s] \in Seq(UnitsOf(s))
    /\ running \in [Schedulers -> [Pids -> Programs \cup {NoProg}]]
    /\ \A s \in Schedulers, k \in Pids : running[s][k] \in Range(Progs[s]) \cup {NoProg}
    /\ changed \in [Schedulers -> BOOLEAN]

OtherTypeOK ==
    /\ elog \in [Programs -> [ev : {"none", "START", "END", "CRASH"}, sig : Nat]]
    /\ up \in BOOLEAN
    /\ ncmd \in 0..MaxCmds
    /\ sock \in Seq(Schedulers)

(* Every variable has the type its declaration in Program.h, Scheduler.h   *)
(* or WorkUnit.h gives it; a thread that runs an action list runs it for a *)
(* program of its own, and RUN and END units name such a program.          *)
TypeOK == KernelTypeOK /\ ProgramTypeOK /\ ThreadTypeOK /\ SharedTypeOK /\ OtherTypeOK

Owns(s, p) == p \in Range(Progs[s])

ChildrenOf(p) == {k \in Pids : Unreaped(k) /\ kid[k].prog = p}

(* The scheduler that forked a child still has it in its map: the lookup   *)
(* running[ cpid ] after waitpid finds the program, whatever the order of  *)
(* deaths, restarts, limits and commands (Scheduler.cc 182, 283, 324).     *)
KnownChildren ==
    \A k \in Pids : Unreaped(k) =>
        \E s \in Schedulers : Owns(s, kid[k].prog) /\ running[s][k] = kid[k].prog

(* "NULL Program?! Exit Scheduler." never happens: no thread returns       *)
(* before it is READY (Scheduler.cc 183-186, 284-287, 325-328).            *)
NeverNull == \A s \in Schedulers : pc[s] # "dead"

(* A child is the process its program's pid names, so a program has one    *)
(* instance at most, and the next stop, limit or quit finds it             *)
(* (Program.cc 87-91, Scheduler.cc 187-189).                               *)
Tracked == \A k \in Pids : Unreaped(k) => pid[kid[k].prog] = k

(* The pid of a program is that of its child, alive or not yet reaped:     *)
(* no start is refused, and no signal sent, because of a pid that is stale *)
(* (Program.cc 87-91, 316-333).                                            *)
PidIsChild ==
    \A p \in Programs : pid[p] # NoPid => Unreaped(pid[p]) /\ kid[pid[p]].prog = p

(* The child of a program runs the command the sequence is at: no command  *)
(* of a sequence is skipped or run twice because of deaths, starts and     *)
(* stops that cross (Program.cc 153, 479-487, 569-571).                    *)
SequenceInStep ==
    \A k \in Pids : Unreaped(k) => kid[k].cmd = seq_idx[kid[k].prog]

(* A sequence that is not at its first command, and does not run, has a    *)
(* work unit that will run its next command (Program.cc 482-487).          *)
SequenceContinues ==
    \A s \in Schedulers : \A p \in Range(Progs[s]) :
        (mode[s] = "ON" /\ seq_idx[p] # 0 /\ pid[p] = NoPid) =>
            \E i \in DOMAIN schedule[s] :
                schedule[s][i].type = "RUN" /\ schedule[s][i].prog = p

InLoop(s) == pc[s] \in {"top", "pass", "erase", "limit", "reap", "act"}

(* While a scheduler is in its loop, the event list tells the truth: the   *)
(* latest event of a program is a start exactly when it has a child        *)
(* (Program.cc 307, Scheduler.cc 198, 201).                                *)
LogTruth ==
    \A s \in Schedulers : (up /\ InLoop(s)) =>
        \A p \in Range(Progs[s]) : elog[p].ev = "START" <=> ChildrenOf(p) # {}

(* When a scheduler is READY, none of its programs is left running but     *)
(* those that SIGKILL has been sent to (Scheduler.cc 252-348; README 92-94 *)
(* and man/peter.1 105-111).                                               *)
NoSurvivor ==
    \A s \in Schedulers : status[s] = "READY" =>
        \A k \in Pids : (Alive(k) /\ Owns(s, kid[k].prog)) => SIGKILL \in kid[k].pend

(* A restart limit bounds the starts: with no start but the restarts of    *)
(* its own exit actions and one at startup, a program of n commands is     *)
(* started at most MaxStarts + n times (Program.cc 508-513, 538-540).      *)
RestartBudget ==
    \A p \in Programs : MaxStarts[p] # -1 => starts[p] <= MaxStarts[p] + SeqLen[p]

(* The thread of s is about to call kill() with the pid of p.              *)
Signalling(s, p) ==
    \/ InPass(s) /\ UnitAt(s).type = "END" /\ UnitAt(s).due /\ p = UnitAt(s).prog
    \/ /\ up /\ pc[s] \in {"limit", "sig", "kill"}
       /\ ix[s] <= NumProgs(s) /\ p = Progs[s][ix[s]]
       /\ pc[s] = "limit" => OverRunLimit(p)
SignalFor(s, p) == IF pc[s] = "kill" THEN SIGKILL ELSE StopSig[p]

(* A child is sent a signal by a thread that signals its program, and the  *)
(* signal is the one this thread means: kill() is never given a pid that   *)
(* has become another program's child, after its own was reaped and its    *)
(* pid used again (Program.cc 326-333, Scheduler.cc 120, 162, 257, 314).   *)
SignalsOwnChild ==
    [][\A k \in Pids : (Alive(k) /\ kid'[k].st = "alive" /\ kid'[k].pend # kid[k].pend) =>
         \E s \in Schedulers :
            /\ Signalling(s, kid[k].prog) /\ ix'[s] = ix[s] + 1
            /\ kid'[k].pend = kid[k].pend \cup {SignalFor(s, kid[k].prog)}]_vars

(* The loop that reaps ends each time it is entered.  It does not when a   *)
(* program that is started again at once dies before the next waitpid,     *)
(* every time and for ever: liveness is promised for the other behaviours. *)
ReapingEnds(s) == []<>(pc[s] \notin {"reap", "act"})

(* A quit that is in the schedule makes the scheduler READY, whatever the  *)
(* programs do (Scheduler.cc 99-103, 250-348).                             *)
QuitReady ==
    \A s \in Schedulers : ReapingEnds(s) =>
        ((\E i \in DOMAIN schedule[s] : schedule[s][i].type = "EXIT")
            ~> (status[s] = "READY" \/ ~up))

(* Once a scheduler is told to stop, its children end, all of them         *)
(* (Scheduler.cc 250-348).                                                 *)
ShutdownEndsAll ==
    \A s \in Schedulers : ReapingEnds(s) =>
        (mode[s] = "OFF" ~> ((\A k \in Pids : Owns(s, kid[k].prog) => ~Alive(k)) \/ ~up))

(* A program without a restart limit that ended is started again, for as   *)
(* long as its scheduler is not told to stop (Program.cc 467-567,          *)
(* man/peter.1 477-479).                                                   *)
Restarted ==
    \A s \in Schedulers : ReapingEnds(s) =>
        \A p \in {q \in Range(Progs[s]) : MaxStarts[q] = -1} :
          (elog[p].ev \in {"END", "CRASH"} /\ mode[s] = "ON")
            ~> (elog[p].ev = "START" \/ mode[s] = "OFF" \/ ~up)

(* A program whose binary is not there makes the scheduler end             *)
(* (Program.cc 138-148, 168-182, 212-221; man/peter.1 88-91).              *)
MissingEnds ==
    \A s \in Schedulers :
        (\E i \in DOMAIN schedule[s] : schedule[s][i].type = "RUN" /\ schedule[s][i].due
             /\ RunOutcomes[schedule[s][i].prog] = {"missing"} /\ mode[s] = "ON")
            ~> status[s] = "READY"

(***************************************************************************)
(* What documents and comments say that the code does not do: each is      *)
(* checked by a run that is expected to violate it.                        *)
(***************************************************************************)
(* "no matter what the result code is, and no matter how the program       *)
(* crashed, it will be restarted" (man/peter.1 477-479), of a program with *)
(* the default actions.                                                    *)
DefaultRestartsAlways == Restarted

(* "Programs that are still running after ten seconds will get a SIGKILL.  *)
(* When all programs have stopped, PETeR will exit." (README 92-94), of    *)
(* programs with a maxruntime.                                             *)
NoneLeftRunning == NoSurvivor

(* "Quits all running programs, and exits" (man/peter.1 216), with two     *)
(* schedulers: every one of them becomes READY, which main() waits for.    *)
QuitsAllSchedulers == QuitReady

=============================================================================
