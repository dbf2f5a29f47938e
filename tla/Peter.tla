-------------------------------- MODULE Peter --------------------------------
(***************************************************************************)
(* The PETeR process as a whole: main() of src/src/main.cc, which launches *)
(* the schedulers, polls them, keeps the pid file and waits for them to    *)
(* end, together with the scheduler threads, the commands of the socket    *)
(* thread and the world of module Scheduler.                               *)
(*                                                                         *)
(* main() reads and writes the members of the Scheduler objects without a  *)
(* lock.  Each of its accesses is a step of its own, so that the threads   *)
(* may come in between.                                                    *)
(***************************************************************************)
EXTENDS SchedulerProps

CONSTANT PidFileMayFail     \* the pid file is one that may not open

ASSUME PeterAssumption == PidFileMayFail \in BOOLEAN

VARIABLES
    mpc,        \* where main() is
    si,         \* the position of its iterator over the schedulers
    got,        \* what get_changed() read, before it clears the counter
    ctrl_c,     \* the flag that the signal handler sets
    launched,   \* the schedulers whose thread exists
    info,       \* the pids read so far for the pid file that is being written
    pidfile     \* the pids the pid file shows: none when it is empty or not there

mainVars == <<mpc, si, got, ctrl_c, launched, info, pidfile>>
peterVars == <<vars, mainVars>>

NoPids == << >>
MainLabels == {"launch", "mark", "poll", "clear", "open", "info", "signal", "off", "check", "gone"}

PeterInit ==
    /\ Prepared
    /\ status = [s \in Schedulers |-> "INITIALISED"]
    /\ mpc = "launch"
    /\ si = 1
    /\ got = FALSE
    /\ ctrl_c = FALSE
    /\ launched = {}
    /\ info = NoPids
    /\ pidfile = NoPids

MainAt(label) == up /\ mpc = label
Sched == Order[si]
More == si <= Len(Order)

(* pthread_create() fails: exit(3), with the threads that exist already.   *)
ThreadFails ==
    /\ MainAt("launch") /\ More
    /\ mode' = [mode EXCEPT ![Sched] = "ON"]
    /\ up' = FALSE
    /\ UNCHANGED <<kid, programVars, threadVars, status, schedule, running, changed, elog, ncmd, sock,
                   mainVars>>

(* start(): the thread exists before the status says RUNNING.  The loop    *)
(* that counts work units after it only delays.                            *)
CreateThread ==
    /\ MainAt("launch") /\ More
    /\ mode' = [mode EXCEPT ![Sched] = "ON"]
    /\ launched' = launched \cup {Sched}
    /\ mpc' = "mark"
    /\ UNCHANGED <<kid, programVars, threadVars, status, schedule, running, changed, elog, up, ncmd, sock,
                   si, got, ctrl_c, info, pidfile>>

MarkRunning ==
    /\ MainAt("mark")
    /\ status' = [status EXCEPT ![Sched] = "RUNNING"]
    /\ si' = si + 1
    /\ mpc' = "launch"
    /\ UNCHANGED <<kid, programVars, threadVars, mode, schedule, running, changed, elog, up, ncmd, sock,
                   got, ctrl_c, launched, info, pidfile>>

Launched ==
    /\ MainAt("launch") /\ ~More
    /\ mpc' = "poll" /\ si' = 1
    /\ UNCHANGED <<vars, got, ctrl_c, launched, info, pidfile>>

(* get_changed(): the counter is read, and then cleared.                   *)
ReadChanged ==
    /\ MainAt("poll") /\ More
    /\ got' = changed[Sched]
    /\ mpc' = "clear"
    /\ UNCHANGED <<vars, si, ctrl_c, launched, info, pidfile>>

ClearChanged ==
    /\ MainAt("clear")
    /\ changed' = [changed EXCEPT ![Sched] = FALSE]
    /\ IF got THEN mpc' = "open" /\ si' = 1         \* break
              ELSE mpc' = "poll" /\ si' = si + 1
    /\ UNCHANGED <<kid, programVars, threadVars, mode, status, schedule, running, elog, up, ncmd, sock,
                   ctrl_c, launched, info, pidfile>>
    /\ got' = FALSE

NothingChanged ==
    /\ MainAt("poll") /\ ~More
    /\ mpc' = "signal" /\ si' = 1
    /\ UNCHANGED <<vars, got, ctrl_c, launched, info, pidfile>>

(* The file is opened, and so emptied; when that fails nothing is written. *)
OpenPidFile ==
    /\ MainAt("open")
    /\ \/ mpc' = "info" /\ pidfile' = NoPids
       \/ PidFileMayFail /\ mpc' = "signal" /\ UNCHANGED pidfile
    /\ UNCHANGED <<vars, si, got, ctrl_c, launched, info>>

(* command( "info" ) of scheduler after scheduler: the pid of program      *)
(* after program, while the threads go on.                                 *)
Listed == FlattenSeq([i \in DOMAIN Order |-> Progs[Order[i]]])

ReadPid ==
    /\ MainAt("info") /\ si <= Len(Listed)
    /\ info' = (Listed[si] :> pid[Listed[si]]) @@ info
    /\ si' = si + 1
    /\ UNCHANGED <<vars, mpc, got, ctrl_c, launched, pidfile>>

WritePidFile ==
    /\ MainAt("info") /\ si > Len(Listed)
    /\ pidfile' = info
    /\ info' = NoPids
    /\ mpc' = "signal" /\ si' = 1
    /\ UNCHANGED <<vars, got, ctrl_c, launched>>

(* The test of ctrl_c; set_mode( SCHED_OFF ) for one scheduler after the   *)
(* other.                                                                  *)
TestCtrlC ==
    /\ MainAt("signal")
    /\ mpc' = IF ctrl_c THEN "off" ELSE "check"
    /\ UNCHANGED <<vars, si, got, ctrl_c, launched, info, pidfile>>

MoreToTurnOffButLast == si < Len(Order)                          \* mutant
MoreToTurnOff == More

TurnOff ==
    /\ MainAt("off") /\ MoreToTurnOff
    /\ mode' = [mode EXCEPT ![Sched] = "OFF"]
    /\ si' = si + 1
    /\ UNCHANGED <<kid, programVars, threadVars, status, schedule, running, changed, elog, up, ncmd, sock,
                   mpc, got, ctrl_c, launched, info, pidfile>>

AllTurnedOff ==
    /\ MainAt("off") /\ ~MoreToTurnOff
    /\ ctrl_c' = FALSE
    /\ mpc' = "check" /\ si' = 1
    /\ UNCHANGED <<vars, got, launched, info, pidfile>>

(* not_ready(): main() goes on for as long as find_if finds one.           *)
FirstNotReady == status[Head(Order)] # "READY"                   \* mutant
SomeNotReady == \E s \in Schedulers : status[s] # "READY"

PollAgain ==
    /\ MainAt("check") /\ SomeNotReady
    /\ mpc' = "poll"
    /\ UNCHANGED <<vars, si, got, ctrl_c, launched, info, pidfile>>

(* The pid file is removed; with main() the process and its threads end.   *)
Return ==
    /\ MainAt("check") /\ ~SomeNotReady
    /\ mpc' = "gone"
    /\ up' = FALSE
    /\ pidfile' = NoPids
    /\ UNCHANGED <<kid, programVars, threadVars, sharedVars, elog, ncmd, sock, si, got, ctrl_c, launched, info>>

Main ==
    \/ CreateThread \/ ThreadFails \/ MarkRunning \/ Launched
    \/ ReadChanged \/ ClearChanged \/ NothingChanged
    \/ OpenPidFile \/ ReadPid \/ WritePidFile
    \/ TestCtrlC \/ TurnOff \/ AllTurnedOff
    \/ PollAgain \/ Return

(* ctrl_c_handler(), on SIGINT, SIGHUP or SIGTERM, at any time.            *)
CtrlCHandler ==
    /\ Command("ctrl_c")
    /\ ctrl_c' = TRUE
    /\ UNCHANGED <<kid, programVars, threadVars, sharedVars, elog, up, sock,
                   mpc, si, got, launched, info, pidfile>>

(* The socket thread runs before the first scheduler does.                 *)
SocketCommands ==
    \/ \E s \in Schedulers, p \in Programs : CmdStart(s, p) \/ CmdStop(s, p)
    \/ CmdQuit
    \/ \E s \in Schedulers : PushQuit(s) \/ CmdQuitOne(s)

LaunchedThread(s) == s \in launched /\ Thread(s)

PeterNext ==
    \/ Main
    \/ CtrlCHandler
    \/ (\E s \in Schedulers : LaunchedThread(s)) /\ UNCHANGED mainVars
    \/ SocketCommands /\ UNCHANGED mainVars
    \/ World /\ UNCHANGED mainVars
    \/ ~up /\ UNCHANGED peterVars

PeterSpec == PeterInit /\ [][PeterNext]_peterVars

(* main(), the threads and the socket thread's loop over the schedulers    *)
(* keep running, delays elapse, SIGKILL kills.                             *)
PeterFairness ==
    /\ WF_peterVars(Main)
    /\ \A s \in Schedulers : /\ WF_peterVars(LaunchedThread(s) /\ UNCHANGED mainVars)
                             /\ WF_peterVars(PushQuit(s) /\ UNCHANGED mainVars)
    /\ \A s \in Schedulers : \A wu \in UnitsOf(s) : WF_peterVars(Elapse(s, wu) /\ UNCHANGED mainVars)
    /\ \A k \in Pids : WF_peterVars(KidIsKilled(k, SIGKILL) /\ UNCHANGED mainVars)

PeterFairSpec == PeterSpec /\ PeterFairness

(***************************************************************************)
(* Properties.                                                             *)
(***************************************************************************)
(* When main() returns, the children that are left, of whichever           *)
(* scheduler, have been sent SIGKILL (main.cc 247-253, Scheduler.cc        *)
(* 250-348).                                                               *)
GoneMeansStopped ==
    mpc = "gone" => \A k \in Pids : Alive(k) => SIGKILL \in kid[k].pend

(* PETeR is gone, or one of its schedulers has returned because it reaped  *)
(* a child it does not know, and main() waits for it for ever: that is a   *)
(* finding of its own (QuitsAllSchedulers).                                *)
Gone == ~up \/ \E s \in Schedulers : pc[s] = "dead"

AllReapingEnds == \A s \in Schedulers : ReapingEnds(s)

(* Control-C, whenever it comes - during the launch, during a write of the *)
(* pid file, twice - ends PETeR (main.cc 69, 238-253).                     *)
CtrlCEnds == AllReapingEnds => (ctrl_c ~> Gone)

(* A thread that was READY before start() wrote RUNNING over it: main()    *)
(* waits for it for ever (Scheduler.cc 373-380).                           *)
Overwritten == \E s \in Schedulers : pc[s] = "ready" /\ status[s] = "RUNNING"

(* A <quit/> ends PETeR whenever it comes - during the launch, between two *)
(* schedulers' turns, while main() polls - but for that case (Socket.cc    *)
(* 335-343, main.cc 217-254).                                              *)
QuitEnds == AllReapingEnds => (sock # << >> ~> (Gone \/ Overwritten))

(* "Whenever something changes, a new PID file will be written"            *)
(* (man/peter.1 98-99): a program that goes on running, or not running, is *)
(* shown as such in the end.  The run of it expects a violation.           *)
PidFileFollows ==
    \A p \in Programs : \A k \in Pids \cup {NoPid} :
        (mpc = "signal" /\ pid[p] = k) ~> (~up \/ pid[p] # k \/ (p \in DOMAIN pidfile /\ pidfile[p] = k))
=============================================================================
