# PETeR in TLA+

PETeR (`src/`) keeps programs running. It reads an XML file that names programs,
how to start them and what to do when they end; it forks them, waits for their
deaths, and starts, stops or restarts them and others according to *actions* and
*limits*. Commands arrive over a socket; control-C or `<quit/>` ends everything.

This directory holds TLA+ modules that model the program, TLC configurations that
check them on small instances, and theorems about them that TLAPS checks for
every value of the constants.

## 1. The system

### Components

| Component | Source | State | Operations |
|---|---|---|---|
| Program | `src/src/Program.cc`, `Program.h`, `Actions.*` | `pid`, `starts`, `seq_idx`, `stop_mode`, `t_start`/`t_end`; the configuration: command sequence, stop signal, limits, action lists | `run`, `send_signal`, `what_next`, `get_actions`, `inc_seq_idx`, `check_runlimit`, `get_runtime` |
| Scheduler | `Scheduler.cc`, `Scheduler.h`, `WorkUnit.*` | `schedule` (vector of work units), `programs`, `running` (map from pid to Program), `mode`, `status`, `changed`; the locals of the thread | the thread function `scheduler()`, `start`, `add_workunit`, `get_program_by_name`, `command`, `get_changed` |
| Event list | `Events.*` | vector of events | `add_event`, rendering |
| Main thread | `main.cc` | the flag `ctrl_c`, the pid file | launches the schedulers, writes the pid file when something changed, turns schedulers off on control-C, ends when all are READY |
| Socket server | `Socket.cc` | one client at a time, its buffer | identification, access checks, `info`, `status`, `log`, `start`, `stop`, `quit`, `scheduler` |
| Configuration | `Config.cc` | schedulers, programs, allow lists | `read_config`, once, before any thread exists |
| One-time pad | `otp.cc` | key file and offset | encrypt, decrypt, encode |
| Utilities | `util.cc` | - | `Tokenize`, `arg_split`, `secs_to_str`, `status_to_str`, ... |
| XML | `XMLNode.cc`, `expat_parser.cc` | node tree | built by the callbacks of expat |
| Log | `qlog.cc` | prefix, file | formatted output under a mutex |
| Clients | `cmd.cc`, `otpcmd.cc` | - | send one command, print the answer |

### Interaction

`main()` reads the configuration, starts the socket thread and one detached thread
per Scheduler, and then polls. The threads share plain memory: the mutex `mtx` that
a Scheduler has is never locked. The socket thread calls `add_workunit()` (push_back)
on the vector that the scheduler thread iterates over and erases from; main writes
`mode` and reads `status` and `changed`. Schedulers do not call each other, but they
are threads of one process, and `waitpid(0)` reaps the children of all of them. A
Program has pid 0 while it does not run, so *a program that does not run makes its
scheduler wait for anybody's child*.

### What is hard here

Deaths, restarts, limits and commands cross in any order; a pid that is read before
a loop is used in it after the program has got another one; maxruntime forgets a
child that may still live; the code that ends a scheduler counts deaths and ECHILD in
two counters; two schedulers reap each other's children; a run that fails half way
must leave nothing wrong. `main()` launches, polls and ends the threads without a
lock. The socket gets its texts in pieces from clients that may go away, and server
and client count the bytes of a one-time pad each on its own. A configuration that
is wrong in one place is used as far as it was read. `PROJECT.json` lists each hazard
with its line and the properties that watch it.

### What makes each component correct

* Program and Scheduler: no child is lost (`KnownChildren`), a program has one
  child at most and its pid names it (`Tracked`, `PidIsChild`), its sequence neither
  skips nor repeats nor stalls (`SequenceInStep`, `SequenceContinues`), restart limits
  bound the starts (`RestartBudget`), a signal reaches the child of the program that the
  thread means, never another one that has got the pid (`SignalsOwnChild`), a program that died comes back (`Restarted`); together:
  the scheduler implements `Supervisor`.
* Ending: a quit makes every scheduler READY (`QuitReady`), with no child left that
  was not at least sent SIGKILL (`NoSurvivor`), and the children do end
  (`ShutdownEndsAll`); a missing binary has the same effect (`MissingEnds`).
* Event list: the last start, end or crash tells whether the program has a child
  (`LogTruth`).
* Main: it ends when all schedulers are READY and not before (`GoneMeansStopped`,
  `CtrlCEnds`, and `QuitEnds`, but for one race of the launch); the pid file shows the last change (`PidFileFollows`, which
  the code does not keep).
* Socket: a command takes effect whole and once, or not at all, in whatever pieces it
  arrives (`EffectsAreCommands`); the answer tells what happened (`AnswerTells`); each
  connection is closed once (`ClosedOnce`) and every client is served (`Served`).
* One-time pad: decryption inverts encryption for key bytes below 128 (`TextBack`,
  `OtpReadable`); no key byte
  is used twice (`PadOnce`).
* XML and configuration: the tree is the document (`TreeAsSent`, `TreeIsDocument`); actions, start
  units, schedulers and access lists are what the file says (`ActionsAsWritten`,
  `StartsAsWritten`, `SchedulerReady`, `AccessAsWritten`); PETeR ends on the files it
  cannot use, and reads every other one (`ExitsOrReads`).
* Start of a program: `execvp()` gets the words of the command (`ArgsAsWritten`), and
  the check before the fork refuses none that `execvp()` would run (`CheckTellsExec`).

## 2. Modules

| Module | Models |
|---|---|
| `Kernel` | the children of the process as `fork`, `kill`, `waitpid` and `exit` treat them (external) |
| `Program` | the state of a Program and its decisions: limits, sequence, choice of actions |
| `Scheduler` | the scheduler threads: one action per step of `scheduler()`, with `run()` and `what_next()` inside it; commands, control-C, deaths, time |
| `SchedulerProps` | its types and properties |
| `SchedulerProofs` | its theorems: types, the map, the pids, the sequence |
| `SchedulerSafetyProofs` | more of them: signals, the event list, where the next command comes from; the end of a scheduler, its counters and SIGKILLs; the restart limit |
| `Supervisor` | abstract: what PETeR promises of programs and schedulers, without threads, pids or work units |
| `SupervisorRefinement` | the mapping by which `Scheduler` implements `Supervisor` |
| `RefinementProofs` | the proof that it does, step by step |
| `Peter` | the whole process: `main()` composed with the threads, commands and world of `Scheduler` |
| `PeterProofs` | its theorems, and the proof that it implements `Supervisor` too |
| `Session` | the socket thread and its clients `pcmd`, `otpcmd`, the web page, and others, over TCP |
| `SessionProofs` | its theorems: types, descriptors, what a client brings about |
| `SessionAnswerProofs` | more of them: the answers, in clear and encrypted |
| `Otp` | the arithmetic of the one-time pad |
| `PadProofs` | the theorems of the one-time pad: what it computes, and that `Session` uses no key byte twice |
| `Util` | `Tokenize`, `arg_split`, `stoi` on texts |
| `XMLNode` | the tree of nodes, the handlers of expat that build it, the look-ups |
| `Parser` | `parse_file()` alone: the handlers of `XMLNode` on any text, and what the tree must be after each call |
| `ParserProofs` | its theorems |
| `Config` | `read_config()`: from the tree to schedulers, programs, work units and actions |
| `Launch` | `run()` from the command in the file to the arguments of `execvp()`, and what a death leaves for the next one; EXTENDS `Config` |
| `ConfigProps` | the properties of `Config` and `Launch`, stated on the document |
| `MCScheduler`, `MCPeter`, `MCSession`, `MCParser`, `MCConfig` | the instances for TLC |

`Config` produces what `Scheduler` takes as constants; `SchedulerReady` states that it
meets the assumptions that `Scheduler` makes of them. `Session` produces work units
(`pushed`) that are the commands of `Scheduler`; the two are joined there and not by
composition, whose product of states TLC cannot enumerate.

### Correspondence: Scheduler

A thread is at a label `pc[s]`, one per loop of the function:

| Label | Code (`Scheduler.cc`) | Actions |
|---|---|---|
| `top` | 87-95, the test of `mode`, `now` is read | `StartPass`, `LeaveLoop` |
| `pass` | 96-136, the first pass over the work units | `DoExit`, `DoRun`, `DoEnd`, `DoNoStart`, `NotYet`, `PassDone` |
| `erase` | 138-147, the second pass | `Erase`, `EraseDone` |
| `limit` | 150-168, maxruntime | `CheckLimit`, `LimitsDone` |
| `reap` | 170-220, `waitpid` per program | `ReapChild`, `ReapUnknown`, `ReapNone`, `ReapDone` |
| `act` | `Program.cc` 518-566, the loop over the actions in `what_next()` | `ActStartNow`, `ActQueue`, `ActSkip`, `ActDone` |
| `sig` | 252-271, stop signals | `SendStop`, `StopsSent` |
| `round`, `wait` | 273-305, the first wait | `NextRound`, `WaitDeath`, `WaitNobody`, `WaitUnknown`, `RoundDone`, `StopWaiting` |
| `kill` | 307-318, SIGKILL | `SendKill`, `KillsSent` |
| `wait9` | 319-346, the last wait | `LastDeath`, `LastNobody`, `LastUnknown`, `GiveUp` |
| `ready`, `dead` | 348-352; the early `return NULL` | - |

`Run(s, p, sq)` is `Program::run()`: refused when the program has a pid, otherwise it
forks, or finds the directory or binary missing (an EXIT unit), or a log file
unusable (nothing), or fork fails (`exit(1)`, the process is gone).

`sock` holds the schedulers to which the socket thread still has to give the EXIT of a
`<quit/>`: `CmdQuit` begins its loop (`Socket.cc` 335-343), each `PushQuit(s)` is one round of
it, and the threads run in between; no other command is read meanwhile. `CmdQuitOne` is
`<scheduler name="..."><quit/></scheduler>`.

One step handles one work unit, one program, one `waitpid` with the death it returns,
or one action. The accesses to shared memory within such a step (a push_back, a
map update) are atomic in the model; that they are not in the code (`mtx` is never
locked) is undefined behaviour that no property could survive, and is an
assumption of everything shown here.

### Correspondence: Peter

`mpc` is where `main()` is (`main.cc`): `launch` and `mark` (192-211: `start()` creates
the thread, and writes STATUS_RUNNING after that, or exits when there is no thread:
`ThreadFails`), `poll` and `clear` (222-229: `get_changed()` reads, then clears), `open` and
`info` (230-242: the pid file is opened, which empties it, or cannot be; the pids are read
one by one into `info`, and then written), `signal` and
`off` (244-251), `check` (252-260), `gone` (262-269). A scheduler's thread runs once it
is in `launched`. Every access to a member of a Scheduler is a step, so threads,
commands and the signal handler come in between.

### Correspondence: Session

`at` is where `socket_thread()` is (`Socket.cc` 162-445): `poll` (`have_client`, accept),
`read_data` and `read_more` (496-581: `Receive`, `ReceiveEnd`), `check_id` (181-222),
`gui` (194-215), `decide` (226-411: access, decryption, parsing, the command, its
answer), `answer` (415-443). A client is at `cpc[c]`: `start`, `hello` (waits for the
"1"), `send`, `save` (otpcmd's first write of the .pos file), `read`, and `done` or
`killed`. `link`, `inq` and `outq` are the connections: texts keep their order and come
in pieces of any size; `recv` takes a piece; a close with unread text may reset the
connection, which loses the answer and makes the client's `send` or `recv` fail (`reset`,
`MayReset`). `accept()` may fail (`AcceptFails`), and the exception of `std::stol` ends the
process (`Terminate`): `up` is false, who is queued is reset, and `ConnectFails` is what
is left to the clients that come later.

A text is a sequence of tokens: an element without children, the `Open` and the
`Close` of one with them, text, and the `>` or line feed that the reading loops look
for; the words in them come from `Names`, `NoName` where there is none. Encryption is symbolic: a token carries the position of its key
byte, and comes out as garbage under any other one. The key bytes at the positions `HighKey`
are 128 or more: what they encrypt comes back two characters lower, which is another name of
the instance (`Lookalike`) or garbage (`Shifted`; `HighKeyByteShifts` is the proof). `pushed`, `said` and `used` are
history: the work units added for a client at each scheduler (`pushed[c][s]`), the answer composed for it, and the
key bytes used.

### Correspondence: XMLNode, Config, Launch

`events` are the calls that expat makes for a document, a broken one ends with an
error; `made` counts those it has made, and `Nested` is what it guarantees of them, which
TLC evaluates for every file of `config` (`ConfigAssumption`). `StartElement`, `EndElement` and `Characters` are the handlers
(`expat_parser.cc` 53-88), on `nodes`, where a pointer is a position. `ParseFile`,
`ReadGeneral`, `ReadProgram` (one per program) and `ProgramsRead` follow
`read_config()`. The `try` blocks are modelled by how far they get: what is added before
the first `throw` stays (`GoodParts`, `good`, `threw`). Then `StartProgram` is `run()` and
`Die` is `what_next()`, as far as the text of the commands is concerned (`cmd`,
`s_attribs`, `seq_idx`), with the file system as constants: `FileKind` says what each file is,
`Stat` and `LStat` whether the check finds it, `Executable` whether `execvp()` can run it.

### Abstractions

* Time is how an age compares with the limits: `Young` (below minruntime), `Mature`,
  `Old` (above maxruntime); `age` is what `utc() - t_start` gives, `ran` what
  `t_end - t_start` gives, with `t_end` the `now` read at the top of the pass. A work
  unit is due or not yet due; in `Config` it has its seconds.
* `starts` is counted up to `StartsCap`, above every number the code compares it with.
* A command of a sequence is its index in `Scheduler` and its text in `Launch`;
  environment and user ids are left out.
* The event list is its last start, end or crash per program.
* `stop_mode` can be 1 by its type and `what_next()` tests it, but no code sets it to
  anything but 0; the model follows the code.
* A text of the configuration is a sequence of words and separators.
  `get_first_child`/`get_next_child` move a cursor in the parent; the loops of
  `read_config()` are written over the sequence of children it walks through.
* A definition marked *mutant* is used by no specification: it is a plausible bug that
  a property is shown to notice (`PROJECT.json`, "mutants").

## 3. Runs

| Run | Instance | Checks |
|---|---|---|
| `core` | one scheduler, a program with two commands that starts and stops the other one, a program with default actions, two different stop signals, two commands (start, stop, quit), at any moments | `TypeOK`, `Tracked`, `SequenceInStep`, `SequenceContinues`, `NoSurvivor`, `PidIsChild`, `NeverNull`, `SignalsOwnChild`, `ImplementsSupervisor` |
| `limits` | one scheduler: a program with restart and minruntime limits and a sequence, whose log file may be missing; one whose binary is missing, started by an action of the first; and one that is restarted after a delay for ever; an exit code without an action, an exit action; children that may ignore the stop signal; a stop or a quit at any moment | `RestartBudget`, `LogTruth`, `MissingEnds`, `QuitReady`, `ShutdownEndsAll`, `Restarted` |
| `maxrun` | two schedulers that reap each other's children, one with a program with maxruntime, which may have two children, and one that is not started at first; a start, a quit of one or of both, or control-C | `KnownChildren` |
| `peter` | main and two schedulers, each with a program, one of them not started at first; children that end only by signals; a start, a quit or control-C at any moment, the launch included; a thread that cannot be created, a pid file that cannot be opened | `GoneMeansStopped`, `ImplementsSupervisor`, `CtrlCEnds`, `QuitEnds` |
| `session` | ten clients: five otpcmd in turn up to the end of the key file, two of whose bytes are 128 or more; then a pcmd with a scheduler command, one that types an `<otp/>` with an offset that is no number, and the web page, at once; a pcmd from a host that is not allowed, and a client with another ID; encryption asked for or not | `TypeOK`, `EffectsAreCommands`, `AnswerTells`, `OtpReadable`, `ClosedOnce`, `PadOnce`, `Served` |
| `parser` | every text of up to seven calls of expat, two names and two pieces of text, complete or cut off by an error | `ParserTypeOK`, `CurrentIsInnermost`, `TreeAsSent` |
| `config` | 89 files: every combination of seven `<init>` and seven `<actions>`, nine kinds of other parts of a program, eleven `<general>`, fourteen kinds of command (of files that can be executed, files that cannot, directories, dangling links, and none), the notification of the README, a file without programs, and files cut off or without a part; up to three deaths | `TypeOK`, `TreeIsDocument`, `ActionsAsWritten`, `StartsAsWritten`, `SchedulerReady`, `AccessAsWritten`, `ArgsAsWritten`, `CheckTellsExec`, `ExitsOrReads` |
| `v_default_restart` | default actions, exit with another code than 0 | `DefaultRestartsAlways` is violated |
| `v_maxrun_survivor` | maxruntime, then quit | `NoneLeftRunning` is violated |
| `v_two_quit` | two schedulers, quit | `QuitsAllSchedulers` is violated |
| `v_pidfile` | main and one scheduler, a program that is started by command | `PidFileFollows` is violated |
| `v_notification` | the notification of the README | `NotificationTells` is violated |

### Bounds

Two programs are the least that exercise the map, `waitpid(0)` and the actions that
name another program. `core` has two pids, enough for both to be alive, and for a pid to
pass to another program, or to a process that is not PETeR's, as soon as it is reaped;
in `maxrun` a third is for the child that maxruntime has forgotten while its program runs
again. `MaxCmds` commands arrive at any moments: two in `core`,
where they race each other as well, and one elsewhere, where other things race it (a quit
with its loop over the schedulers is one command); the restarts,
which need none, are unbounded. `WaitTries` = 2 and `KillTries` = 1 stand for 10000
and 1000: the rounds after the first repeat it, and running out of rounds with
children left is what matters. `MaxQueue` cuts off schedules of more than four units
in the runs for safety: a program that dies over and over within one reaping loop
queues a unit each time. The runs with liveness properties use no state constraint and
no symmetry. In `peter` a quit ends with one round of waiting (`WaitTries` = 1).

`session` lets the otpcmds come one after the other (`After`): the pad is used by
one at a time as the manual asks, each has the next part of it, and the last two meet
its end (`KeyLen` = 26). The other clients overlap with each other, and with the waiting
queue, in every way; only `a` and `w` go away in the middle (`Interruptible`). Every piece of
every text is a `recv` of its own in some behaviour. In `config` one part of the file varies at
a time, but `<init>` and `<actions>` together, as they share code; three deaths
(`MaxDeaths`) run a sequence of three commands once round. Seven calls in `parser`
(`MaxCalls`) are enough for three children in order, for two levels of children, and for
text before, between and after them.

### Fairness

`FairSpec` asks that each thread keeps taking steps (the threads are pthreads and never
block: `waitpid` is called with WNOHANG and the delays end), that the socket thread goes on
with the loop of a quit (`PushQuit`: it never blocks between two schedulers), that the time of a
work unit is reached, and that a child to which SIGKILL was sent dies. Nothing else: a child
need not end, nor obey its stop signal, and no command need arrive. `PeterFairSpec`
adds `main()`, and asks for the threads once they are launched.

`while (waitpid(pid) > 0)` has no bound: a program whose pid was 0 when it was read,
and that is restarted at once and dies at once, keeps the thread in it for ever, deaf
to quits. The liveness properties are therefore stated for behaviours in which the
loop ends each time (`ReapingEnds`, `AllReapingEnds`). `MissingEnds` needs no such
condition in its instance, where the restarts are delayed. `CtrlCEnds` and `QuitEnds`
exclude behaviours in which a scheduler has returned on the other's child, the
finding of `v_two_quit`. `QuitEnds` also excepts `Overwritten`: a quit during the launch can
end a thread before `start()` has written RUNNING over its READY, and main waits for
ever; the run shows that nothing else keeps a quit from ending PETeR. A control-C
does not meet it, because main acts on the flag in its loop only.

In `Session` the server and each client keep running, and what was sent arrives. The
server has no timeout: a client that connects and sends nothing would block it for
ever, so all clients here send their text, or go away. `accept()` does not fail for ever.
When the exception has ended the server, `Served` says that its clients end too.

### Refinement

`Supervisor` knows of a program only that it is idle, up, or doomed (dead or sent
SIGKILL, and not yet reaped), which command it is at, and of a scheduler whether
it is on, ending, ready or lost. `ImplementsSupervisor` maps the children, pending
signals, labels and `up` to that: programs start one at a time and only while their
scheduler is on; sequences advance with a noticed death and with nothing else; READY
leaves nobody up; PETeR is gone when it could not fork or create a thread, or when every scheduler is ready. It
does not hold with maxruntime, which forgets children that live. The run `core` checks it
of the threads alone, `peter` of the whole process.

### Where the code and its documents disagree

* man/peter.1:477 promises a restart by default whatever the result code is; the
  default actions cover code 0 and signals only (`v_default_restart`).
* README:93 promises SIGKILL to what is still running before PETeR exits; a child that
  maxruntime has signalled is forgotten (`v_maxrun_survivor`).
* man/peter.1:216: `<quit/>` quits all programs and exits PETeR; with two schedulers
  one may reap the other's child in its last wait and return early, and main waits for
  ever (`v_two_quit`).
* man/peter.1:98: a new pid file whenever something changes; only deaths count as
  changes (`v_pidfile`), and `get_changed()` may clear one it has not read.
* README:234: UTC, NAME, RES and SIG are replaced when the program is started; the
  text they are replaced in is thrown away (`v_notification`).
* Met on the way, without a run:
  a stop by command is logged as a crash (Scheduler.cc 195-199, `stop_mode` is always 0);
  an EXIT unit does not clear the rest of the schedule as its comment says (102);
  the stop signal at exit is the program's own, 15 by default, not SIGHUP (man/peter.1
  107-109, README 91); the ten seconds are one (10000 rounds of 100 microseconds per
  program); the restart limit counts all starts (man/peter.1 437); an `<exit/>` or a
  missing binary ends only its own scheduler (man/peter.1 88-91); a quit that takes
  effect before `start()` has written STATUS_RUNNING leaves main waiting (Scheduler.cc 380,
  `Overwritten`); "Check if binary exists, and we can run it" (Program.cc 150) is done with
  `stat()` and `lstat()`, so that a file that is not executable, a directory, and a dangling
  link in PATH pass, are forked, and end with code 17, and so does what is in the home
  directory only, where `execvp()` does not look; a binary that begins with `./` is looked for
  in PETeR's directory and executed in the home directory; "At least one program must be
  specified" (man/peter.1 62-63), but an empty `<programs/>` is read without a complaint; a
  comma at the end of an access list makes an empty name in it; an `<otp/>` whose offset
  is no number ends PETeR by an exception that nobody catches (Socket.cc 271); a text with an entity or a line feed keeps its last piece only;
  a key byte of 128 or more, half of those of the "really random" pads that man/peter.1:361
  asks for, shifts the decrypted character by two; `<start name="..."/>` in
  `<init>` ignores the name (man/peter.1 465-470); a pgui client that goes away is
  closed, and its closed descriptor written to and closed again.

## 4. Proofs

The theorems hold for every set of programs, schedulers, pids and clients and every
configuration that satisfies the named assumptions of the modules (`KernelAssumption`,
`ProgramAssumption`, `SchedulerAssumption`, `PeterAssumption`, `SessionAssumption`,
`TextsAssumption`), and the hypotheses
in the table.

| Theorem | States | Under |
|---|---|---|
| `TypeCorrect` | `TypeOK` | - |
| `ChildrenKnown` | `KnownChildren` | - |
| `OneSchedulerNeverNull` | `NeverNull` | one scheduler |
| `ChildrenTracked`, `SequencesInStep` | `Tracked`, `SequenceInStep` | `NoMaxRun` |
| `PidsAreChildren` | `PidIsChild` | as long as `NeverNull` |
| `SignalsReachOwnChild` | `SignalsOwnChild` (an action property) | one scheduler |
| `LogsTellTruth` | `LogTruth` | `NoMaxRun`, as long as `NeverNull` |
| `SequencesContinue` | `SequenceContinues`, while PETeR is up | `NoMaxRun`, `AlwaysRuns` |
| `ReadyLeavesNone` | `NoSurvivor` | `NoMaxRun`, as long as `NeverNull` |
| `OneSchedulerSafe` | `PidIsChild`, `LogTruth`, `NoSurvivor` | `NoMaxRun`, one scheduler |
| `RestartsBounded` | `RestartBudget` | `OnlyOwnRestarts` |
| `SchedulersSupervise` | `ImplementsSupervisor` | `NoMaxRun`, behaviours with `[]NeverNull` |
| `OneSchedulerSupervises` | `ImplementsSupervisor` | `NoMaxRun`, one scheduler |
| `PeterKnowsChildren` | `TypeOK`, `KnownChildren` of `Peter` | - |
| `PeterTracksChildren` | `Tracked` of `Peter` | `NoMaxRun` |
| `GoneLeavesNone` | `GoneMeansStopped` | `NoMaxRun` |
| `PeterSupervises` | `ImplementsSupervisor` of `Peter` | `NoMaxRun`, behaviours with `[]NeverNull` |
| `OneSchedulerPeterSupervises` | `ImplementsSupervisor` of `Peter` | `NoMaxRun`, one scheduler |
| `SessionTypes` | `TypeOK` of `Session` | - |
| `ConnectionsClosedOnce` | `ClosedOnce` | - |
| `CommandsWholeOrNot` | `EffectsAreCommands` | `NoOtpChild` |
| `OtpAnswersReadable` | `OtpReadable`, which is about key bytes below 128 | - |
| `AnswersTell` | `AnswerTells`, likewise | - |
| `KeyBytesUsedOnce` | `PadOnce` | `OneAtATime` |
| `ParserTypes`, `CurrentNode`, `TreeFaithful` | `ParserTypeOK`, `CurrentIsInnermost`, `TreeAsSent` | - |
| `Encoded`, `TextBack`, `HighKeyByteShifts` | the one-time pad, below | - |

### The hypotheses

* `NoMaxRun`: no program has a maxruntime, which is what the configuration has by
  default. It cannot be dropped: `CheckLimit` forgets a child that may still live
  (Scheduler.cc 150-168), and then `Tracked` and `NoSurvivor` are false; the run
  `v_maxrun_survivor` shows the second.
* *as long as `NeverNull`* is the form `[](NeverNull => ...)`, or `[]NeverNull` in front:
  up to the moment when a thread has returned because `waitpid(0)` gave it another
  scheduler's child. It cannot be dropped either: that thread leaves a program with
  the pid of a child that is reaped (`v_two_quit` is the same defect). With one scheduler
  it is always true, by `OneSchedulerNeverNull`. `GoneLeavesNone` needs no such proviso:
  `main()` returns only when every status is READY, so no thread was lost.
* `AlwaysRuns`: `run()` finds binaries and log files, as in the instances that check the
  property. With a log file that cannot be opened `run()` returns without a child and
  without a work unit, and the sequence does stop there (Program.cc 230-251). *While PETeR is up*: a `fork` that
  fails ends the process, with the unit already taken.
* `OnlyOwnRestarts`: no start by command, one RUN unit per program in the initial schedule,
  and action lists that start their own program only, once each. The limit is tested
  where a program starts itself (Program.cc 538-540); a start by command, or by another
  program's action, is not held back by it, so the bound is stated for the configurations without
  them. The instance of `limits` is one.
* `NoOtpChild`: nobody types a command with a child `<otp/>`. With `otp_only` set, the server
  looks for the characters `<otp ` anywhere in the text (Socket.cc 229) and would take such a
  command for an encrypted one. A command of the name `otp` itself is in the model and in the
  theorems: nothing in it can be read, or it ends the server.
* `OneAtATime`: each otpcmd runs to its end before the next one starts, as the manual
  asks of the user (man/peter.1 363), since it writes the .pos file at its end
  (otpcmd.cc 213-262) and two that overlap read the same position; and none asks a scheduler for its
  programs, whose answer, with elements side by side in it, it cannot parse, and then it
  does not write the position behind the answer. Without this second part the theorem is
  false of the code, though each otpcmd runs to its end. It is a hypothesis of `KeyBytesUsedOnce` only. `MCSession`
  has both hypotheses as an assumption (`PadAssumption`), so the instance that TLC
  checks is one of those that the theorem speaks of.

### The arguments

**Kinds of steps.** The steps of a thread are first classified (`StepKind`, `NextKind`): a
step starts a program, handles a death, reaps an unknown child, applies the limit, or
is calm: it leaves the children's programs, the pids, the map and the sequence alone. Most
invariants are then proved over five kinds of step instead of forty actions.
`ThreadAt` and `ThreadFlow` say which actions a label has and where they lead.

**Children, pids and the map.** `KnownChildren` is inductive together with `TypeOK`.
`Tracked` alone is not: a death clears the pid of the program *the map* names, so
`TrackedInv` adds that the map names a program only under the pid the program has
(`MapAgrees`). It and `SequenceInStep` need each other: a start is refused only because
`Tracked` holds, and the index moves only with the death of the one child. `PidIsChild`
needs the opposite direction: what the map has is an unreaped child of the program it
names (`MapIsChild`), and both survive only while no thread reaps a child and returns
before it clears anything (`ChildInv`). A signal is sent to `pid[p]`; with `ChildInv` that is
a child of `p`, which gives `SignalsOwnChild` also when maxruntime has cleared other pids: where
a thread is says which program it signals and with what (`Signalling`, `SignalFor`), and
each step that adds a pending signal adds that one to a child of that program.

**Event list.** `LogAgrees`: in the loop, the latest event of a program is a start exactly
when its pid is not 0. The pid and the event are written in the same steps there, and at
different ones after it. With `Tracked` and `PidIsChild` the pid may be replaced by
"has a child".

**Sequences.** A death in the middle of a sequence queues the next command
(`SequenceContinues`), except after the loop has been left, where `mode` is OFF for good
(`ModeInv`); and a RUN unit leaves the schedule only by running (`RunKept`, over the pass that
marks units and the pass that erases them).

**Shutdown.** `CountOK`: the counter of programs left (`cnt`) is the number of the scheduler's
programs that have a pid; while signals are sent, of those that the iterator has passed. So
when the first wait ends with nobody left, there is nobody; otherwise the last pass has gone
over every program that has a pid, and `KillOK` says that those behind the iterator
have SIGKILL pending. Starts are impossible after the loop, and a death that a late
`waitpid` returns takes one from the counter and one pid away.

**Restart limit.** The tests of the limit are far apart from the start that they permit:
the death is counted, the action queued, the unit runs later. `BudgetInv` is about tokens: a
program has at most one of an entry in the map, a RUN unit, or a start that is still to be
done in the list of actions a thread goes through (`OneToken`), and what has been
spent when it holds one is bounded by where in its sequence it is (`Budget`). Every step
turns one token into another, or loses it.

**Refinement.** `SupervisorRefinement` is the mapping: `StateOf` maps a program to idle, up
or doomed by its child and the signals it has pending, `PhaseOf` a scheduler to on, ending, ready or lost by its label
and mode. `StepSimulated` takes the five kinds of step and the labels apart: a
start is `Supervisor`'s start because `Tracked` makes the program idle, a death its end because
the child is the only one, becoming READY its own because of `ShutdownInv`.
The proof uses the invariants of the children, the map, the sequence and the shutdown
(`RefinementInv`); with them the state of a program can be read off its pid (`StatesAgree`).

For the whole process (`PeterSupervises`) each step of `main()` and of the signal handler is a
stutter of `Supervisor` (`MainSimulated`), but for the return, which is its `End` because READY is
the status of threads that have ended only (`ReadyEnded`), and for `ThreadFails`, which is its
`Abort` (`LaunchInv` says that main still launches then); the other steps are those of
`Scheduler`.

**Main.** `MainStep` is what `main()` and its signal handler can do to the threads' state:
the mode, a status that is not READY, the flag `changed`. Each of the invariants is shown to
survive it, and `MainInv` adds where `main()`'s iterator is and that it has returned only
when all are READY.

**Session.** `SessionInv` was checked by TLC as an invariant of `session` before its
proof. Its core is `Identifying` and `Commanding`: what the server has in its buffer
followed by what is on its way is the ID, or one message of this client, or nothing, in
whatever pieces it is received (`Pieces`, `CutIsPrefix`). When the server decides, the buffer is
then a prefix of a message, and `PrefixFree` and `Parsed` say that a proper prefix does not
parse, as the element of a command is closed by its last token: so a command that has an
effect is the whole one. `PlainPart`, `OtpPart` and `Deciphered` do the same for an encrypted one:
what comes out under the server's key position is the command, contains
garbage, which no command does, or has names that high key bytes have changed: then it is
still one command, whole, and `OwnKeys` says that without such bytes it is the one typed. `Links` and `Descriptor` say
which connections have had an effect yet, and where in the loop the descriptor is open;
`ClosedOnce` follows from the last.

**Answers.** `OtpReadable` and `AnswerTells` speak of what a client has when the connection
ends, and what it has came in pieces; so `AnswerInv` follows the answer from where it is
composed. `Stream` is what a client has got and what is on its way to it, together: it tells the
truth about what was queued, holds nothing that reads as an answer before the server has
decided, and once an element opens in it it is the beginning of an encryption of what was
composed (`Streams`). `Replies` says the same of the pieces still to be sent: the lines of the
page are no answer, and an encrypted answer is the last piece. `Sayings` relates the answer that
was composed to the work units that were added with it. `Hearing` says that a client that has not
got its "1", or has not sent its command, is still queued or being read by the server, and that
only one that reads has got anything; `Paging` that the page is sent its lines while its
connection is open. An encrypted answer is read at the position the server wrote in front of
it, so it comes out as it was composed, or it does not parse as one.

**Use of the pad.** `PadOnce` alone is not inductive: it says nothing of the position from which
the next byte is taken. `Pad` says that every byte used is below the number in the .pos
file, or below the one that the otpcmd that runs is to write; it writes that only when it
has the whole encrypted answer, so `PadInv` needs `AnswerInv`, and `Sent` and `Greeted` for the way of
the command. `Turns` is what `OneAtATime` gives: who waits for others starts when they are gone.

**The pad itself.** `PadProofs` also proves what the runs cannot enumerate, for every character, key
byte and length of text: `Encoded` (the printable form of a byte and back), `TextBack`
(decryption inverts encryption for key bytes below 128) and `HighKeyByteShifts` (with the
other half of the key bytes the character comes back as the one two before it). They rest on
what the matrix look-up gives for a key byte that is not negative (`LowElement`) and for
one that is (`HighElement`).

**Parser.** `TreeAsSent` says of each node what the calls so far make of it; it refers to calls by their
number and to depths by counting starts and ends (`Depth`), so that no induction over the
document is needed. It is inductive together with `CurrentIsInnermost` and *level is
the depth*. The lemmas are about the calls alone: an element that is innermost at a
call is so alone (`InnermostOne`), since the start of a second one would stand above it;
a start, a text and an end move it as `InnermostStart`, `InnermostText` and
`InnermostEnd` say; and a call adds to the element it is in and to no other
(`InsideSame`, `InsideMore`). Nodes are numbered by their starts (`NodeAtStrict`), which gives the
order of the children.

### What is only model-checked

* All liveness (`QuitReady`, `ShutdownEndsAll`, `Restarted`, `MissingEnds`, `CtrlCEnds`,
  `QuitEnds`, `Served`), which is out of the prover's reach.
* `Config`, `Launch` and `ConfigProps`: the documents are trees, the readers and the
  properties go through them and through texts with recursive operators (`EventsOf`, `TreeOf`,
  `FindContents`, `Tokenize`), and what these compute needs induction over data, which
  the provers do not have. `TreeFaithful` is what can be proved there: its
  texts are sequences of calls, and that the calls of a document are nested is checked by TLC for
  the files of `config`.

## 5. Not modelled

* `qlog.cc`, `debug.cc`: formatting and output; no other state depends on them.
* The text of status reports, events and times (`secs_to_str`, `info`, `log`): layout.
* `XMLNode`'s operations that nothing calls, and its printing.
* Options, chroot, user and group ids and the cleared environment in `main()` and in
  the child: they change no state of PETeR.
* The size of the socket's buffer: `Gathered` has no bound, where the code has 10240 bytes and
  does not compare `buf_pos` with it (Socket.cc 521-528, 557-563).
* A key file that cannot be opened; the one-time pad's functions for binary buffers,
  which nothing calls.
* Undefined behaviour: the unlocked vectors of work units and of events, the
  uninitialised pointer for an unknown element in `<exit>`, an unclosed quote in a
  command, a program without a `<cmd>` that is started.
* `remove.pl`: a text filter outside the system.

## 6. Plan

1. A module of the vector of work units at the grain of push_back, iteration and
   erase, to say which interleavings lose a unit when none of them is undefined.
2. `secs_to_str` and `status_to_str` as functions against a reference definition.
3. Proofs of `PidIsChild` and `LogTruth` for `Peter`, as there are for the threads alone.
