------------------------------- MODULE Launch -------------------------------
(***************************************************************************)
(* From a configuration file to the processes: how Program::run() makes    *)
(* the arguments of execvp() from the commands that module Config has      *)
(* read, and what a death leaves for the next run() (src/src/Program.cc).  *)
(*                                                                         *)
(* Pids, work units, limits and commands are in module Scheduler; here a   *)
(* program has one process at most, nobody stops it, the programs that are *)
(* to be started are a set, and the EXIT that a refused start asks for is  *)
(* not awaited.  The file system is a constant, the directories of PATH    *)
(* are full paths, and a name that does not start with "/" or "./" has no  *)
(* slash in it.                                                            *)
(***************************************************************************)
EXTENDS Config

CONSTANTS
    PathDirs,       \* the directories of PATH, in order
    Dirs,           \* the directories that opendir() opens; "./" is PETeR's own
    FileKind,       \* the files: pairs of a directory (<< >> for a full path) and a text,
                    \* with what each is, or leads to
    FullPath,       \* the texts that start with a "/"
    DotPath,        \* the texts that start with "./"
    Creatable,      \* the files that open() can create
    Deaths,         \* the ways a process ends: result code and signal
    MaxDeaths       \* bound on the deaths

ASSUME LaunchAssumption ==
    /\ \A d \in Deaths : d.res \in Nat /\ d.sig \in Nat
    /\ MaxDeaths \in Nat
    /\ Range(FileKind) \subseteq {"executable", "plain", "directory", "dangling"}

VARIABLES
    cmd,            \* cmd[k]: the member cmd of programs[k]
    seq_idx,        \* seq_idx[k]: the command it runs, or will run next
    s_attribs,      \* s_attribs[k]: the texts for NAME, RES and SIG
    proc,           \* proc[k]: its process
    todo,           \* the programs that are to be started
    deaths

launchVars == <<cmd, seq_idx, s_attribs, proc, todo, deaths>>
allVars == <<vars, launchVars>>

NoAttribs == [name |-> << >>, res |-> << >>, sig |-> << >>]
NoProc == [st |-> "none", args |-> << >>]
Refused == [st |-> "refused", args |-> << >>]
Runs(args) == [st |-> "runs", args |-> args]
Fails(args) == [st |-> "failed", args |-> args]       \* _exit( 17 ) is all it does

LaunchInit ==
    /\ Init
    /\ cmd = << >> /\ seq_idx = << >> /\ s_attribs = << >> /\ proc = << >>
    /\ todo = {} /\ deaths = 0

(* Program::Program(), for the program that has just been read.            *)
Extended(f, v) == f \o [i \in 1..(Len(programs') - Len(f)) |-> v]
ToBeStarted(k) ==
    \E s \in Range(schedulers) : \E wu \in Range(s.schedule) :
        wu.type = "RUN" /\ wu.program = programs[k].name

ReadConfig ==
    /\ ParseFile \/ ReadGeneral \/ ReadProgram \/ ProgramsRead
    /\ cmd' = Extended(cmd, <<"sleep", " ", "10">>)
    /\ seq_idx' = Extended(seq_idx, 0)
    /\ s_attribs' = Extended(s_attribs, NoAttribs)
    /\ proc' = Extended(proc, NoProc)
    /\ todo' = IF phase' = "done" THEN {k \in DOMAIN programs : ToBeStarted(k)} ELSE todo
    /\ UNCHANGED deaths

(***************************************************************************)
(* run()                                                                   *)
(***************************************************************************)
(* replacein() of one word.                                                *)
Replace(text, word, by) ==
    FlattenSeq([i \in DOMAIN text |-> IF text[i] = word THEN by ELSE <<text[i]>>])
Expanded(text, a) ==
    Replace(Replace(Replace(Replace(text, "NAME", a.name), "RES", a.res), "SIG", a.sig),
            "UTC", Word("now"))

(* cmd.find( " " )                                                         *)
BinOf(text) == SubSeq(text, 1, Least({i \in DOMAIN text : text[i] = Blank} \cup {Len(text) + 1}) - 1)

(* stat() follows a link and lstat() does not; neither asks whether the    *)
(* file can be executed, as execvp() does.                                 *)
LStat(f) == f \in DOMAIN FileKind
Stat(f) == LStat(f) /\ FileKind[f] # "dangling"
Executable(f) == LStat(f) /\ FileKind[f] = "executable"

FoundFirst(bin, home) ==                                         \* mutant
    IF bin \in FullPath THEN Stat(<<<< >>, bin>>)
    ELSE IF bin \in DotPath THEN Stat(<<Word("./"), bin>>)
    ELSE LStat(<<PathDirs[1], bin>>) \/ Stat(<<home, bin>>)
Found(bin, home) ==
    IF bin \in FullPath THEN Stat(<<<< >>, bin>>)
    ELSE IF bin \in DotPath THEN Stat(<<Word("./"), bin>>)
    ELSE (\E d \in Range(PathDirs) : LStat(<<d, bin>>)) \/ Stat(<<home, bin>>)

(* chdir( home ) and execvp() in the child, which goes on in PATH behind a *)
(* file that it cannot execute.                                            *)
Executes(args, home) ==
    IF args = << >> THEN FALSE
    ELSE IF args[1] \in FullPath THEN Executable(<<<< >>, args[1]>>)
    ELSE IF args[1] \in DotPath THEN Executable(<<home, args[1]>>)
    ELSE \E d \in Range(PathDirs) : Executable(<<d, args[1]>>)

Exec(text, home) == IF Executes(ArgSplit(text), home) THEN Runs(ArgSplit(text))
                                                      ELSE Fails(ArgSplit(text))

(* The expanded text is overwritten by the next command of the sequence,   *)
(* unless there is no home directory.                                      *)
TextOf(k) == programs[k].seq[seq_idx[k] + 1]

Run(k) ==
    LET p == programs[k]
        text == TextOf(k)
        noHome == p.home \notin Dirs
        missing == ~Found(BinOf(text), p.home)
        noLog == p.stderr \notin Creatable \/ p.stdout \notin Creatable
    IN  /\ cmd' = [cmd EXCEPT ![k] = IF noHome THEN Expanded(@, s_attribs[k]) ELSE text]
        /\ proc' = [proc EXCEPT ![k] = IF noHome \/ missing THEN Refused
                                       ELSE IF noLog THEN NoProc
                                       ELSE Exec(text, p.home)]

(* A program without a <cmd> has no seq[ 0 ] to run, which is undefined.   *)
StartProgram ==
    /\ phase = "done"
    /\ \E k \in todo :
         /\ todo' = todo \ {k}
         /\ IF proc[k].st \in {"runs", "failed"} THEN UNCHANGED <<cmd, proc>>
            ELSE programs[k].seq # << >> /\ Run(k)
    /\ UNCHANGED <<vars, seq_idx, s_attribs, deaths>>

(***************************************************************************)
(* what_next(), of a program that nobody has stopped.                      *)
(***************************************************************************)
ActionsFor(k, d) ==
    LET p == programs[k]
        Of(table, code) == IF code \in DOMAIN table THEN table[code] ELSE << >>
    IN  IF d.sig = 0 THEN Of(p.exit_actions, d.res)
        ELSE Of(p.sgnl_actions, IF d.sig \in DOMAIN p.sgnl_actions THEN d.sig ELSE 0)

(* get_program_by_name(), in the scheduler of k; the program itself when   *)
(* there is none.                                                          *)
SameScheduler(k, j) ==
    \E s \in Range(schedulers) : {programs[k].name, programs[j].name} \subseteq Range(s.programs)
ProgramNamed(k, name) ==
    LET S == {j \in DOMAIN programs : programs[j].name = name /\ SameScheduler(k, j)}
    IN  IF S = {} THEN k ELSE Least(S)

ToStr(n) == Word(CHOOSE w \in DOMAIN Numerals : Numerals[w] = n)
AttribsOf(k, d) == [name |-> programs[k].name, res |-> ToStr(d.res), sig |-> ToStr(d.sig)]

HasLimit(k) == \E limit \in {"restarts", "minruntime"} : programs[k].limits[limit] # -1

LastCommand(k) == seq_idx[k] = Len(programs[k].seq) - 1

Die ==
    /\ phase = "done" /\ deaths < MaxDeaths
    /\ \E k \in DOMAIN programs, d \in Deaths :
         /\ proc[k].st = "runs" \/ (proc[k].st = "failed" /\ d = [res |-> 17, sig |-> 0])
         /\ proc' = [proc EXCEPT ![k] = NoProc]
         /\ seq_idx' = [seq_idx EXCEPT ![k] = (@ + 1) % Len(programs[k].seq)]
         /\ IF LastCommand(k)
              THEN LET al == ActionsFor(k, d)
                       targets == {ProgramNamed(k, a.prog) : a \in Range(al)}
                       started == {ProgramNamed(k, a.prog) : a \in {b \in Range(al) : b.type = "start"}}
                   IN  /\ s_attribs' = [j \in DOMAIN s_attribs |->
                                          IF j \in targets THEN AttribsOf(k, d) ELSE s_attribs[j]]
                       /\ \/ todo' = todo \cup started
                          \/ HasLimit(k) /\ todo' = todo \cup (started \ {k})
              ELSE todo' = todo \cup {k} /\ UNCHANGED s_attribs
    /\ deaths' = deaths + 1
    /\ UNCHANGED <<vars, cmd>>

AllDone ==
    /\ phase \in {"done", "exit"}
    /\ UNCHANGED allVars

LaunchNext == ReadConfig \/ StartProgram \/ Die \/ AllDone

LaunchSpec == LaunchInit /\ [][LaunchNext]_allVars
=============================================================================
