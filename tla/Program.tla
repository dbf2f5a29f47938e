------------------------------- MODULE Program -------------------------------
(***************************************************************************)
(* The Program class (src/src/Program.h, src/src/Program.cc): what the     *)
(* configuration says of a program, what PETeR remembers of it, and the    *)
(* decisions it takes.  The operations that change more than the Program   *)
(* itself - run() and what_next(), which also use the schedule of the      *)
(* Scheduler that calls them - are actions of module Scheduler.            *)
(* A definition marked "mutant" is a form of the next one with a plausible *)
(* bug: the properties are checked to notice it.  No specification uses it. *)
(*                                                                         *)
(* Times are abstracted to how they compare with the limits: an age is     *)
(* Young (below minruntime), Mature, or Old (above maxruntime).            *)
(***************************************************************************)
EXTENDS Kernel, Sequences, SequencesExt

CONSTANTS
    SeqLen,       \* SeqLen[p]: the number of <cmd> elements
    StopSig,      \* StopSig[p]: the signal that stops it, 15 by default
    MaxStarts,    \* MaxStarts[p]: limits[LIMIT_STARTS], -1 for none
    MinRun,       \* MinRun[p]: limits[LIMIT_MINRUNTIME] is set
    MaxRun,       \* MaxRun[p]: limits[LIMIT_MAXRUNTIME] is set
    OnExit,       \* OnExit[p]: exit_actions, a function from some exit codes to actions
    OnSignal      \* OnSignal[p]: sgnl_actions, a function from some signals to actions

(* An Action of an <exit> element: start, stop or exit; the program its    *)
(* "name" attribute names, if any; and whether "after" is positive.        *)
Action == [type : {"start", "stop", "exit"}, prog : Programs \cup {NoProg}, after : BOOLEAN]

ASSUME ProgramAssumption ==
    /\ SeqLen \in [Programs -> Nat \ {0}]
    /\ StopSig \in [Programs -> Nat \ {0}]
    /\ MaxStarts \in [Programs -> Nat \cup {-1}]
    /\ MinRun \in [Programs -> BOOLEAN]
    /\ MaxRun \in [Programs -> BOOLEAN]
    /\ \A p \in Programs :
         /\ DOMAIN OnExit[p] \subseteq Nat
         /\ \A r \in DOMAIN OnExit[p] : OnExit[p][r] \in Seq(Action)
         /\ DOMAIN OnSignal[p] \subseteq Nat
         /\ \A g \in DOMAIN OnSignal[p] : OnSignal[p][g] \in Seq(Action)

VARIABLES
    pid,        \* pid[p]: the process of p, NoPid when it is thought not to run
    starts,     \* starts[p]: how often run() has forked
    seq_idx,    \* seq_idx[p]: the command to run next, or running
    stop_mode,  \* stop_mode[p]: "Were we stopped by hand?"
    age,        \* age[p]: utc() - t_start of the latest start
    ran         \* ran[p]: the age that the scheduler's `now` gives, t_end - t_start

programVars == <<pid, starts, seq_idx, stop_mode, age, ran>>

Young == 0
Mature == 1
Old == 2
Ages == {Young, Mature, Old}

ProgramInit ==
    /\ pid = [p \in Programs |-> NoPid]
    /\ starts = [p \in Programs |-> 0]
    /\ seq_idx = [p \in Programs |-> 0]
    /\ stop_mode = [p \in Programs |-> 0]
    /\ age = [p \in Programs |-> Young]
    /\ ran = [p \in Programs |-> Young]

(* Bound: starts is read by the LIMIT_STARTS test only; it is counted to   *)
(* where every larger number means the same.                               *)
StartsCap(p) == IF MaxStarts[p] = -1 THEN 0 ELSE MaxStarts[p] + SeqLen[p] + 1

CountedStart(p) == IF starts[p] < StartsCap(p) THEN starts[p] + 1 ELSE starts[p]

(* The test with which run() starts.                                       *)
NotRunningUnchecked(p) == TRUE                                  \* mutant
NotRunning(p) == pid[p] = NoPid

(* set_pid( 0 )                                                            *)
ClearPidForgotten(p) == pid                                     \* mutant
ClearPid(p) == [pid EXCEPT ![p] = NoPid]

(* inc_seq_idx()                                                           *)
NextSeqIdxNoWrap(p) == seq_idx[p] + 1                           \* mutant
NextSeqIdx(p) == (seq_idx[p] + 1) % SeqLen[p]

LastInSequenceEarly(p) == seq_idx[p] + 2 = SeqLen[p] \/ SeqLen[p] = 1   \* mutant
LastInSequence(p) == seq_idx[p] = SeqLen[p] - 1

(* check_runlimit(), with the pid != 0 test of its caller                  *)
OverRunLimit(p) == ~NotRunning(p) /\ MaxRun[p] /\ age[p] = Old

(* get_actions(): the actions for a signal are those of that signal, or    *)
(* else those of signal 0; an exit code has no default.                    *)
HasActionsNoDefault(p, s) ==                                     \* mutant
    IF s.sig > 0 THEN s.sig \in DOMAIN OnSignal[p] ELSE s.res \in DOMAIN OnExit[p]
HasActions(p, s) ==
    IF s.sig > 0 THEN {s.sig, 0} \cap DOMAIN OnSignal[p] # {}
                 ELSE s.res \in DOMAIN OnExit[p]

ActionsFor(p, s) ==
    IF s.sig > 0 THEN OnSignal[p][IF s.sig \in DOMAIN OnSignal[p] THEN s.sig ELSE 0]
                 ELSE OnExit[p][s.res]

(* The two limits what_next() tests before it goes through the actions.    *)
LimitReachedLate(p) ==                                           \* mutant
    \/ MinRun[p] /\ ran[p] = Young
    \/ MaxStarts[p] # -1 /\ starts[p] > MaxStarts[p] + 1
LimitReached(p) ==
    \/ MinRun[p] /\ ran[p] = Young
    \/ MaxStarts[p] # -1 /\ starts[p] > MaxStarts[p]

(* Time passes for a program that has been started: utc() advances.        *)
GrowOlder(p) ==
    /\ age[p] < Old
    /\ age' = [age EXCEPT ![p] = @ + 1]

ProgramTypeOK ==
    /\ pid \in [Programs -> Pids \cup {NoPid}]
    /\ starts \in [Programs -> Nat]
    /\ \A p \in Programs : starts[p] <= StartsCap(p)
    /\ seq_idx \in [Programs -> Nat]
    /\ \A p \in Programs : seq_idx[p] < SeqLen[p]
    /\ stop_mode \in [Programs -> {0, 1}]
    /\ age \in [Programs -> Ages]
    /\ ran \in [Programs -> Ages]
=============================================================================
