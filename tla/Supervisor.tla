----------------------------- MODULE Supervisor -----------------------------
(***************************************************************************)
(* What PETeR promises of the programs it starts (README 1-13, man/peter.1 *)
(* 93-111), without the threads, pids, work units and signals by which it  *)
(* does it: a program has one process at most; a sequence runs its         *)
(* commands one after the other and round again; a process is started      *)
(* while its scheduler is in business only; and a scheduler is ready when  *)
(* none of its programs runs but those that are killed already.            *)
(* Module SupervisorRefinement shows that Scheduler implements it.         *)
(***************************************************************************)
EXTENDS Naturals

CONSTANTS
    Programs,
    Schedulers,
    Owner,          \* Owner[p]: the scheduler of p
    SeqLen          \* SeqLen[p]: the number of commands of p

VARIABLES
    state,          \* state[p]: "idle"; "up": it runs; "doomed": dead or killed, not yet noticed
    at,             \* at[p]: the command it runs, or will run next
    phase,          \* phase[s]: "on", "ending", "ready", or "lost" when its thread gave up
    gone            \* PETeR has exited

vars == <<state, at, phase, gone>>

Init ==
    /\ state = [p \in Programs |-> "idle"]
    /\ at = [p \in Programs |-> 0]
    /\ phase = [s \in Schedulers |-> "on"]
    /\ gone = FALSE

(* The next command of p is started.                                       *)
Start(p) ==
    /\ phase[Owner[p]] = "on"
    /\ state[p] = "idle"
    /\ state' = [state EXCEPT ![p] = "up"]
    /\ UNCHANGED <<at, phase, gone>>

(* A process ends, or SIGKILL is sent to it.                               *)
Die(p) ==
    /\ state[p] = "up"
    /\ state' = [state EXCEPT ![p] = "doomed"]
    /\ UNCHANGED <<at, phase, gone>>

(* Its scheduler notices: the sequence goes on with the next command.      *)
Notice(p) ==
    /\ phase[Owner[p]] = "on"
    /\ state[p] = "doomed"
    /\ state' = [state EXCEPT ![p] = "idle"]
    /\ at' = [at EXCEPT ![p] = (@ + 1) % SeqLen[p]]
    /\ UNCHANGED <<phase, gone>>

NoticeWhileEnding(p) ==
    /\ phase[Owner[p]] = "ending"
    /\ state[p] = "doomed"
    /\ state' = [state EXCEPT ![p] = "idle"]
    /\ UNCHANGED <<at, phase, gone>>

TurnOff(s) ==
    /\ phase[s] = "on"
    /\ phase' = [phase EXCEPT ![s] = "ending"]
    /\ UNCHANGED <<state, at, gone>>

BecomeReady(s) ==
    /\ phase[s] = "ending"
    /\ \A p \in Programs : Owner[p] = s => state[p] # "up"
    /\ phase' = [phase EXCEPT ![s] = "ready"]
    /\ UNCHANGED <<state, at, gone>>

(* The thread of s takes the death of another scheduler's process for its  *)
(* own, and returns.                                                       *)
GetLost(s, p) ==
    /\ phase[s] \in {"on", "ending"} /\ Owner[p] # s
    /\ state[p] = "doomed"
    /\ state' = [state EXCEPT ![p] = "idle"]
    /\ phase' = [phase EXCEPT ![s] = "lost"]
    /\ UNCHANGED <<at, gone>>

(* PETeR exits because it cannot fork or create a thread.                  *)
Abort ==
    /\ \E s \in Schedulers : phase[s] = "on"
    /\ gone' = TRUE
    /\ UNCHANGED <<state, at, phase>>

(* PETeR ends when every scheduler is ready.                               *)
End ==
    /\ \A s \in Schedulers : phase[s] = "ready"
    /\ gone' = TRUE
    /\ UNCHANGED <<state, at, phase>>

Next ==
    /\ ~gone
    /\ \/ \E p \in Programs : Start(p) \/ Die(p) \/ Notice(p) \/ NoticeWhileEnding(p)
       \/ \E s \in Schedulers : TurnOff(s) \/ BecomeReady(s)
       \/ \E s \in Schedulers, p \in Programs : GetLost(s, p)
       \/ Abort \/ End

Spec == Init /\ [][Next]_vars
=============================================================================
