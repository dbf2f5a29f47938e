------------------------------- MODULE Kernel -------------------------------
(***************************************************************************)
(* The children of the PETeR process as its threads see them through       *)
(* fork(2), kill(2) and waitpid(2).  The operating system is not under     *)
(* src/: this module models what src/src/Program.cc and                    *)
(* src/src/Scheduler.cc rely on.                                           *)
(*                                                                         *)
(* A child stays in the process group of PETeR (the code never calls       *)
(* setpgid), so waitpid(0, ...) waits for any child of the process,        *)
(* whichever thread forked it.                                             *)
(***************************************************************************)
EXTENDS Integers, FiniteSets

CONSTANTS
    Pids,       \* the process identifiers that fork can return
    NoPid,      \* pid 0: "not running" for a Program, "any child" for waitpid
    Programs,   \* the Program objects that read_config creates
    NoProg      \* a NULL Program pointer

ASSUME KernelAssumption ==
    /\ NoPid \notin Pids
    /\ NoProg \notin Programs

VARIABLE kid    \* kid[k] is the child process with pid k

SIGKILL == 9

(* The status of waitpid: WEXITSTATUS and WTERMSIG. The exit code of a     *)
(* child that a signal ended reads as 0.                                   *)
Status == [res : Nat, sig : Nat]
Exited(r) == [res |-> r, sig |-> 0]
KilledBy(g) == [res |-> 0, sig |-> g]

KidRecord ==
    [st : {"free", "alive", "zombie"},
     prog : Programs \cup {NoProg},    \* the Program whose run() forked it
     cmd : Nat,                        \* the index of the command it executes
     pend : SUBSET Nat,                \* signals sent to it and not yet acted upon
     status : Status]
Kid == {r \in KidRecord : r.st # "free" => r.prog \in Programs}

Free == [st |-> "free", prog |-> NoProg, cmd |-> 0, pend |-> {}, status |-> Exited(0)]

FreePids == {k \in Pids : kid[k].st = "free"}
Alive(k) == kid[k].st = "alive"
Unreaped(k) == kid[k].st # "free"

KernelTypeOK == kid \in [Pids -> Kid]

KernelInit == kid = [k \in Pids |-> Free]

(* fork() returned k; the child executes command c of program p.           *)
Forked(k, p, c) ==
    [kid EXCEPT ![k] = [st |-> "alive", prog |-> p, cmd |-> c, pend |-> {}, status |-> Exited(0)]]

(* kill(k, g): fails when there is no such child, has no effect on a       *)
(* zombie, and otherwise leaves the signal for the child to act upon.      *)
KillSucceeds(k) == k \in Pids /\ Unreaped(k)
Signalled(k, g) ==
    IF k \in Pids /\ Alive(k) THEN [kid EXCEPT ![k].pend = @ \cup {g}] ELSE kid

(* waitpid(w, &status, WNOHANG): w = NoPid stands for any child.           *)
Matches(w, k) == Unreaped(k) /\ w \in {NoPid, k}
Reapable(w) == {k \in Pids : Matches(w, k) /\ kid[k].st = "zombie"}
NoChild(w) == \A k \in Pids : ~Matches(w, k)    \* -1, errno = ECHILD
Reaped(k) == [kid EXCEPT ![k] = Free]

(* A child ends with a status of its own: it returns from main, exits in   *)
(* a signal handler, or crashes.                                           *)
Ends(k, status) ==
    /\ Alive(k)
    /\ kid' = [kid EXCEPT ![k] = [st |-> "zombie", prog |-> @.prog, cmd |-> @.cmd,
                                  pend |-> {}, status |-> status]]

(* A signal that was sent to the child ends it.                            *)
KilledByPending(k, g) ==
    /\ g \in kid[k].pend
    /\ Ends(k, KilledBy(g))
=============================================================================
