------------------------ MODULE SupervisorRefinement ------------------------
(***************************************************************************)
(* The schedulers of module Scheduler implement the abstract Supervisor,   *)
(* unless a program has a maxruntime (its child may then outlive the pid   *)
(* that the program remembers).                                            *)
(***************************************************************************)
EXTENDS SchedulerProps

(* A child that is alive and has not been sent SIGKILL.                    *)
StillUp(k) == Alive(k) /\ SIGKILL \notin kid[k].pend

StateOf(p) ==
    IF ChildrenOf(p) = {} THEN "idle"
    ELSE IF \E k \in ChildrenOf(p) : StillUp(k) THEN "up" ELSE "doomed"

PhaseOf(s) ==
    CASE InLoop(s) -> "on"
      [] pc[s] = "ready" -> "ready"
      [] pc[s] = "dead" -> "lost"
      [] OTHER -> "ending"

OwnerOf == [p \in Programs |-> CHOOSE s \in Schedulers : Owns(s, p)]

Abstract == INSTANCE Supervisor WITH
    Owner <- OwnerOf,
    state <- [p \in Programs |-> StateOf(p)],
    at <- seq_idx,
    phase <- [s \in Schedulers |-> PhaseOf(s)],
    gone <- ~up

(* Every behaviour of the threads, children and commands is one of the     *)
(* Supervisor: programs start one at a time and only while their scheduler *)
(* is in its loop, sequences advance with each death that is noticed there *)
(* and with no other, and READY leaves nobody unkilled (Scheduler.cc       *)
(* 86-348, Program.cc 85-308 and 463-567).                                 *)
ImplementsSupervisor == Abstract!Spec
=============================================================================
