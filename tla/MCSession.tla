------------------------------ MODULE MCSession ------------------------------
(***************************************************************************)
(* Instances of the control socket for TLC: clients of the four kinds      *)
(* with two schedulers, s1 with p1 and p3, and default with p2.            *)
(***************************************************************************)
EXTENDS Session

Cmd(name, arg) == [name |-> name, arg |-> arg, kids |-> << >>]
SchedulerCmd(s, kids) == [name |-> "scheduler", arg |-> s, kids |-> kids]

(* x is no client of PETeR, and n starts p2 from another host.  Then comes *)
(* one encrypted command after the other: b starts p1, h starts p3, which  *)
(* a high key byte makes p1 of, d stops p2 and meets the end of the key    *)
(* file, f may not quit, and e finds no key left for its longer command.   *)
(* At last a, which quits the default scheduler and asks for its programs, *)
(* beside o, which types an <otp/>, and the web page w.                    *)
AllClients == {"a", "b", "d", "e", "f", "h", "n", "o", "w", "x"}
Kinds ==
    [c \in AllClients |->
        CASE c \in {"a", "n", "o"} -> "pcmd" [] c \in {"b", "d", "e", "f", "h"} -> "otpcmd"
          [] c = "w" -> "pgui" [] OTHER -> "other"]
Inputs ==
    [c \in AllClients |->
        CASE c = "a" -> SchedulerCmd(NoName, <<"quit", "info">>)
          [] c = "b" -> Cmd("start", "p1")
          [] c = "d" -> Cmd("stop", "p2")
          [] c = "e" -> SchedulerCmd("s1", <<"quit">>)
          [] c = "f" -> Cmd("quit", NoName)
          [] c = "h" -> Cmd("start", "p3")
          [] c = "n" -> Cmd("start", "p2")
          [] c = "o" -> Cmd("otp", "ten")
          [] OTHER -> Cmd("status", NoName)]
InTurn ==
    [c \in AllClients |->
        CASE c = "n" -> {"x"} [] c = "b" -> {"n"} [] c = "h" -> {"b"} [] c = "d" -> {"b", "h"}
          [] c = "f" -> {"b", "h", "d"} [] c = "e" -> {"b", "h", "d", "f"}
          [] c \in {"a", "o"} -> {"e"} [] c = "w" -> {"a"} [] OTHER -> {}]
Known == AllClients \ {"n"}
NoQuit == <<"start", "stop", "scheduler">>

SomeNames ==
    {NoName, "start", "stop", "quit", "scheduler", "info", "status", "otp", "ten", "s1", "default", "p1", "p2", "p3"}
TwoScheds == <<"s1", "default">>
ThreeProgs == [s \in Range(TwoScheds) |-> IF s = "s1" THEN {"p1", "p3"} ELSE {"p2"}]

(* The name p3 lies two characters above p1.                               *)
TwoLower == [a \in {"p3"} |-> "p1"]

(* What the theorems about commands and about the one-time pad assume.     *)
ASSUME PadAssumption == NoOtpChild /\ OneAtATime
=============================================================================
