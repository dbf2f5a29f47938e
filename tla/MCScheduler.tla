----------------------------- MODULE MCScheduler -----------------------------
(***************************************************************************)
(* Instances of the schedulers for TLC.  A configuration is what           *)
(* read_config would have built from an XML file; the .cfg of a run picks  *)
(* one definition per constant.                                            *)
(***************************************************************************)
EXTENDS SupervisorRefinement

CONSTANTS p1, p2, p3, s1, s2,
    MaxQueue    \* bound: work units in a schedule

(* A program can die, and be restarted, any number of times within one     *)
(* reaping loop, and each time queue work: longer schedules are cut off.   *)
ShortQueue == \A s \in Schedulers : Len(schedule[s]) <= MaxQueue

PidSymmetry == Permutations(Pids)

Start(p, a) == [type |-> "start", prog |-> p, after |-> a]
Stop(p, a) == [type |-> "stop", prog |-> p, after |-> a]
Quit == [type |-> "exit", prog |-> NoProg, after |-> FALSE]
StartSelf == <<Start(NoProg, FALSE)>>

Each(v) == [p \in Programs |-> v]
Three(a, b, c) == [p \in Programs |-> CASE p = p1 -> a [] p = p2 -> b [] OTHER -> c]
Pair(a, b) == [p \in Programs |-> IF p = p1 THEN a ELSE b]
RunUnit(p) == Unit("RUN", p, TRUE)

(* One scheduler with one, two or three programs; two schedulers.          *)
OneSchedulerOne == s1 :> <<p1>>
OneSchedulerTwo == s1 :> <<p1, p2>>
OneSchedulerThree == s1 :> <<p1, p2, p3>>
TwoSchedulers == s1 :> <<p1>> @@ s2 :> <<p2>>
TwoAndOne == s1 :> <<p1, p3>> @@ s2 :> <<p2>>

FirstThenSecond == <<s1, s2>>
OnlyFirst == <<s1>>

DefaultInitOne == s1 :> <<RunUnit(p1)>>
DefaultInitSchedulers == s1 :> <<RunUnit(p1)>> @@ s2 :> <<RunUnit(p2)>>
LaterInitSecond == s1 :> <<RunUnit(p1), Unit("RUN", p2, FALSE)>>
IdleInitSecond == s1 :> <<RunUnit(p1), Unit("NOSTART", p2, TRUE), RunUnit(p3)>>
IdleInitThird == s1 :> <<RunUnit(p1), Unit("NOSTART", p3, TRUE)>> @@ s2 :> <<RunUnit(p2)>>

OneCommand == Each(1)
SequenceFirst == Pair(2, 1)
Term == Each(15)
TwoSignals == Pair(15, 2)
NoLimit == Each(-1)
FirstOnce == Pair(1, -1)
Never == Each(FALSE)
Always == Each(TRUE)
FirstOnly == Pair(TRUE, FALSE)
Runs == Each({"ok"})
FirstNoLogSecondMissing == Three({"ok", "nolog"}, {"missing"}, {"ok"})

(* The default actions of read_config: restart on result 0 and on any      *)
(* signal.                                                                 *)
DefaultOnExit == Each(0 :> StartSelf)
DefaultOnSignal == Each(0 :> StartSelf)

(* p1 restarts p2 after a while when it ends, stops it when a signal ends  *)
(* it, and starts itself in both cases; p2 has the default actions.        *)
CrossOnExit == Pair(0 :> <<Start(p2, TRUE), Start(NoProg, FALSE)>>, 0 :> StartSelf)
CrossOnSignal == Pair(0 :> <<Stop(p2, FALSE), Start(NoProg, FALSE), Stop(NoProg, FALSE)>>,
                      0 :> StartSelf)

(* p1: a delayed restart, an exit code without an action, one that starts  *)
(* p2, whose binary is missing, and a quit when a signal ends it; p3 is    *)
(* restarted after a while.                                                *)
Again == <<Start(NoProg, TRUE)>>
RichOnExit == Pair(0 :> Again @@ 2 :> <<Start(p2, FALSE)>>, 0 :> Again)
RichOnSignal == Pair(15 :> << >> @@ 0 :> <<Quit>>, 0 :> Again)

EndsWell == Each({Exited(0)})
EndsOrCrashes == Each({Exited(0), KilledBy(11)})
EndsInAnyWay == Each({Exited(0), Exited(1), Exited(2), KilledBy(11)})
FirstInAnyWay == Pair({Exited(0), Exited(1), Exited(2), KilledBy(11)}, {Exited(0)})
Immortal == Each({})
=============================================================================
