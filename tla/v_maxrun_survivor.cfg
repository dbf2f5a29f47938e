SPECIFICATION Spec
CONSTANTS
    p1 = p1
    p2 = p2
    p3 = p3
    s1 = s1
    s2 = s2
    NoPid = NoPid
    NoProg = NoProg
    Programs = {p1}
    Schedulers = {s1}
    Pids = {k1, k2}
    Progs <- OneSchedulerOne
    InitSchedule <- DefaultInitOne
    SeqLen <- OneCommand
    StopSig <- Term
    MaxStarts <- NoLimit
    MinRun <- Never
    MaxRun <- Always
    OnExit <- DefaultOnExit
    OnSignal <- DefaultOnSignal
    Statuses <- EndsOrCrashes
    RunOutcomes <- Runs
    WaitTries = 2
    KillTries = 1
    MaxCmds = 1
    Order <- OnlyFirst
    CmdKinds = {"quit"}
    MaxQueue = 4
INVARIANTS
    NoneLeftRunning
CONSTRAINT ShortQueue
