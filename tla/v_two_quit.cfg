SPECIFICATION FairSpec
CONSTANTS
    p1 = p1
    p2 = p2
    p3 = p3
    s1 = s1
    s2 = s2
    NoPid = NoPid
    NoProg = NoProg
    Programs = {p1, p2}
    Schedulers = {s1, s2}
    Pids = {k1, k2}
    Progs <- TwoSchedulers
    InitSchedule <- DefaultInitSchedulers
    SeqLen <- OneCommand
    StopSig <- Term
    MaxStarts <- NoLimit
    MinRun <- Never
    MaxRun <- Never
    OnExit <- DefaultOnExit
    OnSignal <- DefaultOnSignal
    Statuses <- Immortal
    RunOutcomes <- Runs
    WaitTries = 1
    KillTries = 1
    MaxCmds = 1
    Order <- FirstThenSecond
    CmdKinds = {"quit"}
    MaxQueue = 4
PROPERTIES
    QuitsAllSchedulers
