SPECIFICATION FairSpec
CONSTANTS
    p1 = p1
    p2 = p2
    p3 = p3
    s1 = s1
    s2 = s2
    NoPid = NoPid
    NoProg = NoProg
    Programs = {p1, p2, p3}
    Schedulers = {s1}
    Pids = {k1, k2}
    Progs <- OneSchedulerThree
    InitSchedule <- IdleInitSecond
    SeqLen <- SequenceFirst
    StopSig <- Term
    MaxStarts <- FirstOnce
    MinRun <- FirstOnly
    MaxRun <- Never
    OnExit <- RichOnExit
    OnSignal <- RichOnSignal
    Statuses <- FirstInAnyWay
    RunOutcomes <- FirstNoLogSecondMissing
    WaitTries = 2
    KillTries = 1
    MaxCmds = 1
    Order <- OnlyFirst
    CmdKinds = {"stop", "quit"}
    MaxQueue = 4
INVARIANTS
    RestartBudget
    LogTruth
PROPERTIES
    MissingEnds
    QuitReady
    ShutdownEndsAll
    Restarted
