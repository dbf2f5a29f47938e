SPECIFICATION Spec
CONSTANTS
    p1 = p1
    p2 = p2
    p3 = p3
    s1 = s1
    s2 = s2
    NoPid = NoPid
    NoProg = NoProg
    Programs = {p1, p2}
    Schedulers = {s1}
    Pids = {k1, k2}
    Progs <- OneSchedulerTwo
    InitSchedule <- LaterInitSecond
    SeqLen <- SequenceFirst
    StopSig <- TwoSignals
    MaxStarts <- NoLimit
    MinRun <- Never
    MaxRun <- Never
    OnExit <- CrossOnExit
    OnSignal <- CrossOnSignal
    Statuses <- EndsOrCrashes
    RunOutcomes <- Runs
    WaitTries = 2
    KillTries = 1
    MaxCmds = 2
    Order <- OnlyFirst
    CmdKinds = {"start", "stop", "quit_one"}
    MaxQueue = 4
INVARIANTS
    TypeOK
    Tracked
    SequenceInStep
    SequenceContinues
    NoSurvivor
    PidIsChild
    NeverNull
PROPERTIES
    SignalsOwnChild
    ImplementsSupervisor
CONSTRAINT ShortQueue
SYMMETRY PidSymmetry
