SPECIFICATION Spec
CONSTANTS
    p1 = p1
    p2 = p2
    p3 = p3
    s1 = s1
    s2 = s2
    NoPid = NoPid
    NoProg = NoProg
    Programs = {p1, p2, p3}
    Schedulers = {s1, s2}
    Pids = {k1, k2, k3}
    Progs <- TwoAndOne
    InitSchedule <- IdleInitThird
    SeqLen <- OneCommand
    StopSig <- Term
    MaxStarts <- NoLimit
    MinRun <- Never
    MaxRun <- FirstOnly
    OnExit <- DefaultOnExit
    OnSignal <- DefaultOnSignal
    Statuses <- EndsWell
    RunOutcomes <- Runs
    WaitTries = 2
    KillTries = 1
    MaxCmds = 1
    Order <- FirstThenSecond
    CmdKinds = {"start", "quit", "quit_one", "ctrl_c"}
    MaxQueue = 4
INVARIANTS
    KnownChildren
CONSTRAINT ShortQueue
SYMMETRY PidSymmetry
