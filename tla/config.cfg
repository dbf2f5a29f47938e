SPECIFICATION LaunchSpec
CONSTANTS
    Documents <- AllFiles
    Broken <- CutOff
    Numerals <- Words
    DateTimes <- Dates
    Address <- Hosts
    HaveClearEnv = TRUE
    PathDirs <- Path
    Dirs <- HomeDirs
    FileKind <- FilesThere
    FullPath <- Full
    DotPath <- Dot
    Creatable <- Logs
    Deaths <- SomeDeaths
    MaxDeaths = 3
INVARIANTS
    TypeOK
    TreeIsDocument
    ActionsAsWritten
    StartsAsWritten
    SchedulerReady
    AccessAsWritten
    ArgsAsWritten
    CheckTellsExec
    ExitsOrReads
