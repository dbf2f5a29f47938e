SPECIFICATION LaunchSpec
CONSTANTS
    Documents <- NotifyOnly
    Broken = {}
    Numerals <- Words
    DateTimes <- Dates
    Address <- Hosts
    HaveClearEnv = TRUE
    PathDirs <- Path
    Dirs <- HomeDirs
    FileKind <- FilesThere
    FullPath <- Full
    DotPath <- Dot
    Creatable <- Logs
    Deaths <- SomeDeaths
    MaxDeaths = 3
INVARIANTS
    NotificationTells
