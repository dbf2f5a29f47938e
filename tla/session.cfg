SPECIFICATION Spec
CONSTANTS
    Names <- SomeNames
    Clients <- AllClients
    Kind <- Kinds
    Typed <- Inputs
    After <- InTurn
    Interruptible = {"a", "w"}
    HostAllow <- Known
    CmdAllow <- NoQuit
    OtpOnly = {FALSE, TRUE}
    Scheds <- TwoScheds
    ProgsOf <- ThreeProgs
    KeyLen = 26
    HighKey = {10, 15}
    Lookalike <- TwoLower
INVARIANTS
    TypeOK
    EffectsAreCommands
    AnswerTells
    OtpReadable
    ClosedOnce
    PadOnce
PROPERTIES
    Served
