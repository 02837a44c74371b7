SPECIFICATION Spec
CONSTANTS
    Commands = {c1, c2}
    NoCommand = NoCommand
    EchoWindow = 0
    ShowDelay = 1
    IdleTimeout = 1
    StartGrace = 2
    MaxDuration = 3
    DoneMin = 2
    DoneTTL = 2
    FailureTTL = 1
    Enabled = TRUE
    MaxTicks = 2
    MaxReloads = 1
INVARIANT SuccessIsEarned
PROPERTIES TickerGoesQuiet LongCommandIsShown DoneGoesAway
