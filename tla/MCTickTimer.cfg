CONSTANTS
    Harts    <- MCHarts
    Tick     <- MCTick
    MaxProcs <- MCMaxProcs
    EventsDuringConsoleLocks = FALSE

SPECIFICATION FairSpec

INVARIANT TypeOK
INVARIANT LockExclusive
PROPERTY WakeSeenBeforeClockMoves
PROPERTY HartsKeepTicking
PROPERTY IdleHartRunsWork
