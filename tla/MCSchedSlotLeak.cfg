CONSTANTS
    NHarts    <- MCNHarts
    MaxProcs  <- MCMaxProcs
    MaxClock  <- MCMaxClock
    SleepArgs <- MCSleepArgs
    RingCap   <- MCRingCap
    ElfOutcomes <- MCElfValid

SPECIFICATION Spec

INVARIANT UntrackedIsInvalid
