CONSTANTS
    NHarts    <- MCNHarts
    MaxProcs  <- MCMaxProcs
    MaxClock  <- MCMaxClock
    SleepArgs <- MCSleepArgs
    RingCap   <- MCRingCap
    ElfOutcomes <- MCElfOutcomes

SPECIFICATION Spec

INVARIANT NoMissedInputWake
