CONSTANTS
    NHarts    <- MCNHarts
    MaxProcs  <- MCMaxProcs
    MaxClock  <- MCMaxClock
    SleepArgs <- MCSleepArgs
    RingCap   <- MCRingCap
    ElfOutcomes <- MCElfOutcomes

SPECIFICATION Spec

INVARIANT TypeOK
INVARIANT NoLostProcess
PROPERTY DispatchesLeastKey
PROPERTY VruntimeNeverDecreases
