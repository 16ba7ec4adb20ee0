CONSTANTS
    Harts    <- MCHarts
    Tick     <- MCTick
    MaxProcs <- MCMaxProcs
    EventsDuringConsoleLocks = TRUE

SPECIFICATION Spec

INVARIANT Hart0NeverSpinsOnItself
