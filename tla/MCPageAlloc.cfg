CONSTANTS
    NPages <- MCNPages
    NReserved <- MCNReserved
    Sizes <- MCSizes
    MaxHeld <- MCMaxHeld
SPECIFICATION Spec
INVARIANT TypeOK
INVARIANT AllocFindsWindow
CONSTRAINT MCFreeCountBound
CHECK_DEADLOCK FALSE
