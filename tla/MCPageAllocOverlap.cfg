CONSTANTS
    NPages <- MCNPages
    NReserved <- MCNReserved
    Sizes <- MCSizes
    MaxHeld <- MCMaxHeld
SPECIFICATION Spec
CONSTRAINT MCFreeCountBound
INVARIANT NoPageHandedOutTwice
