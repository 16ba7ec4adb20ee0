CONSTANTS
    NHarts = 3
    e1 = e1
    e2 = e2
    Entries <- MCEntries

SPECIFICATION FairSpec
SYMMETRY MCSymmetry

INVARIANT TypeOK
INVARIANT StatusMatchesMode
PROPERTY StartingLeadsToStarted
PROPERTY AbstractSpec
CHECK_DEADLOCK FALSE
