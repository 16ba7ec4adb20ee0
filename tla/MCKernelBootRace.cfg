CONSTANTS
    NHarts = 8
    Entries <- MCEntries

SPECIFICATION BootSpec

INVARIANT ConsoleHartSurvivesBoot
CHECK_DEADLOCK FALSE
