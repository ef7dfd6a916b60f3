\* Every file of up to three lines of 23, and of four lines of 9.
SPECIFICATION SpecBoth
CONSTANTS
    Files <- MCFiles
    UPPER = 65536
    LIMIT = 300
INVARIANTS Resolved AssemblersAgree
PROPERTY Decides
CHECK_DEADLOCK FALSE
