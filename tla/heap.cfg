\* Three names in any order on a heap of 14 double words, and the scripted traces.
SPECIFICATION Spec
CONSTANTS
    Ids = {1, 2, 3, 4}
    Sizes = {0, 1, 2, 3, 4, 5, 7, 8, 9, 10, 11}
    Traces <- MCTraces
    MAX_HEAP = 14
    CHUNKSIZE = 4
    R <- MCR
    Q <- MCQ
INVARIANTS WellFormed Accounted FailsOnlyWhenFull
PROPERTIES Determined OnlyGrowthStrands Implements
CHECK_DEADLOCK FALSE
