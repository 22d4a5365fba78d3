SPECIFICATION FairSpec
CONSTANTS
    Procs = {p1, p2}
    Gens = {g1, g2}
    NoProc = NoProc
    NoGen = NoGen
    MaxOutages = 1
    JournalMayReturn = FALSE
INVARIANT
    AnswersHold
PROPERTIES
    LockIsReturned
    OperationsEnd
