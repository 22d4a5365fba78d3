SPECIFICATION Spec
CONSTANTS
    Procs = {p1, p2}
    Gens = {g1, g2, g3}
    NoProc = NoProc
    NoGen = NoGen
    MaxOutages = 1
    JournalMayReturn = TRUE
SYMMETRY Symmetry
INVARIANTS
    TypeOK
    CommittedIntact
    AuditLinear
    NoLostUpdate
    RemovalSpares
    NoOrphansLeft
    ReadStaysCurrent
PROPERTY
    ImplementsLog
