SPECIFICATION Spec
CONSTANTS
    Procs = {p1, p2}
    Gens = {g1, g2, g3}
    NoProc = NoProc
    NoGen = NoGen
    MaxOutages = 1
    MaxRestores = 1
SYMMETRY Symmetry
INVARIANTS
    TypeOK
    
    CompleteIsDurable
    
    RollbackNoticed
    
PROPERTY
    WitnessNeverRegresses
