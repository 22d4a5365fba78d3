SPECIFICATION Spec
CONSTANTS
    Attempts = {a1, a2, a3}
    Operations = {o1, o2}
    NoOne = NoOne
    NoFile = NoFile
    Foreign = Foreign
    MaxOutages = 2
    MaxMeddling = 1
INVARIANTS
    TypeOK
    RecordedStands
    AlarmIsTrue
PROPERTY SparesForeign
SYMMETRY Symmetry
CHECK_DEADLOCK FALSE
