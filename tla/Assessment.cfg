SPECIFICATION Spec
CONSTANTS
    None = None
    Junk = Junk
    alice = alice
    mallory = mallory
    Keys = {alice, mallory}
    Trusted = alice
    f1 = f1
    f2 = f2
    Files = {f1, f2, f3}
    Oversized = {f3}
    Scopes = {s1, s2}
    Scope = s1
    Contexts = {c1, c2}
    Context = c1
    MaxAge = 1
    Policies <- PoliciesDef
    MaxTime = 2
    MaxBundles = 2
    MaxCheckpoints = 2
    MaxNotes = 1
INVARIANTS
    ReleasedIsCommitted
    AsksOnlyWhatHelps
    ConsumerDecides
    NotesHold
SYMMETRY Symmetry
CHECK_DEADLOCK FALSE
