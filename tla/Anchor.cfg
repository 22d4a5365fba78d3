SPECIFICATION Spec
CONSTANTS
    None = None
    Cases <- CasesDef
    Heights = {1, 2}
    Ops <- OpsDef
    MaxBytes = 2
    MaxDepth = 2
    MaxNodes = 3
    MaxTokens = 5
INVARIANTS
    ReadsTheTree
    VerifiedIsCommitted
CHECK_DEADLOCK FALSE
