SPECIFICATION Spec
CONSTANTS
    None = None
    Elsewhere = Elsewhere
    operator = operator
    agent = agent
    Operator = operator
    Parties = {operator, agent}
    Versions = {3,6}
    MaxTime = 2
    MaxLen = 6
    MaxWork = 2
    Topics <- TopicsDef
INVARIANTS
    VerdictIsDeserved
    RevocationIsExact
PROPERTY
    ErrorsAreFinal
CHECK_DEADLOCK FALSE
