SPECIFICATION Spec
CONSTANTS
    None = None
    operator = operator
    agent = agent
    holder = holder
    Issuers = {operator, agent}
    Holder = holder
    Stories <- StoriesDef
    MaxRedactions = 2
    MaxPaths = 2
    MaxSteps = 3
INVARIANTS
    SignedInContext
    DisclosedIsCommitted
    HeadPinsChain
    
    
    
CHECK_DEADLOCK FALSE
