SPECIFICATION Spec
CONSTANTS
    p1 = p1
    p2 = p2
    p3 = p3
    a = a
    b = b
    Procs <- MCProcs
    Policies <- MCPolicies
    PolicyOf <- MCPolicyOf
    NoPolicy = NoPolicy
    NoProc = NoProc
    MaxOutages = 1
SYMMETRY Symmetry
INVARIANTS
    TypeOK
    AdmittedIsBound
PROPERTY
    PolicyBindsOnce
