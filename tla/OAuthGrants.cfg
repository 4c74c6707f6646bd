SPECIFICATION Spec
CONSTANTS
    Grants = {g1}
    Requests = {p1, p2}
    CodeTtl = 2
    AccessTtl = 3
    RefreshTtl = 3
    Patience = 1
    Horizon = 8
    MaxTokens = 3
INVARIANTS
    OneLineage
    RevokedIsNotRenewed
    RevokedIsNotServed
SYMMETRY Identities
CHECK_DEADLOCK FALSE
