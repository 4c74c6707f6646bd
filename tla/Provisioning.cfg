SPECIFICATION Spec
CONSTANTS
    Runs = {r1, r2, r3}
    NoRun = NoRun
    Languages = {english, spanish}
    Unset = Unset
    Stray = Stray
INVARIANTS
    OneHolderPerLease
    RowIsLegal
    ReadySpeaksItsLanguage
    ReadyRoutes
    NoSilentOrphan
PROPERTIES
    OnlyAnEarlierReadReopens
SYMMETRY Identities
\* every run ends
CHECK_DEADLOCK FALSE
