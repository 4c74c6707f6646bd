SPECIFICATION Spec
CONSTANTS
    Workers = {w1, w2}
    Nobody = Nobody
    Runs = {r1, r2}
    NoRun = NoRun
    CyclePhases <- TwoModelPhases
    ModelPhases = {"extract", "synopsis"}
INVARIANTS
    TypeOK
    ThriftIsEarned
    DreamtMeansWorked
PROPERTIES
    AdoptedOnce
    NeverRepaid
SYMMETRY Identities
