SPECIFICATION Spec
CONSTANTS
    Workers = {w1}
    Nobody = Nobody
    Runs = {r1, r2}
    NoRun = NoRun
    CyclePhases <- ThreePhases
    ModelPhases = {"extract", "synopsis"}
PROPERTIES
    NoFreeze
