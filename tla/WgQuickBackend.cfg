SPECIFICATION Spec
CONSTANTS
    Tunnels = {t1, t2, t3}
    Configs = {c1, c2}
    None = None
    Calls = {i1}
    Serialised = TRUE
    Restarts = TRUE
    Faults = TRUE
SYMMETRY Symmetry
INVARIANTS
    MapExact
    FailureRestores
    LowersOthers
    RaisedRuns
