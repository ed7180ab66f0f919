SPECIFICATION Spec
CONSTANTS
    Tunnels = {t1, t2}
    Configs = {c1, c2}
    None = None
    Calls = {i1}
    Serialised = TRUE
    Restarts = TRUE
    Faults = FALSE
SYMMETRY Symmetry
INVARIANTS
    TurnsOffOthers
