SPECIFICATION Spec
CONSTANTS
    Objects = {t1, t2}
    Names = {a, b}
    Configs = {c1, c2}
    None = None
    Jobs = {j1, j2}
    WritesFail = FALSE
    Intents = FALSE
    Overlaps = {"any"}
SYMMETRY Symmetry
INVARIANTS
    DeletedNotRunning
