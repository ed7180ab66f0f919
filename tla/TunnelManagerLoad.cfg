SPECIFICATION Spec
CONSTANTS
    Objects = {t1, t2}
    Names = {a, b}
    Configs = {c1, c2}
    None = None
    Jobs = {j1, j2}
    WritesFail = TRUE
    Intents = TRUE
    Overlaps = {"none"}

    
PROPERTIES
    LoadCompletes
