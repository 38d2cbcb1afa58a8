SPECIFICATION Spec
CONSTANTS
    Engines = {e1, e2}
    Names = {"V1", "V2", "V2b"}
    Version <- MCVersion
    Bodies <- MCBodies
    FirstDirs <- MCFirstDirs
    SqlFile <- MCSqlFile
    MaxWipes = 1
    MaxFaults = 1
    MaxEdits = 1
    None = None
CHECK_DEADLOCK FALSE
INVARIANTS
    Converged
    NoGap
PROPERTIES
    Completes
