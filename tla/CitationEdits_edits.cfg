SPECIFICATION Spec
CONSTANTS
    Cites = {c1, c2}
    Edits = {e1, e2}
    Notes = {n1}
    None = None
SYMMETRY Symmetry
CHECK_DEADLOCK FALSE
INVARIANTS VersionsNumbered BaselineClean ProjectionAgrees HistoryKeeps EditsCompose
