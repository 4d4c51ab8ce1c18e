CONSTANTS
    Profiles = {standard, deep}
    MaxScans = 2
    Exports = {x1, x2}
    Formats = {"html", "zip"}
    MaxTime = 1
SYMMETRY Symmetry
SPECIFICATION Spec
CHECK_DEADLOCK FALSE
INVARIANTS
    ExportsAreTrue
    ReceiptIsOfShown
    EnvironmentIsRestored
