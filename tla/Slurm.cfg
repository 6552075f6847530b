SPECIFICATION SlurmSpec
CONSTANTS
    Jobs = {j1}
    Calls = {c1, c2}
    None = None
    Processing = Processing
    Validity = 1
    Window = 1
    Day = 2
    Attempts = 1
    MaxTime = 2
INVARIANTS
    SlurmTypeOK
    OneSacct
    EndsAreSeen
    ReportsAreTrue
