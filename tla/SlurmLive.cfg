SPECIFICATION FairSlurmSpec
CONSTANTS
    Jobs = {j1}
    Calls = {c1, c2}
    None = None
    Processing = Processing
    Validity = 0
    Window = 0
    Day = 0
    Attempts = 1
    MaxTime = 0
PROPERTIES
    PollsEnd
