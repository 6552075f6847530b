SPECIFICATION FairCondorSpec
CONSTANTS
    Validity = 1
    Lifetime = 2
    Day = 4
    Jobs = {j1}
    Calls = {c1, c2}
    NoCall = NoCall
    Attempts = 1
INVARIANTS
    CondorTypeOK
    HandedOutIsFresh
    UnknownIsTrue
    SucceededIsTrue
PROPERTIES
    CallsEnd
