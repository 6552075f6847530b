SPECIFICATION Spec
CONSTANTS
    Jobs = {j1, j2, j3}
    MaxLength = 3
    Patience = 2
    MaxAge = 4
INVARIANT OldIsForgotten
