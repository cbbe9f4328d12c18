SPECIFICATION Spec
CONSTANTS
    TextLen <- TwoTextLen
    Functions <- TwoFunctions
    Original <- TwoOriginal
    Routines = {r1, r2}
    Callbacks = {r1, r2}
    FixupIds = {x1}
    Address <- OneAddress
    FlagChoices <- MCFlags
    PageSize = 32
    Unsealed = {}
    r1 = r1
    r2 = r2
    x1 = x1
    x2 = x2
    x3 = x3
INVARIANT PatchNeverFaults
