SPECIFICATION Spec
CONSTANTS
    TextLen <- MCTextLen
    Functions <- MCFunctions
    Original <- MCOriginal
    Routines = {r1, r2}
    Callbacks = {r1, r2}
    FixupIds = {x1, x2}
    Address <- MCAddress
    FlagChoices <- MCFlags
    PageSize = 32
    Unsealed = {}
    r1 = r1
    r2 = r2
    x1 = x1
    x2 = x2
    x3 = x3
INVARIANTS
    HookInv
    UnhookedIsOriginal
    NoUseAfterFree
    PatchNeverFaults
    CallRunsRedirect
    UnhookedRunsOriginal
PROPERTY AbsSpec
