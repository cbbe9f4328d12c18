SPECIFICATION Spec
CONSTANTS
    Names = {1, 2, 3}
    Lengths <- SomeLengths
    Alloc = 512
    WideOffset = {2}
    MayFail = TRUE
INVARIANTS
    BufferHolds
PROPERTIES
    AbsSpec
    ListingEnds
