SPECIFICATION Spec
CONSTANTS
    Names = {1, 2, 3}
    Lengths <- LongLengths
    Alloc = 512
    WideOffset = {2}
    MayFail = FALSE
PROPERTIES
    EndIsTheEnd
