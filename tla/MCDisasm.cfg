SPECIFICATION MCSpec
CHECK_DEADLOCK FALSE
CONSTANTS
    OptionSets <- Modes
    NextBytes <- MCNextBytes
    MaxLen = 15
    Ahead = 2
    Images <- MCImages
    Insn <- MCInsn
    BufRva = 4096
    MaxFrames = 4
INVARIANTS
    LengthIsArchitectural
    ModesAgree
    RawImmediateInPlace
    RelativeTargets
    FlowHasTarget
    RangeTiles
    FlowCovered
    ReturnsCount
PROPERTIES
    SizeIsFinal
    DriversEnd
