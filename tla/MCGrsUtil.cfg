SPECIFICATION Spec
CONSTANTS
    Files <- MCFiles
    Names = {"P", "Z"}
    Values = {2}
    FieldNums = {0, 1, 2, 3}
INVARIANTS
    EditsOnlyWhatWasChosen
    ShownIsWritten
    AllOrNothing
    EditIsMade
CHECK_DEADLOCK FALSE
