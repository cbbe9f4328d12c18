SPECIFICATION SessionSpec
CONSTANTS
    Sizes <- MCSizes
    Environments <- MCEnvironments
    Delays = {0, 2}
    MaxResizes = 3
    Ttys = {TRUE, FALSE}
    RedrawClobbers = {TRUE, FALSE}
    Findwp <- MCFindwp
    Special <- MCSpecial
    Extended <- MCExtended
    Keys <- MCKeys
    Clicks <- MCClicks
    Inputs <- MCInputs
INVARIANTS
    TakenAsSent
    KeysAreMapped
    QuietIsCurrent
PROPERTIES
    SizeSettles
    DelayNeverLate
    AllIsTaken
CHECK_DEADLOCK FALSE
