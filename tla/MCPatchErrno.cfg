SPECIFICATION Spec
CONSTANTS
    Sizes <- MCSizes
    Environments <- MCEnvironments
    Delays = {0, 1, 3}
    MaxResizes = 3
    Ttys = {TRUE, FALSE}
    RedrawClobbers = {TRUE, FALSE}
PROPERTIES
    DelayIsExact
