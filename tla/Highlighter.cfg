SPECIFICATION Spec
CONSTANTS
    MaxLines = 6
    LinesPerTick = 2
    MaxTexts = 3
PROPERTY TextIsColoured
CHECK_DEADLOCK FALSE
