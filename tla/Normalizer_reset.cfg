CONSTANTS
    Kinds = {"number", "count"}
    Modes = {"unset"}
    Increments = {0, 1, 2}
    Shapes = {1, 2}
    Word = 16
    None = None
    MaxTime = 5
    MaxResets = 1
SPECIFICATION Spec
CHECK_DEADLOCK FALSE
PROPERTIES
    SubsequentResetsDetected
