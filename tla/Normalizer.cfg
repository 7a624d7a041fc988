CONSTANTS
    Kinds = {"number", "count"}
    Modes = {"unset", "set", "explicit"}
    Increments = {0, 1}
    Shapes = {1, 2}
    Word = 16
    None = None
    MaxTime = 5
    MaxResets = 2
SPECIFICATION Spec
CHECK_DEADLOCK FALSE
INVARIANTS
    ExactUntilReset
    DroppedOnlyForStart
    StartIsZeroAfterReset
PROPERTIES
    IntervalsInOrder
    ResetsAreReal
