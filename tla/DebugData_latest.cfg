\* Three executions log to a queue of two items, one viewer looks.
SPECIFICATION Spec
CONSTANTS
    Events = {e1, e2, e3}
    Views = {v1}
    ConfSize = 0
    DefaultSize = 2
    FallbackSize = 1
    Spare = 1
    Bits <- MCBits
    Asks <- SmallAsks
    None = None
SYMMETRY Symmetry
PROPERTY
    KeepsLatest
\* The callbacks and the requests are finite.
CHECK_DEADLOCK FALSE
