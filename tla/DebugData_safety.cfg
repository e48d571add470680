\* Three executions log to a queue of two items, two viewers look.
SPECIFICATION Spec
CONSTANTS
    Events = {e1, e2, e3}
    Views = {v1, v2}
    ConfSize = 2
    DefaultSize = 1
    FallbackSize = 1
    Spare = 1
    Bits <- MCBits
    Asks <- MCAsks
    None = None
SYMMETRY Symmetry
INVARIANTS
    TypeOK
    QueueBounded
    UnviewedKeepsLatest
    QuietPageIsExact
\* The callbacks and the requests are finite.
CHECK_DEADLOCK FALSE
