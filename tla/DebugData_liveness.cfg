\* Three executions and one viewer, every push fair.
SPECIFICATION FairSpec
CONSTANTS
    Events = {e1, e2, e3}
    Views = {v1}
    ConfSize = 2
    DefaultSize = 1
    FallbackSize = 1
    Spare = 1
    Bits <- MCBits
    Asks <- SmallAsks
    None = None
PROPERTY
    AddsReturn
\* The callbacks and the requests are finite.
CHECK_DEADLOCK FALSE
