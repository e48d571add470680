\* Two connections, of one client id or of two, while the user's service is
\* replaced once and two executions trace an event each.
SPECIFICATION Spec
CONSTANTS
    Conns = {c1, c2}
    Clients = {i1, i2}
    Events = {e1, e2}
    MaxService = 2
    None = None
SYMMETRY Symmetry
INVARIANTS
    TypeOK
    NoGhost
    OneIsServed
    SentOnce
PROPERTIES
    RawOnceSpoken
    EventsAreSent
\* The connections and the events are finite.
CHECK_DEADLOCK FALSE
