CONSTANTS
    Depth = 2
    MaxAttempts = 1
    MaxSends = 3
    Keys = {}
    Positions = {p1, p2}
    NoPosition = NoPosition
    Sendable <- InputCommands
SPECIFICATION Spec
INVARIANT LatestPositionKept
\* After rdp_session_stop, or once the worker has ended, the session really stops.
CHECK_DEADLOCK FALSE
