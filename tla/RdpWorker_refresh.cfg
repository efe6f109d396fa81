CONSTANTS
    Depth = 2
    MaxAttempts = 1
    MaxSends = 6
    Keys = {}
    Positions = {}
    NoPosition = NoPosition
    Sendable <- ControlCommands
SPECIFICATION Spec
INVARIANT RefreshFollowsResume
\* After rdp_session_stop, or once the worker has ended, the session really stops.
CHECK_DEADLOCK FALSE
