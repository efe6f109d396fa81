\* Key, button and pointer input across two connection attempts; stopping at
\* any point, with a server that may never answer.
CONSTANTS
    Depth = 2
    MaxAttempts = 2
    MaxSends = 4
    Keys = {k1, k2}
    Positions = {p1}
    NoPosition = NoPosition
    Sendable <- InputCommands
SPECIFICATION FairSpec
INVARIANTS NoStuckKey NoLostPress
PROPERTIES QuietAfterStop StopReturns SendReturns
\* After rdp_session_stop, or once the worker has ended, the session really stops.
CHECK_DEADLOCK FALSE
