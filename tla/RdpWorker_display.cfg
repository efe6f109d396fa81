\* Display toggles and refreshes across three connection attempts, with a
\* server that answers.
CONSTANTS
    Depth = 2
    MaxAttempts = 3
    MaxSends = 4
    Keys = {}
    Positions = {}
    NoPosition = NoPosition
    Sendable <- ControlCommands
SPECIFICATION AnsweredSpec
INVARIANTS TypeOK CommandedDisplayWins
PROPERTIES ImplementsDisplayIntent
\* After rdp_session_stop, or once the worker has ended, the session really stops.
CHECK_DEADLOCK FALSE
