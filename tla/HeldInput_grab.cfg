CONSTANTS
    Sessions = {s1, s2}
    NoSession = NoSession
    Keys = {k}
    Buttons = {b}
    Confirm = Confirm
    MouseRing = 1
    KeyboardRing = 1
    Remote = {s1, s2, Confirm}
SPECIFICATION HeldSpec
INVARIANT StreamHasInput
