\* The ring holds two frames and three are pushed, so that it is lapped.
CONSTANTS
    Capacity = 2
    Width = 8
    Targets = {2}
    InitialTarget = 2
    Excess = 0
    Kept = 0
    Packet = 2
    MaxFrames = 3
    MaxFormats = 2
    MaxSpurts = 1
    Loggers = {l1, l2}
    Setters = {t1, t2}
    Contexts = {c1, c2}
    NoContext = NoContext
    Categories = {k1}
    MaxSets = 3
    MaxConfigurations = 1
    Volumes = {v1}
    Unknown = Unknown
    MaxEvents = 2
    Sessions = {s1, s2}
    NoSession = NoSession
    Keys = {k}
    Buttons = {}
    Confirm = Confirm
    MouseRing = 1
    KeyboardRing = 2
    Remote = {s1, Confirm}
    Candidates = 2
    MaxSaves = 3
    MaxMishaps = 3
SPECIFICATION Spec
INVARIANTS
    TypeOK
    RingIntact NoTornFrame FramesAreCurrent
    SinkAlive SlotsCounted LevelInForce
    OneCallEach NewestSent
    NothingStranded NoGhostPress
    SavedComesBack
PROPERTIES
    ImplementsSoundQueue ImplementsSavedCell BurstDrains SetReturns ReadingsInOrder SetGoesOut PressesGoToTheScreen SaveFindsRoom
