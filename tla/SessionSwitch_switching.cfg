\* Switching back and forth between a server that answers a keyframe request and
\* one that does not, on a network and a TV that do not fail.
CONSTANTS
    NumSlots = 2
    Answering = {1}
    MaxEntries = 2
    MaxAUs = 2
    MaxPresses = 3
    MaxFailures = 0
    MaxDrops = 0
    MaxSets = 1
    Faults = {}
SPECIFICATION Spec
INVARIANTS TypeOK ScreenStreams HiddenSilenced CacheEndsWithStream
PROPERTIES ReplayRejoins OnlyKeyframesTakeOver
