\* Servers that never answer a keyframe request; audio that opens late and reloads
\* the pipeline, which may then discard an IDR.
CONSTANTS
    NumSlots = 2
    Answering = {}
    MaxEntries = 1
    MaxAUs = 1
    MaxPresses = 3
    MaxFailures = 0
    MaxDrops = 1
    MaxSets = 0
    Faults = {"audio"}
SPECIFICATION Spec
INVARIANT ScreenStreams
PROPERTY ReplayRejoins
