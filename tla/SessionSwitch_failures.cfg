\* A connection dies at any point; threads, buffers and cache entries may be refused.
CONSTANTS
    NumSlots = 2
    Answering = {1}
    MaxEntries = 1
    MaxAUs = 1
    MaxPresses = 3
    MaxFailures = 1
    MaxDrops = 0
    MaxSets = 0
    Faults = {"start", "alloc", "fit", "size"}
SPECIFICATION Spec
INVARIANTS HiddenSilenced NoMediaLeak
