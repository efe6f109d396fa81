\* Two sessions die within one pass of the failure drain.
CONSTANTS
    NumSlots = 2
    Answering = {1}
    MaxEntries = 1
    MaxAUs = 1
    MaxPresses = 2
    MaxFailures = 2
    MaxDrops = 0
    MaxSets = 0
    Faults = {}
SPECIFICATION Spec
INVARIANT ScreenHasSession
