\* The watchdog taking a delta over a gap for a decodable frame.
CONSTANTS
    NumSlots = 2
    Answering = {1}
    MaxEntries = 2
    MaxAUs = 3
    MaxPresses = 2
    MaxFailures = 1
    MaxDrops = 0
    MaxSets = 0
    Faults = {}
SPECIFICATION Spec
PROPERTY WatchdogHonest
