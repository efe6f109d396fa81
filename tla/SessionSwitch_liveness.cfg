\* A pressed switch is answered, and the session on the screen gets its picture.
CONSTANTS
    NumSlots = 2
    Answering = {1}
    MaxEntries = 1
    MaxAUs = 1
    MaxPresses = 3
    MaxFailures = 0
    MaxDrops = 0
    MaxSets = 0
    Faults = {"fit"}
SPECIFICATION FairSpec
PROPERTIES SwitchAnswered PictureComes
