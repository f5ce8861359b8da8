\* Two savers, two writes, every mode, kills and power losses at every step.
CONSTANTS
    Saver = {s1, s2}
    Inode = {i1, i2, i3, i4}
    None = None
    Garbled = 0
    Config <- MCConfigs
    Stops = {"kill", "power"}
    MaxRecords = 2
    MaxWrites <- MCMaxWrites
SYMMETRY MCSymmetry
SPECIFICATION Spec
INVARIANT SnapshotWhole
PROPERTIES SavedSurvives 
