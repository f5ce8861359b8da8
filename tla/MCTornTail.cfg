\* A buffered log, and a process that is killed but a machine that keeps running.
CONSTANTS
    Saver = {}
    Inode = {}
    None = None
    Garbled = 0
    Config <- MCBuffered
    Stops = {"kill"}
    MaxRecords = 1
    MaxWrites <- MCMaxWrites
SPECIFICATION Spec
PROPERTY CleanCloseSurvives
