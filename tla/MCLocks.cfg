\* Three clients, one background saver, the sweeper; a careful application.
CONSTANTS
    Client = {c1, c2, c3}
    Job = {j1}
    Sweeper = Sweeper
    None = None
    Calls = {"command", "dbsize", "flushdb", "save", "bgsave", "close"}
    Careful = TRUE
SPECIFICATION FairSpec
INVARIANTS LocksMatch NoUseAfterFree
PROPERTIES RecordsInOrder CallsReturn
