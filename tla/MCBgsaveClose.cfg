\* A background save, then close, which cannot wait for it.
CONSTANTS
    Client = {c1}
    Job = {j1}
    Sweeper = Sweeper
    None = None
    Calls = {"bgsave", "close"}
    Careful = FALSE
SPECIFICATION Spec
INVARIANT NoUseAfterFree
