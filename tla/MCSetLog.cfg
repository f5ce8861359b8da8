\* One client whose SET has unlocked the store, and the sweeper.
CONSTANTS
    Client = {c1}
    Job = {}
    Sweeper = Sweeper
    None = None
    Calls = {"command"}
    Careful = TRUE
SPECIFICATION Spec
INVARIANT LoggedObjectAlive
