\* A plain SET over a key whose deadline has passed and that nobody collected.
CONSTANTS
    None = None
    MinInt <- MCMinInt
    MaxInt = 1
    Text = {txt}
    Encoding = {RAW}
    FMT = FMT
    RAW = RAW
    Elem = {"a", "b"}
    Field = {}
    Member = {}
    Inf = 1
    DB = {0}
    Key = {1}
    MsPerSec = 2
    MaxTime = 4
    MaxLen = 0
    Calls = {"SET"}
    SetOptions <- MCSetOptions
    ZAddOptions = {}
    KeyLists = {}
    Delays <- MCDelays
    Amounts = {1}
    Pushes = {}
    Ends = {}
    Values = {1, txt}
    Scores = {}
    Found = {}
SPECIFICATION Spec
INVARIANT SetIsVisible
