\* Four members, three scores (so ties occur), three levels.
CONSTANTS
    None = None
    Header = Header
    MaxLevel = 3
    MinInt <- MCMinInt
    MaxInt = 0
    Text = {}
    Encoding = {RAW}
    RAW = RAW
    Elem = {}
    Field = {}
    Member = {1, 2, 3, 4}
    Inf = 1
    Ends <- MCEnds
SPECIFICATION Spec
INVARIANTS WellLinked RanksExact RangesExact
