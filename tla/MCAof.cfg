\* One key of database 0 that is by turns a string, a list, a hash and a sorted set,
\* is deleted and can be given a deadline of now.  Scores run from -2 to 2, and those
\* two are the infinities.
CONSTANTS
    None = None
    MinInt <- MCMinInt
    MaxInt = 1
    Text = {txt}
    Encoding = {RAW, FMT}
    RAW = RAW
    Elem = {"a", "b"}
    Field = {f1, f2}
    Member = {1, 2}
    Inf = 2
    DB = {0}
    DB0 = 0
    Key = {1}
    MsPerSec = 2
    MaxTime = 1
    MaxLen = 2
    Calls = {"SET", "INCRBY", "PUSH", "HSET", "HDEL", "HINCRBY", "ZADD", "ZREM", "ZINCRBY", "DELETE", "EXPIRE"}
    SetOptions <- MCPlainSet
    ZAddOptions <- MCZAddOptions
    KeyLists <- MCKeyLists
    Delays = {0}
    Amounts = {1}
    Pushes <- MCPushes
    Ends <- MCEnds
    Values = {txt}
    Scores = {0, 1}
SPECIFICATION AofSpec
INVARIANT ReplayExact
