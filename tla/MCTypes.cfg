\* One key in use, by turns of any type, beside a saved store of two databases with
\* more keys; every command and a clock of four instants.
CONSTANTS
    None = None
    MinInt <- MCMinInt
    MaxInt = 1
    Text = {txt}
    Encoding = {RAW, FMT}
    FMT = FMT
    RAW = RAW
    Elem = {"a", "b"}
    Field = {f1, f2}
    Member = {1, 2}
    Inf = 2
    DB = {0, 1}
    Key = {1, 2}
    MsPerSec = 2
    MaxTime = 3
    MaxLen = 2
    Calls = {"GET", "SET", "TYPE", "INCRBY", "EXPIRE", "PERSIST", "TTL", "DELETE", "EXISTS", "DBSIZE", "PUSH", "LRANGE", "LLEN", "HSET", "HDEL", "HINCRBY", "HGET", "HGETALL", "ZADD", "ZREM", "ZINCRBY", "ZRANGE", "ZRANK"}
    SetOptions <- MCSetOptions
    ZAddOptions <- MCZAddOptions
    KeyLists <- MCKeyLists
    Delays <- MCDelays
    Amounts <- MCAmounts
    Pushes <- MCPairPushes
    Found <- MCFound
    Ends = {0, 1}
    Values = {1, txt}
    Scores = {0, 1}
SPECIFICATION MCSpec
INVARIANTS TypeOK ExpiresHaveKeys TtlSentinels
PROPERTIES NoEarlyLoss DeadlineKept NothingRevived ReopenKeeps
