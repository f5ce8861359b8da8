------------------------------ MODULE Commands -----------------------------
(***************************************************************************)
(* The store as its clients see it: every command, the sweeper and the     *)
(* clock.  `Calls' says which commands the clients of an instance use.     *)
(***************************************************************************)
EXTENDS StringCommands, ListCommands, HashCommands, ZSetCommands, Replay

CONSTANTS Calls,        \* names of the commands called
          SetOptions,   \* the ex, px, nx and xx combinations given to SET
          ZAddOptions,  \* the options given to ZADD
          KeyLists,     \* arguments of DELETE and EXISTS
          Delays,       \* seconds of EXPIRE, milliseconds of PEXPIRE
          Amounts,      \* of INCRBY, HINCRBY and ZINCRBY
          Pushes,       \* value lists of LPUSH and RPUSH
          Ends,         \* start and stop indexes of ranges
          Values,       \* values stored in strings and hashes
          Scores        \* scores given to ZADD and ZRANGEBYSCORE

\* The records replay_cmd has a branch for.
Record ==
    [cmd : {"SET"}, db : DB, key : Key, val : Payload, enc : Encoding]
    \cup [cmd : {"INCRBY"}, db : DB, key : Key, amount : Number]
    \cup [cmd : {"LPUSH", "RPUSH"}, db : DB, key : Key, vals : Seq(Elem)]
    \cup [cmd : {"HSET"}, db : DB, key : Key, fields : Mapping(Field, Payload)]
    \cup [cmd : {"HDEL"}, db : DB, key : Key, removed : SUBSET Field]
    \cup [cmd : {"ZADD"}, db : DB, key : Key, scores : Mapping(Member, Score)]
    \cup [cmd : {"ZREM"}, db : DB, key : Key, removed : SUBSET Member]

ASSUME CommandsAssumption ==
    /\ SetOptions \subseteq SetOption
    /\ ZAddOptions \subseteq ZAddOption
    /\ KeyLists \subseteq Seq(Key)
    /\ Delays \subseteq Int /\ Ends \subseteq Int
    /\ Amounts \subseteq Number \cap Score
    /\ Pushes \subseteq Seq(Elem)
    /\ Values \subseteq Payload /\ Scores \subseteq Score
    /\ None \notin Record

StringCommand(d, k) ==
    \/ "GET" \in Calls /\ (py_get(d, k) \/ py_get_encoding(d, k))
    \/ "SET" \in Calls /\ \E v \in Values, e \in Encoding, opt \in SetOptions :
                            py_set(d, k, v, e, opt)
    \/ "INCRBY" \in Calls /\ \E n \in Amounts : py_incrby(d, k, n)

ExpiryCommand(d, k) ==
    \/ "EXPIRE" \in Calls /\ \E n \in Delays : py_expire(d, k, n) \/ py_pexpire(d, k, n)
    \/ "PERSIST" \in Calls /\ py_persist(d, k)
    \/ "TTL" \in Calls /\ (py_ttl(d, k) \/ py_pttl(d, k))

KeyCommand(d) ==
    \/ "DELETE" \in Calls /\ \E list \in KeyLists : py_delete(d, list)
    \/ "EXISTS" \in Calls /\ \E list \in KeyLists : py_exists(d, list)
    \/ "TYPE" \in Calls /\ \E k \in Key : py_type(d, k)
    \/ "DBSIZE" \in Calls /\ py_dbsize(d)

ListCommand(d, k) ==
    \/ "PUSH" \in Calls /\ \E vals \in Pushes : py_lpush(d, k, vals) \/ py_rpush(d, k, vals)
    \/ "LRANGE" \in Calls /\ \E a, b \in Ends : py_lrange(d, k, a, b)
    \/ "LLEN" \in Calls /\ py_llen(d, k)

HashCommand(d, k) ==
    \/ "HSET" \in Calls /\ \E m \in Mapping(Field, Values) : py_hset(d, k, m) \/ py_hmset(d, k, m)
    \/ "HDEL" \in Calls /\ \E fs \in SUBSET Field : py_hdel(d, k, fs)
    \/ "HINCRBY" \in Calls /\ \E f \in Field, n \in Amounts : py_hincrby(d, k, f, n)
    \/ "HGET" \in Calls /\ \E f \in Field : py_hget(d, k, f) \/ py_hexists(d, k, f)
    \/ "HGET" \in Calls /\ \E fs \in SUBSET Field : py_hmget(d, k, fs)
    \/ "HGETALL" \in Calls /\ (py_hgetall(d, k) \/ py_hkeys(d, k) \/ py_hvals(d, k) \/ py_hlen(d, k))

ZSetCommand(d, k) ==
    \/ "ZADD" \in Calls /\ \E m \in Mapping(Member, Scores), opt \in ZAddOptions : py_zadd(d, k, m, opt)
    \/ "ZREM" \in Calls /\ \E ms \in SUBSET Member : py_zrem(d, k, ms)
    \/ "ZINCRBY" \in Calls /\ \E m \in Member, n \in Amounts : py_zincrby(d, k, n, m)
    \/ "ZRANGE" \in Calls /\ \E a, b \in Ends : py_zrange(d, k, a, b) \/ py_zrevrange(d, k, a, b)
    \/ "ZRANGE" \in Calls /\ \E a, b \in Scores : py_zrangebyscore(d, k, a, b)
    \/ "ZRANK" \in Calls /\ \E m \in Member : \/ py_zrank(d, k, m)
                                              \/ py_zrevrank(d, k, m)
                                              \/ py_zscore(d, k, m)
    \/ "ZRANK" \in Calls /\ py_zcard(d, k)

Sweep == \E S \in [DB -> SUBSET Key] :
            sweep_db(S) /\ \E d \in DB : S[d] # {}

Command == \E d \in DB :
              \/ KeyCommand(d)
              \/ \E k \in Key : \/ StringCommand(d, k) \/ ExpiryCommand(d, k)
                                \/ ListCommand(d, k) \/ HashCommand(d, k)
                                \/ ZSetCommand(d, k)

Next == Command \/ Sweep \/ Tick

Spec == Init /\ [][Next]_vars
-----------------------------------------------------------------------------
(* What must hold. *)

\* Every database maps keys to objects of the five types and to deadlines, and
\* what a step logs is a record replay_cmd has a branch for.
TypeOK ==
    /\ DatabasesOK
    /\ now \in 0..MaxTime
    /\ appended \in Record \cup {None}

Answered(cmd) == reply.cmd = cmd

Sentinel(d, k) == IF keys[d][k] = None THEN -2
                  ELSE IF expires[d][k] = None THEN -1
                  ELSE 0

\* TTL answers -2 exactly for a missing key, -1 exactly for one without a
\* deadline, and otherwise no negative number, although the clock may pass the
\* deadline between the lookup and the second read: the division truncates, and
\* Later lets less than a second pass.
TtlSentinels ==
    Answered("TTL") => LET s == Sentinel(reply.db, reply.key)
                       IN  IF s < 0 THEN reply.val = s ELSE reply.val >= 0

\* A key leaves a database only because DELETE names it or because its own
\* deadline has passed: no lookup, replacement or sweep of another key, and no
\* failing command, drops it.
LossStep ==
    \A d \in DB, k \in Key :
        keys[d][k] # None /\ keys'[d][k] = None =>
            \/ db_is_expired(d, k)
            \/ Answered("DELETE")' /\ reply'.db = d /\ k \in Range(reply'.key)

NoEarlyLoss == [][LossStep]_databases

\* The deadline of a key that is alive and stays is changed only by SET with EX
\* or PX, which puts one in the future, EXPIRE, PEXPIRE and PERSIST of that
\* key: INCRBY, a plain SET and the container commands, which replace or mutate
\* the object, keep it.
DeadlineStep ==
    \A d \in DB, k \in Key :
        /\ keys[d][k] # None /\ ~db_is_expired(d, k) /\ keys'[d][k] # None
        /\ expires'[d][k] # expires[d][k]
        => /\ reply'.cmd \in {"SET", "EXPIRE", "PEXPIRE", "PERSIST"}
           /\ reply'.db = d /\ reply'.key = k
           /\ Answered("SET")' => expires'[d][k] # None /\ expires'[d][k] > now'

DeadlineKept == [][DeadlineStep]_databases

\* What the record of the last step makes of key k of database d if nothing
\* was there.
FromNothing(d, k) ==
    IF appended = None THEN None
    ELSE IF appended.db = d /\ appended.key = k
      THEN replay_cmd(None, appended) ELSE None

\* Data past its deadline never comes back: when an expired key is alive again
\* after a command, its content is what that command gives an absent
\* key.  PERSIST is the exception: it drops the deadline of an expired key
\* without a look at it.
RevivalStep ==
    \A d \in DB, k \in Key :
        db_is_expired(d, k) /\ reply' # NoReply /\ db_lookup(d, k)' # None =>
            \/ Answered("PERSIST")'
            \/ Content(keys'[d][k]) = Content(FromNothing(d, k)')

NothingRevived == [][RevivalStep]_databases

\* api-reference.md, set: "Stores a value under `key`."  Right after a SET that
\* returned True a lookup must find the value.
SetIsVisible ==
    Answered("SET") =>
        (reply.val # None =>
            IF db_lookup(reply.db, reply.key) = None THEN FALSE
            ELSE db_lookup(reply.db, reply.key).str = appended.val)
=============================================================================
