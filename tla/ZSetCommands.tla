---------------------------- MODULE ZSetCommands ---------------------------
(***************************************************************************)
(* sorted_set.c, over the map that a sorted set's dict and skiplist hold.  *)
(* The ZADD (ZREM) records of one call are about different members, so     *)
(* they commute; they are kept as one record.                              *)
(***************************************************************************)
EXTENDS Keyspace

ZAddOption == [nx : BOOLEAN, xx : BOOLEAN, gt : BOOLEAN, lt : BOOLEAN,
               ch : BOOLEAN]

NoOption == [nx |-> FALSE, xx |-> FALSE, gt |-> FALSE, lt |-> FALSE, ch |-> FALSE]

Incompatible(opt) ==
    (opt.nx /\ opt.xx) \/ (opt.gt /\ opt.lt) \/ (opt.nx /\ (opt.gt \/ opt.lt))

\* Seeded fault: logs the members the options refused, too.
ZAddRecordAll(d, k, m, applied) ==
    [cmd |-> "ZADD", db |-> d, key |-> k, scores |-> m]

ZAddRecord(d, k, m, applied) ==
    IF applied = {} THEN None
    ELSE [cmd |-> "ZADD", db |-> d, key |-> k, scores |-> [x \in applied |-> m[x]]]

ZRefuse(cmd, d, k, answer) ==
    /\ UNCHANGED <<databases, now>>
    /\ aof_append(None)
    /\ Respond(cmd, d, k, answer)

\* The set is created before the options are looked at member by member, so
\* ZADD XX on a missing key leaves an empty set that no record tells of.
py_zadd(d, k, m, opt) ==
    LET o       == FoundOr(d, k, obj_create_zset)
        scores  == zset_add(o.scores, m, opt)
        applied == {x \in Member : scores[x] # o.scores[x]}
        added   == Present(scores) \ Present(o.scores)
    IN  \/ Incompatible(opt) /\ ZRefuse("ZADD", d, k, "invalid ZADD options")
        \/ ~Incompatible(opt) /\ DOMAIN m = {} /\ ZRefuse("ZADD", d, k, 0)
        \/ /\ ~Incompatible(opt) /\ DOMAIN m # {}
           /\ WrongType("ZADD", d, k, "zset")
        \/ /\ ~Incompatible(opt) /\ DOMAIN m # {}
           /\ o.type = "zset"
           /\ LookupThenSet(d, k, [o EXCEPT !.scores = scores])
           /\ aof_append(ZAddRecord(d, k, m, applied))
           /\ Respond("ZADD", d, k, Cardinality(IF opt.ch THEN applied ELSE added))
           /\ UNCHANGED now

\* ZRANGE, ZREVRANGE.
py_zrange_common(cmd, d, k, start, stop, Ordered(_)) ==
    ReadTyped(cmd, d, k, "zset", <<>>,
              LAMBDA o : Slice(Ordered(Ranked(o.scores)), start, stop))

py_zrange(d, k, start, stop) ==
    py_zrange_common("ZRANGE", d, k, start, stop, LAMBDA s : s)

py_zrevrange(d, k, start, stop) ==
    py_zrange_common("ZREVRANGE", d, k, start, stop, Reverse)

\* ZRANK counts from the low end, ZREVRANK from the high end, both from 0.
py_zrank_common(cmd, d, k, m, Place(_, _)) ==
    ReadTyped(cmd, d, k, "zset", None,
              LAMBDA o : IF o.scores[m] = None THEN None
                         ELSE LET s == Ranked(o.scores)
                              IN  Place(Len(s), CHOOSE i \in DOMAIN s : s[i] = m))

py_zrank(d, k, m) ==
    py_zrank_common("ZRANK", d, k, m, LAMBDA len, rank : rank - 1)

py_zrevrank(d, k, m) ==
    py_zrank_common("ZREVRANK", d, k, m, LAMBDA len, rank : len - rank)

py_zscore(d, k, m) ==
    ReadTyped("ZSCORE", d, k, "zset", None, LAMBDA o : o.scores[m])

\* ZREM leaves an empty sorted set behind.
py_zrem(d, k, ms) ==
    LET o       == FoundOr(d, k, obj_create_zset)
        removed == ms \cap Present(o.scores)
    IN  \/ WrongType("ZREM", d, k, "zset")
        \/ /\ o.type = "zset"
           /\ IF db_lookup(d, k) = None
                THEN lazy_expire(d, {k})
                ELSE LookupThenSet(d, k, [o EXCEPT !.scores = Dropped(@, ms)])
           /\ aof_append(IF removed = {} THEN None
                         ELSE [cmd |-> "ZREM", db |-> d, key |-> k, removed |-> removed])
           /\ Respond("ZREM", d, k, Cardinality(removed))
           /\ UNCHANGED now

py_zcard(d, k) ==
    ReadTyped("ZCARD", d, k, "zset", 0, LAMBDA o : Cardinality(Present(o.scores)))

py_zrangebyscore(d, k, min, max) ==
    ReadTyped("ZRANGEBYSCORE", d, k, "zset", <<>>,
              LAMBDA o : SelectSeq(Ranked(o.scores),
                                   LAMBDA m : min <= o.scores[m] /\ o.scores[m] <= max))

\* A sum that is NaN is refused; that needs an old score, hence an old set.
\* The record is written whether or not the score changed.
py_zincrby(d, k, amount, m) ==
    LET o   == FoundOr(d, k, obj_create_zset)
        sum == ScoreSum(IF o.scores[m] = None THEN 0 ELSE o.scores[m], amount)
    IN  \/ WrongType("ZINCRBY", d, k, "zset")
        \/ /\ o.type = "zset" /\ sum = None
           /\ ZRefuse("ZINCRBY", d, k, "score is not a valid float")
        \/ /\ o.type = "zset" /\ sum # None
           /\ LookupThenSet(d, k, [o EXCEPT !.scores[m] = sum])
           /\ aof_append([cmd |-> "ZADD", db |-> d, key |-> k,
                          scores |-> [x \in {m} |-> sum]])
           /\ Respond("ZINCRBY", d, k, sum)
           /\ UNCHANGED now
=============================================================================
