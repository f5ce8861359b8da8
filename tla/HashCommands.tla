---------------------------- MODULE HashCommands ---------------------------
(***************************************************************************)
(* hash.c.  A hash value carries its type tag inside its bytes; a value is *)
(* what HINCRBY reads in it.                                               *)
(***************************************************************************)
EXTENDS Keyspace

\* HSET and HMSET: all pairs under one lock, one record for all of them.
hash_apply_fields(cmd, d, k, m, Answer(_)) ==
    LET o     == FoundOr(d, k, obj_create_hash)
        added == Cardinality(DOMAIN m \ Present(o.fields))
    IN  \/ WrongType(cmd, d, k, "hash")
        \/ /\ o.type = "hash"
           /\ LookupThenSet(d, k, [o EXCEPT !.fields = Overlay(o.fields, m)])
           /\ aof_append([cmd |-> "HSET", db |-> d, key |-> k, fields |-> m])
           /\ Respond(cmd, d, k, Answer(added))
           /\ UNCHANGED now

\* An empty mapping returns before the store is touched.
NothingToDo(cmd, d, k, answer) ==
    /\ UNCHANGED <<databases, now>>
    /\ aof_append(None)
    /\ Respond(cmd, d, k, answer)

py_hset(d, k, m) ==
    \/ DOMAIN m = {} /\ NothingToDo("HSET", d, k, 0)
    \/ DOMAIN m # {} /\ hash_apply_fields("HSET", d, k, m, LAMBDA added : added)

py_hmset(d, k, m) ==
    \/ DOMAIN m = {} /\ NothingToDo("HMSET", d, k, TRUE)
    \/ DOMAIN m # {} /\ hash_apply_fields("HMSET", d, k, m, LAMBDA added : TRUE)

py_hget(d, k, f) ==
    ReadTyped("HGET", d, k, "hash", None, LAMBDA o : o.fields[f])

py_hmget(d, k, fs) ==
    ReadTyped("HMGET", d, k, "hash", [f \in fs |-> None],
              LAMBDA o : [f \in fs |-> o.fields[f]])

\* HDEL leaves an empty hash behind; only the fields removed are logged.
py_hdel(d, k, fs) ==
    LET o       == FoundOr(d, k, obj_create_hash)
        removed == fs \cap Present(o.fields)
    IN  \/ WrongType("HDEL", d, k, "hash")
        \/ /\ o.type = "hash"
           /\ IF db_lookup(d, k) = None
                THEN lazy_expire(d, {k})
                ELSE LookupThenSet(d, k, [o EXCEPT !.fields = Dropped(@, fs)])
           /\ aof_append(IF removed = {} THEN None
                         ELSE [cmd |-> "HDEL", db |-> d, key |-> k, removed |-> removed])
           /\ Respond("HDEL", d, k, Cardinality(removed))
           /\ UNCHANGED now

py_hexists(d, k, f) ==
    ReadTyped("HEXISTS", d, k, "hash", FALSE, LAMBDA o : o.fields[f] # None)

py_hgetall(d, k) ==
    ReadTyped("HGETALL", d, k, "hash", [f \in {} |-> None],
              LAMBDA o : [f \in Present(o.fields) |-> o.fields[f]])

\* HKEYS and HVALS; the order is the dict's, so the answer is a set of pairs.
hash_collect(cmd, d, k, Pick(_, _)) ==
    ReadTyped(cmd, d, k, "hash", {},
              LAMBDA o : {Pick(f, o.fields[f]) : f \in Present(o.fields)})

py_hkeys(d, k) == hash_collect("HKEYS", d, k, LAMBDA f, v : f)
py_hvals(d, k) == hash_collect("HVALS", d, k, LAMBDA f, v : v)

py_hlen(d, k) ==
    ReadTyped("HLEN", d, k, "hash", 0, LAMBDA o : Cardinality(Present(o.fields)))

\* The value that is not an integer is met only in a hash that was there.
py_hincrby(d, k, f, amount) ==
    LET o   == FoundOr(d, k, obj_create_hash)
        old == IF o.fields[f] = None THEN 0 ELSE o.fields[f]
        sum == Wrap(old + amount)
    IN  \/ WrongType("HINCRBY", d, k, "hash")
        \/ /\ o.type = "hash" /\ ~IsInteger(old)
           /\ UNCHANGED <<databases, now>>
           /\ aof_append(None)
           /\ Respond("HINCRBY", d, k, "hash value is not an integer")
        \/ /\ o.type = "hash" /\ IsInteger(old)
           /\ LookupThenSet(d, k, [o EXCEPT !.fields[f] = sum])
           /\ aof_append([cmd |-> "HSET", db |-> d, key |-> k,
                          fields |-> [x \in {f} |-> sum]])
           /\ Respond("HINCRBY", d, k, sum)
           /\ UNCHANGED now
=============================================================================
