--------------------------- MODULE StringCommands --------------------------
(***************************************************************************)
(* The key, expiry and string commands of credish_module.c.                *)
(***************************************************************************)
EXTENDS Keyspace

\* ex and px as SET takes them; -1 when not given.
SetOption == [ex : Int, px : Int, nx : BOOLEAN, xx : BOOLEAN]

py_get(d, k) ==
    ReadTyped("GET", d, k, "string", None, LAMBDA o : o.str)

py_get_encoding(d, k) ==
    ReadTyped("GETENC", d, k, "string", None, LAMBDA o : o.enc)

\* Only NX and XX look the key up; a plain SET replaces the object and leaves
\* whatever deadline there is.  EX and PX read the clock after that.
py_set(d, k, v, e, opt) ==
    LET found  == db_lookup(d, k) # None
        purged == IF opt.nx \/ opt.xx THEN Expired(d, {k}) ELSE {}
        kept   == Without(expires, d, purged)
    IN  \/ /\ IF found THEN opt.nx ELSE opt.xx
           /\ db_del(d, purged)
           /\ aof_append(None)
           /\ Respond("SET", d, k, None)
           /\ UNCHANGED now
        \/ /\ IF found THEN ~opt.nx ELSE ~opt.xx
           /\ keys' = [keys EXCEPT ![d][k] = obj_create_string(v, e)]
           /\ \E t \in IF opt.px > 0 \/ opt.ex > 0 THEN Later ELSE {now} :
                /\ now' = t
                /\ expires' =
                     IF opt.px > 0 THEN [kept EXCEPT ![d][k] = t + opt.px]
                     ELSE IF opt.ex > 0
                       THEN [kept EXCEPT ![d][k] = t + opt.ex * MsPerSec]
                       ELSE kept
           /\ aof_append([cmd |-> "SET", db |-> d, key |-> k, val |-> v, enc |-> e])
           /\ Respond("SET", d, k, TRUE)

\* DELETE looks at no deadline: an expired key that is still there counts.
py_delete(d, list) ==
    /\ db_del(d, Range(list))
    /\ aof_append(None)
    /\ Respond("DELETE", d, list,
               Cardinality(Range(list) \cap Present(keys[d])))
    /\ UNCHANGED now

py_exists(d, list) ==
    /\ lazy_expire(d, Range(list))
    /\ aof_append(None)
    /\ Respond("EXISTS", d, list,
               Cardinality({i \in DOMAIN list : db_lookup(d, list[i]) # None}))
    /\ UNCHANGED now

\* EXPIRE and PEXPIRE differ in the unit of the delay.
ExpireIn(cmd, d, k, ms) ==
    \/ /\ db_lookup(d, k) = None
       /\ lazy_expire(d, {k})
       /\ aof_append(None)
       /\ Respond(cmd, d, k, FALSE)
       /\ UNCHANGED now
    \/ /\ db_lookup(d, k) # None
       /\ \E t \in Later : now' = t /\ db_set_expire(d, k, t + ms)
       /\ aof_append(None)
       /\ Respond(cmd, d, k, TRUE)

py_expire(d, k, seconds) == ExpireIn("EXPIRE", d, k, seconds * MsPerSec)

py_pexpire(d, k, ms) == ExpireIn("PEXPIRE", d, k, ms)

\* PERSIST asks for the deadline without a lookup, so without lazy expiry.
py_persist(d, k) ==
    /\ expires' = IF db_get_expire(d, k) >= 0
                    THEN [expires EXCEPT ![d][k] = None] ELSE expires
    /\ aof_append(None)
    /\ Respond("PERSIST", d, k, db_get_expire(d, k) >= 0)
    /\ UNCHANGED <<keys, now>>

\* TTL and PTTL read the clock again after the lookup.
Remaining(cmd, d, k, Unit(_)) ==
    /\ lazy_expire(d, {k})
    /\ aof_append(None)
    /\ \E t \in Later :
         /\ now' = t
         /\ Respond(cmd, d, k,
                    IF db_lookup(d, k) = None THEN -2
                    ELSE IF db_get_expire(d, k) < 0 THEN -1
                    ELSE Unit(expires[d][k] - t))

py_ttl(d, k) == Remaining("TTL", d, k, LAMBDA ms : CDiv(ms, MsPerSec))

py_pttl(d, k) == Remaining("PTTL", d, k, LAMBDA ms : ms)

py_type(d, k) ==
    LET o == db_lookup(d, k)
    IN  /\ lazy_expire(d, {k})
        /\ aof_append(None)
        /\ Respond("TYPE", d, k, IF o = None THEN "none" ELSE o.type)
        /\ UNCHANGED now

\* DBSIZE counts what the dict holds, expired keys too.
py_dbsize(d) ==
    /\ aof_append(None)
    /\ Respond("DBSIZE", d, None, Cardinality(Present(keys[d])))
    /\ UNCHANGED <<databases, now>>

\* A missing key counts as 0; the sum loses the encoding tag.
py_incrby(d, k, amount) ==
    LET o   == FoundOr(d, k, obj_create_string(0, RAW))
        sum == Wrap(o.str + amount)
    IN  \/ WrongType("INCRBY", d, k, "string")
        \/ /\ o.type = "string" /\ ~IsInteger(o.str)
           /\ UNCHANGED <<databases, now>>
           /\ aof_append(None)
           /\ Respond("INCRBY", d, k, "not an integer")
        \/ /\ o.type = "string" /\ IsInteger(o.str)
           /\ LookupThenSet(d, k, obj_create_string(sum, RAW))
           /\ aof_append([cmd |-> "INCRBY", db |-> d, key |-> k, amount |-> amount])
           /\ Respond("INCRBY", d, k, sum)
           /\ UNCHANGED now
=============================================================================
