------------------------------- MODULE Replay ------------------------------
(***************************************************************************)
(* replay_cmd of aof.c: what one record of the log does to the object of   *)
(* its key when the store is opened again.  No record carries a deadline,  *)
(* so no key has one while the log is replayed.  The DEL, EXPIRE, PERSIST, *)
(* SELECT and FLUSHDB branches and the EX and PX arguments are not here:   *)
(* nothing writes such records.                                            *)
(***************************************************************************)
EXTENDS Objects

\* The object of that type a push or an addition works on; one of another type
\* is left alone.
ReplayOn(o, type, fresh, Update(_)) ==
    IF o = None THEN Update(fresh)
    ELSE IF o.type = type THEN Update(o)
    ELSE o

ReplayIncrby(o, amount) ==
    LET old == IF o = None THEN 0
               ELSE IF o.type = "string" THEN strtoll(o.str) ELSE 0
    IN  obj_create_string(Wrap(old + amount), RAW)

\* ZREM and HDEL create nothing.
replay_cmd(o, r) ==
    CASE r.cmd = "SET"    -> obj_create_string(r.val, r.enc)
      [] r.cmd = "INCRBY" -> ReplayIncrby(o, r.amount)
      [] r.cmd = "RPUSH"  -> ReplayOn(o, "list", obj_create_list,
             LAMBDA x : [x EXCEPT !.list = push_tail(@, r.vals)])
      [] r.cmd = "LPUSH"  -> ReplayOn(o, "list", obj_create_list,
             LAMBDA x : [x EXCEPT !.list = push_head(@, r.vals)])
      [] r.cmd = "ZADD"   -> ReplayOn(o, "zset", obj_create_zset,
             LAMBDA x : [x EXCEPT !.scores =
                 [m \in Member |-> IF m \in DOMAIN r.scores THEN r.scores[m] ELSE @[m]]])
      [] r.cmd = "ZREM"   -> ReplayOn(o, "zset", None,
             LAMBDA x : IF x = None THEN None
                        ELSE [x EXCEPT !.scores = Dropped(@, r.removed)])
      [] r.cmd = "HSET"   -> ReplayOn(o, "hash", obj_create_hash,
             LAMBDA x : [x EXCEPT !.fields = Overlay(@, r.fields)])
      [] r.cmd = "HDEL"   -> ReplayOn(o, "hash", None,
             LAMBDA x : IF x = None THEN None
                        ELSE [x EXCEPT !.fields = Dropped(@, r.removed)])

\* What of an object a client can tell from its absence by reading its content:
\* an empty container is like none.
Content(o) ==
    IF o \in {obj_create_list, obj_create_hash, obj_create_zset} THEN None ELSE o
=============================================================================
