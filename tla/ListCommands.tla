---------------------------- MODULE ListCommands ---------------------------
(***************************************************************************)
(* LPUSH, RPUSH, LRANGE and LLEN of credish_module.c.                      *)
(***************************************************************************)
EXTENDS Keyspace

CONSTANT MaxLen     \* bound on the length of a list

ASSUME ListAssumption == MaxLen \in Nat

PushRecord(cmd, d, k, vals) ==
    IF vals = <<>> THEN None
    ELSE [cmd |-> cmd, db |-> d, key |-> k, vals |-> vals]

\* A push without values still creates the list, and logs nothing.
Push(cmd, d, k, vals, Pushed(_, _)) ==
    LET o    == FoundOr(d, k, obj_create_list)
        list == Pushed(o.list, vals)
    IN  \/ WrongType(cmd, d, k, "list")
        \/ /\ o.type = "list"
           /\ Len(o.list) + Len(vals) <= MaxLen
           /\ LookupThenSet(d, k, [o EXCEPT !.list = list])
           /\ aof_append(PushRecord(cmd, d, k, vals))
           /\ Respond(cmd, d, k, Len(list))
           /\ UNCHANGED now

py_lpush(d, k, vals) == Push("LPUSH", d, k, vals, push_head)

py_rpush(d, k, vals) == Push("RPUSH", d, k, vals, push_tail)

\* LRANGE and LLEN answer for a key of another type as for a missing one.
ReadList(cmd, d, k, missing, Value(_)) ==
    LET o == FoundOr(d, k, obj_create_list)
    IN  /\ lazy_expire(d, {k})
        /\ aof_append(None)
        /\ Respond(cmd, d, k, IF o.type = "list" THEN Value(o.list) ELSE missing)
        /\ UNCHANGED now

py_lrange(d, k, start, stop) ==
    ReadList("LRANGE", d, k, <<>>, LAMBDA list : Slice(list, start, stop))

py_llen(d, k) == ReadList("LLEN", d, k, 0, Len)
=============================================================================
