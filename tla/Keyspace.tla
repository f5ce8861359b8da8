------------------------------ MODULE Keyspace -----------------------------
(***************************************************************************)
(* db.c: the logical databases, each a dict of objects and a dict of       *)
(* deadlines, with the clock that deadlines are compared with.  The        *)
(* commands of the other modules are built from the operators below, as    *)
(* the handlers are built from the functions of db.c.                      *)
(*                                                                         *)
(* A command holds the interpreter lock from its first line to its last    *)
(* and the write lock while it touches a database, so it is one action;    *)
(* the sweeper and the clock run between commands.  The clock may advance  *)
(* between two reads a command makes of it.  StoreLocks models the locks.  *)
(***************************************************************************)
EXTENDS Objects

CONSTANTS DB, Key,
          MsPerSec,     \* 1000 in the code
          MaxTime       \* bound of the clock

ASSUME KeyspaceAssumption ==
    /\ MsPerSec \in Nat /\ MsPerSec > 1
    /\ MaxTime \in Nat
    /\ None \notin Object

VARIABLES keys,         \* dbs[d].keys
          expires,      \* dbs[d].expires: deadlines in milliseconds
          now,          \* the clock of credish_now_ms
          reply,        \* the answer, if the last step was a command
          appended      \* the AOF record the last step wrote, or None

vars == <<keys, expires, now, reply, appended>>

\* The part of the state the databases are.
databases == <<keys, expires>>

NoReply == [cmd |-> "none"]

Init == /\ keys = [d \in DB |-> [k \in Key |-> None]]
        /\ expires = [d \in DB |-> [k \in Key |-> None]]
        /\ now = 0
        /\ reply = NoReply
        /\ appended = None

\* The two dicts of every database, by what they hold.
DatabasesOK == /\ keys \in [DB -> [Key -> Object \cup {None}]]
               /\ expires \in [DB -> [Key -> Int \cup {None}]]

-----------------------------------------------------------------------------
(* Reading a database. *)

db_is_expired(d, k) == expires[d][k] # None /\ now > expires[d][k]

db_lookup(d, k) == IF db_is_expired(d, k) THEN None ELSE keys[d][k]

db_get_expire(d, k) == IF expires[d][k] = None THEN -1 ELSE expires[d][k]

\* Seeded fault: a key goes at its deadline, one instant early.
ExpiredEarly(d, S) ==
    {k \in S : expires[d][k] # None /\ now >= expires[d][k]}

\* The keys of S that a lookup would find past their deadline.
Expired(d, S) == {k \in S : db_is_expired(d, k)}

\* f without what database d has under the keys of S.
Without(f, d, S) ==
    [f EXCEPT ![d] = [k \in Key |-> IF k \in S THEN None ELSE f[d][k]]]

-----------------------------------------------------------------------------
(* Changing it.  Each leaves the clock, the reply and the log to the       *)
(* command that uses it.                                                   *)

\* Seeded fault: the deadline stays when the key goes.
db_del_keys_only(d, S) == keys' = Without(keys, d, S) /\ UNCHANGED expires

\* db_del of every key of S.
db_del(d, S) == /\ keys' = Without(keys, d, S)
                /\ expires' = Without(expires, d, S)

\* What db_lookup of the keys of S does: the expired ones are deleted.
lazy_expire(d, S) == db_del(d, Expired(d, S))

\* Seeded fault: the deadline goes with the old value.
LookupThenSetAfresh(d, k, o) ==
    /\ keys' = [keys EXCEPT ![d][k] = o]
    /\ expires' = Without(expires, d, {k})

\* db_lookup_write, then db_set: the deadline of a live key stays.
LookupThenSet(d, k, o) ==
    /\ keys' = [keys EXCEPT ![d][k] = o]
    /\ expires' = Without(expires, d, Expired(d, {k}))

\* db_lookup, then db_set_expire of a key that was found.
db_set_expire(d, k, deadline) ==
    /\ expires' = [expires EXCEPT ![d][k] = deadline]
    /\ UNCHANGED keys

Respond(cmd, d, k, v) == reply' = [cmd |-> cmd, db |-> d, key |-> k, val |-> v]

aof_append(record) == appended' = record

\* The clock at a later read of the same command, less than a second on.
Later == {t \in {now, now + 1} : t <= MaxTime}

\* Seeded fault: rounds down, as Python does.
FloorDiv(a, b) == a \div b

\* C division truncates towards zero.
CDiv(a, b) == IF a >= 0 THEN a \div b ELSE -((-a) \div b)

\* A read command for objects of one type, giving `missing' for no object.
ReadTyped(cmd, d, k, type, missing, Value(_)) ==
    LET o == db_lookup(d, k)
    IN  /\ lazy_expire(d, {k})
        /\ Respond(cmd, d, k, IF o = None THEN missing
                              ELSE IF o.type # type THEN "WRONGTYPE"
                              ELSE Value(o))
        /\ aof_append(None)
        /\ UNCHANGED now

\* The WRONGTYPE exit of a write command.
WrongType(cmd, d, k, type) ==
    /\ db_lookup(d, k) # None /\ db_lookup(d, k).type # type
    /\ UNCHANGED <<databases, now>>
    /\ aof_append(None)
    /\ Respond(cmd, d, k, "WRONGTYPE")

\* Seeded fault: takes the object without a look at its deadline.
FoundRaw(d, k, fresh) == IF keys[d][k] = None THEN fresh ELSE keys[d][k]

\* What a write command works on: the object found, or the one it creates.
FoundOr(d, k, fresh) ==
    IF db_lookup(d, k) = None THEN fresh ELSE db_lookup(d, k)

-----------------------------------------------------------------------------
(* The environment of the commands. *)

Tick == /\ now < MaxTime
        /\ now' = now + 1
        /\ reply' = NoReply
        /\ aof_append(None)
        /\ UNCHANGED databases

\* One cycle of the sweeper, under the write lock: in every database some of
\* the expired keys are sampled and deleted.
sweep_db(S) ==
    /\ \A d \in DB : S[d] \subseteq Expired(d, Key)
    /\ keys' = [d \in DB |-> [k \in Key |-> IF k \in S[d] THEN None ELSE keys[d][k]]]
    /\ expires' = [d \in DB |->
                     [k \in Key |-> IF k \in S[d] THEN None ELSE expires[d][k]]]
    /\ reply' = NoReply
    /\ aof_append(None)
    /\ UNCHANGED now

-----------------------------------------------------------------------------
(* What must hold between any two commands. *)

\* A deadline never outlives its key: otherwise it would strike the next value
\* stored under the same key (db_del and lazy_expire delete from both dicts,
\* db_set_expire only follows a lookup or a db_set under the same lock).
ExpiresHaveKeys ==
    \A d \in DB, k \in Key : expires[d][k] # None => keys[d][k] # None
=============================================================================
