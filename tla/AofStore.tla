------------------------------ MODULE AofStore -----------------------------
(***************************************************************************)
(* A store in aof or hybrid mode: Commands with the append-only file.      *)
(* The file is kept as what it means: `disk' is the database 0 that        *)
(* aof_load builds by replaying every record written so far (no record     *)
(* carries a database, so replay never leaves database 0).  Records are    *)
(* written in the order of the commands and are all on disk when the       *)
(* store is opened again, as after a clean close.                          *)
(***************************************************************************)
EXTENDS Commands

CONSTANT DB0    \* the database replay works on

ASSUME AofStoreAssumption == DB0 \in DB

VARIABLES disk,     \* what aof_load makes of the log
          drifted   \* history: keys the log is known to tell wrong

aofVars == <<vars, disk, drifted>>

AofInit == /\ Init
           /\ disk = [k \in Key |-> None]
           /\ drifted = {}

\* The log after the step, as replayed.
aof_append_len ==
    disk' = IF appended' = None THEN disk
            ELSE [disk EXCEPT ![appended'.key] = replay_cmd(@, appended')]

\* Keys of database 0 the step removed: expired, swept or deleted.  No record
\* says so.
Removed ==
    {k \in Key : keys[DB0][k] # None /\
        (keys'[DB0][k] = None \/ (db_is_expired(DB0, k) /\ expires'[DB0][k] = None))}

\* Keys whose record was written on behalf of another database.
Misfiled ==
    IF appended' = None THEN {}
    ELSE IF appended'.db # DB0 THEN {appended'.key} ELSE {}

\* Keys a SET of database 0 gave a value of their own again.
Reset ==
    IF appended' = None THEN {}
    ELSE IF appended'.db = DB0 /\ appended'.cmd = "SET" THEN {appended'.key} ELSE {}

\* The bound on lists holds for replayed ones too: a deleted list goes on
\* growing in the log.
Bounded(o) == IF o = None THEN TRUE
              ELSE o.type = "list" => Len(o.list) <= MaxLen

Logged(A) == /\ A
             /\ aof_append_len
             /\ \A k \in Key : Bounded(disk'[k])
             /\ drifted' = (drifted \cup Removed \cup Misfiled) \ Reset

\* store_close, then store_open: fresh dicts, and aof_load fills database 0.
Reopen ==
    /\ keys' = [d \in DB |-> IF d = DB0 THEN disk ELSE [k \in Key |-> None]]
    /\ expires' = [d \in DB |-> [k \in Key |-> None]]
    /\ reply' = NoReply
    /\ aof_append(None)
    /\ drifted' = {}
    /\ UNCHANGED <<now, disk>>

AofNext == Logged(Next) \/ Reopen

AofSpec == AofInit /\ [][AofNext]_aofVars

-----------------------------------------------------------------------------
(* What must hold. *)

\* Replaying the log gives every key of database 0 the content it has in
\* memory, whatever mix of SET, INCRBY, pushes, HSET, HDEL, HINCRBY, ZADD with
\* options, ZREM and ZINCRBY made it, unless a record is missing or misfiled
\* since the last SET of the key.  (Empty containers count as absent: a push of
\* nothing and ZADD XX create them without a record.)
ReplayExact ==
    \A k \in Key \ drifted : Content(disk[k]) = Content(keys[DB0][k])
=============================================================================
