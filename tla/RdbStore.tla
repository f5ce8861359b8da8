------------------------------ MODULE RdbStore -----------------------------
(***************************************************************************)
(* A store in rdb mode that is closed and opened again: Commands with the  *)
(* contents of a snapshot, as rdb_save writes them and rdb_load reads      *)
(* them.  What the file is when a save is cut short is in RdbFile.         *)
(*                                                                         *)
(* A snapshot is a sequence of entries.  The headers of its sections say   *)
(* which database the entries behind them are of: here each entry does.    *)
(* Entries, fields and members are written in an order of their dict's own *)
(* and read in the order of the file, the later replacing the earlier.     *)
(***************************************************************************)
EXTENDS Commands

CONSTANT Found  \* the databases a process may find saved when it starts

ASSUME RdbStoreAssumption ==
    /\ IsFiniteSet(DB) /\ IsFiniteSet(Key)
    /\ IsFiniteSet(Field) /\ IsFiniteSet(Member)
    /\ \A s \in Found :
        /\ s.keys \in [DB -> [Key -> Object \cup {None}]]
        /\ s.expires \in [DB -> [Key -> Nat \cup {None}]]
        /\ \A d \in DB, k \in Key : s.expires[d][k] # None => s.keys[d][k] # None

RdbInit == /\ \E s \in Found : keys = s.keys /\ expires = s.expires
           /\ now = 0
           /\ reply = NoReply
           /\ appended = None

-----------------------------------------------------------------------------
(* Saving. *)

\* The present part of a map as the pairs an iterator gives.
Pairs(f) ==
    LET names == SetToSeq(Present(f))
    IN  [i \in DOMAIN names |-> <<names[i], f[names[i]]>>]

\* The value part of an entry: save_string, save_list, save_hash, save_zset.
SavedValue(o) == CASE o.type = "string" -> o.str
                   [] o.type = "list"   -> o.list
                   [] o.type = "hash"   -> Pairs(o.fields)
                   [] o.type = "zset"   -> Pairs(o.scores)

\* Seeded fault: every string is saved as one of encoding RAW.
EntryRaw(d, k) ==
    LET o  == keys[d][k]
        dl == db_get_expire(d, k)
    IN  [db |-> d, type |-> o.type, key |-> k,
         dl |-> IF dl >= 0 THEN dl ELSE None, encoding |-> RAW, val |-> SavedValue(o)]

\* Only a deadline that is not negative is written.
Entry(d, k) ==
    LET o  == keys[d][k]
        dl == db_get_expire(d, k)
    IN  [db |-> d, type |-> o.type, key |-> k,
         dl |-> IF dl >= 0 THEN dl ELSE None,
         encoding |-> IF o.type = "string" THEN o.enc ELSE RAW,
         val |-> SavedValue(o)]

\* Where the databases have a key.
Places == {p \in DB \X Key : keys[p[1]][p[2]] # None}

rdb_save ==
    LET order == SetToSeq(Places)
    IN  [i \in DOMAIN order |-> Entry(order[i][1], order[i][2])]

-----------------------------------------------------------------------------
(* Loading. *)

\* dict_replace of each pair.
ReadPairs(empty, pairs) ==
    LET read[i \in 0..Len(pairs)] ==
            IF i = 0 THEN empty
            ELSE [read[i - 1] EXCEPT ![pairs[i][1]] = pairs[i][2]]
    IN  read[Len(pairs)]

\* adlist_push_tail of each element.
ReadElements(elements) ==
    LET read[i \in 0..Len(elements)] ==
            IF i = 0 THEN obj_create_list.list
            ELSE push_tail(read[i - 1], <<elements[i]>>)
    IN  read[Len(elements)]

LoadedObject(e) ==
    CASE e.type = "string" -> obj_create_string(e.val, e.encoding)
      [] e.type = "list"   -> [obj_create_list EXCEPT !.list = ReadElements(e.val)]
      [] e.type = "hash"   -> [obj_create_hash EXCEPT !.fields = ReadPairs(@, e.val)]
      [] e.type = "zset"   -> [obj_create_zset EXCEPT !.scores = ReadPairs(@, e.val)]

\* Seeded fault: the deadline is read and forgotten.
LoadEntryForever(dbs, e) == [dbs EXCEPT !.keys[e.db][e.key] = LoadedObject(e)]

\* Seeded fault: every section goes to the same database.
LoadEntryMisplaced(dbs, e) ==
    LET d == CHOOSE db \in DB : TRUE
    IN  [dbs EXCEPT !.keys[d][e.key] = LoadedObject(e),
                    !.expires[d][e.key] = IF e.dl = None THEN @ ELSE e.dl]

LoadEntry(dbs, e) ==
    [dbs EXCEPT !.keys[e.db][e.key] = LoadedObject(e),
                !.expires[e.db][e.key] = IF e.dl = None THEN @ ELSE e.dl]

\* rdb_load into the empty databases of store_open.
rdb_load(file) ==
    LET empty == [d \in DB |-> [k \in Key |-> None]]
        loaded[i \in 0..Len(file)] ==
            IF i = 0 THEN [keys |-> empty, expires |-> empty]
            ELSE LoadEntry(loaded[i - 1], file[i])
    IN  loaded[Len(file)]

\* store_close and store_open.
ReopenSaved ==
    LET loaded == rdb_load(rdb_save)
    IN  /\ reply' = NoReply
        /\ aof_append(None)
        /\ UNCHANGED now
        /\ keys' = loaded.keys
        /\ expires' = loaded.expires

RdbSpec == RdbInit /\ [][Next \/ ReopenSaved]_vars

-----------------------------------------------------------------------------
(* What must hold. *)

\* persistence-and-expiry.md: "RDB persists each key's TTL as an absolute
\* millisecond deadline in the snapshot."  After a clean close the store comes back
\* with every object of every type as it was, encoding included, and every deadline,
\* also of keys that expired meanwhile and were not collected.  A deadline before
\* the epoch is the exception: it is taken for none, and its key, which had expired,
\* is alive again.
ReopenKeeps ==
    [][ReopenSaved =>
        /\ keys' = keys
        /\ \A d \in DB, k \in Key :
              expires'[d][k] = IF db_get_expire(d, k) >= 0 THEN expires[d][k] ELSE None
      ]_vars
=============================================================================
