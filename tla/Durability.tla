----------------------------- MODULE Durability ----------------------------
(***************************************************************************)
(* What of a store survives its process: RdbFile and AofFile under one     *)
(* store that is opened, written, saved and closed, and that can be killed *)
(* or lose power at any step.  The data is the sequence of writes that     *)
(* made it; what the log leaves out (deletions, deadlines, database        *)
(* numbers) is the subject of AofStore.                                    *)
(*                                                                         *)
(* Savers hold the read lock for the whole of rdb_save, so no write comes  *)
(* in between, and close is called on a store that is not being saved.  A  *)
(* call changes memory under the lock, and writes its records behind the   *)
(* unlock: one for each member that ZADD added, one in all other commands. *)
(***************************************************************************)
EXTENDS RdbFile, AofFile

CONSTANTS Config,       \* persistence mode, "always" or not, and whether the
                        \* application calls SAVE and BGSAVE
          Stops,        \* how the process may end: "kill", "power"
          MaxRecords,   \* bound of the number of records of a call
          MaxWrites     \* bound of the number of writes, for each mode

Mode == {"rdb", "aof", "hybrid"}

ASSUME DurabilityAssumption ==
    /\ Config \subseteq [mode : Mode, always : BOOLEAN, saves : BOOLEAN]
    /\ Stops \subseteq {"kill", "power"}
    /\ MaxRecords \in Nat
    /\ MaxWrites \in [Mode -> Nat]
    /\ Garbled \notin Nat \ {0}

VARIABLES config,       \* of the store, the same in every session
          phase,        \* "down", "open", "closing", "saved"
          mem,          \* the writes whose effect is in memory
          writes,       \* ids given out
          call,         \* writes of the call under way, or of the one a crash
                        \* broke off
          unlogged,     \* the last of them that aof_append_len has not got yet
          saved,        \* history: what the last successful save contained
          durable,      \* history: what the last one contained whose directory
                        \* sync was carried out
          last, end     \* history, while the store is down: memory at the end
                        \* of the last session, and how it ended

memVars == <<mem, writes, call, unlogged>>
past    == <<saved, durable, last, end>>
vars    == <<rdbVars, aofVars, config, phase, memVars, past>>

Init == /\ RdbInit /\ AofInit
        /\ config \in Config
        /\ phase = "down"
        /\ mem = <<>> /\ saved = <<>> /\ durable = <<>> /\ last = <<>>
        /\ writes = 0 /\ call = 0 /\ unlogged = 0
        /\ end = "clean"

Logged   == config.mode \in {"aof", "hybrid"}
Snapshot == config.mode \in {"rdb", "hybrid"}

-----------------------------------------------------------------------------
(* The store at work. *)

\* A call that makes k writes.
Write(k) ==
    /\ phase = "open" /\ ~Saving /\ call = 0
    /\ writes + k <= MaxWrites[config.mode]
    /\ writes' = writes + k
    /\ mem' = mem \o [i \in 1..k |-> writes + i]
    /\ call' = IF Logged THEN k ELSE 0
    /\ unlogged' = call'
    /\ UNCHANGED <<rdbVars, aofVars, config, phase, past>>

\* It logs them one by one; with "always" each is flushed before the next.
AppendRecord ==
    /\ phase = "open" /\ unlogged > 0
    /\ config.always => pending = <<>>
    /\ aof_append_len(mem[Len(mem) - unlogged + 1])
    /\ unlogged' = unlogged - 1
    /\ UNCHANGED <<rdbVars, config, phase, mem, writes, call, past>>

\* Seeded fault: it returns before the fflush.
ReturnUnflushed ==
    /\ phase = "open" /\ call > 0 /\ unlogged = 0
    /\ call' = 0
    /\ UNCHANGED <<rdbVars, aofVars, config, phase, mem, writes, unlogged, past>>

\* With "always" it returns behind the fflush.
Return ==
    /\ phase = "open" /\ call > 0 /\ unlogged = 0
    /\ config.always => pending = <<>>
    /\ call' = 0
    /\ UNCHANGED <<rdbVars, aofVars, config, phase, mem, writes, unlogged, past>>

\* During the fflush of a record, and of a full buffer at any time.
Flush == /\ phase # "down"
         /\ WriteOut
         /\ UNCHANGED <<rdbVars, config, phase, memVars, past>>

\* SAVE and BGSAVE, and the save of store_close.
BeginSave(s) == /\ \/ phase = "open" /\ config.saves /\ UNCHANGED phase
                   \/ phase = "closing" /\ ~Saving /\ phase' = "saved"
                /\ RemoveTmp(s)
                /\ UNCHANGED <<aofVars, config, memVars, past>>

SaveStep(s) == /\ \/ OpenTmp(s, mem) \/ WriteAll(s) \/ SyncAndClose(s)
                  \/ Rename(s) \/ SaveFails(s)
               /\ UNCHANGED <<aofVars, config, phase, memVars, past>>

FinishSave(s) == \E ok \in BOOLEAN :
                    /\ SyncDir(s, ok)
                    /\ saved' = mem
                    /\ durable' = IF ok THEN mem ELSE durable
                    /\ UNCHANGED <<aofVars, config, phase, memVars, last, end>>

-----------------------------------------------------------------------------
(* Sessions. *)

\* What rdb_load makes of the snapshot.  It ignores the checksum, so a file that
\* is cut short gives some keys and some that were never there.
Loaded == IF rdb = None THEN <<>>
          ELSE IF inode[rdb].state = "part" THEN <<Garbled>>
          ELSE inode[rdb].snap

\* store_open: a hybrid store does not look at its snapshot.
Open == /\ phase = "down"
        /\ phase' = "open"
        /\ \/ config.mode = "rdb" /\ mem' = Loaded /\ rdb_load
           \/ Logged /\ mem' \in Replayed /\ UNCHANGED rdbVars
        /\ call' = 0 /\ unlogged' = 0
        /\ last' = <<>> /\ end' = "clean"
        /\ UNCHANGED <<aofVars, config, writes, saved, durable>>

Close == /\ phase = "open" /\ ~Saving /\ call = 0
         /\ phase' = IF Snapshot THEN "closing" ELSE "saved"
         /\ UNCHANGED <<rdbVars, aofVars, config, memVars, past>>

Ended(how) == /\ phase' = "down"
              /\ mem' = <<>>
              /\ last' = IF phase = "down" THEN last ELSE mem
              /\ end' = how
              /\ UNCHANGED <<config, writes, call, durable>>

\* The log is flushed and closed whether or not the save succeeded.
Closed == /\ phase = "saved" /\ ~Saving
          /\ aof_close
          /\ Ended("clean")
          /\ UNCHANGED <<rdbVars, unlogged, saved>>

Kill == /\ "kill" \in Stops /\ phase # "down"
        /\ rdb_kill
        /\ aof_crash(AfterKill)
        /\ Ended("kill")
        /\ unlogged' = 0
        /\ UNCHANGED saved

\* The machine can also stop after the process has.  Of the saves only those
\* count whose directory sync was carried out.
PowerLoss == /\ "power" \in Stops
             /\ rdb_power_loss
             /\ aof_crash(UNION {Shortened(f) : f \in AfterKill})
             /\ Ended("power")
             /\ unlogged' = 0
             /\ saved' = durable

Next == \/ \E k \in 1..MaxRecords : Write(k)
        \/ AppendRecord \/ Return \/ Flush
        \/ Open \/ Close \/ Closed \/ Kill \/ PowerLoss
        \/ \E s \in Saver : BeginSave(s) \/ SaveStep(s) \/ FinishSave(s)

Spec == Init /\ [][Next]_vars

-----------------------------------------------------------------------------
(* What must hold. *)

Opening == phase = "down" /\ phase' = "open"

\* A store in rdb mode comes back with a snapshot that holds all that the last
\* successful save held and nothing that was never in memory, whenever the process
\* stopped, also inside a later save: rdb_save syncs the file before the rename and
\* the directory after it.  rdb_save also succeeds when it could not sync the
\* directory; such a save survives the process, and not a power loss.
\* (Overlapping savers are the exception, see SnapshotWhole.)
SavedSurvives ==
    [][Opening /\ config.mode = "rdb" /\ ~broken =>
        IsPrefix(saved, mem') /\ IsPrefix(mem', last)]_vars

\* The calls that had returned when the session ended.
Done == SubSeq(last, 1, Len(last) - call)

\* A session's log comes back as a prefix of what the session had in memory, so
\* no write is replayed without those before it, but for the last one, which may
\* come back with an empty argument (a cut behind a $).  All of it comes back
\* after a clean close, and after a kill, if every record is flushed at once, all
\* that was done by calls that had returned.  This is so as long as no session has
\* appended behind a torn record.
LogSurvives ==
    [][Opening /\ Logged /\ Sound =>
        /\ \A i \in DOMAIN mem' :
              /\ i <= Len(last)
              /\ mem'[i] = last[i] \/ (i = Len(log) /\ log[i].cut = "dollar")
        /\ end = "clean" => mem' = last
        /\ end = "kill" /\ config.always => IsPrefix(Done, mem')]_vars

\* persistence-and-expiry.md:83: for durability "rely on a clean `close()`, which
\* flushes the AOF file handle".  What was in memory at a clean close is there
\* again after the next open.
CleanCloseSurvives == [][Opening /\ Logged /\ end = "clean" => mem' = last]_vars
=============================================================================
