------------------------------- MODULE RdbFile ------------------------------
(***************************************************************************)
(* rdb.c: saving a snapshot, up to the system calls that matter when the   *)
(* process or the machine stops.  Savers (SAVE, BGSAVE, the last save of   *)
(* store_close) share the names credish.rdb.tmp and credish.rdb; the two   *)
(* names and the open files refer to inodes, and an inode lives as long as *)
(* something refers to it.  What is in a snapshot is up to the module that *)
(* uses this one.                                                          *)
(*                                                                         *)
(* A file is "part" while it is being written, "whole" when all of it has  *)
(* gone to stdio and "synced" after fsync.  A file that is not synced can  *)
(* lose any of its end when the process or the machine stops.              *)
(***************************************************************************)
EXTENDS Naturals, Sequences

CONSTANTS Saver,        \* threads that save
          Inode,
          None

ASSUME RdbFileAssumption == None \notin Inode

VARIABLES pc,           \* where a saver is in rdb_save
          fd,           \* its open file
          inode,        \* the files that something refers to
          tmp, rdb,     \* what credish.rdb.tmp and credish.rdb name
          rdbDisk,      \* what credish.rdb names on the disk itself
          broken        \* history: a saver stopped in the middle of the file
                        \* that credish.rdb names

rdbVars == <<pc, fd, inode, tmp, rdb, rdbDisk, broken>>
names   == <<tmp, rdb, rdbDisk>>

RdbInit == /\ pc = [s \in Saver |-> "idle"]
           /\ fd = [s \in Saver |-> None]
           /\ inode = [i \in {} |-> None]
           /\ tmp = None /\ rdb = None /\ rdbDisk = None
           /\ broken = FALSE

Saving == \E s \in Saver : pc[s] # "idle"

Referred == ({tmp, rdb, rdbDisk} \cup {fd[s] : s \in Saver}) \ {None}

\* The files after a step that leaves them with the contents f.
Files(f) == inode' = [i \in Referred' |-> f[i]]

At(s, place, next) == pc[s] = place /\ pc' = [pc EXCEPT ![s] = next]

\* Saver s is still writing a file that an overlapping saver has renamed.
Exposed(s) == fd[s] # None /\ fd[s] \in {rdb, rdbDisk}

-----------------------------------------------------------------------------
(* One save.                                                               *)

\* remove(tmp): the file itself goes only if no other saver has it open.
RemoveTmp(s) == /\ At(s, "idle", "open")
                /\ tmp' = None
                /\ UNCHANGED <<fd, rdb, rdbDisk, broken>>
                /\ Files(inode)

\* fopen(tmp, "wb") makes a new file, or empties the one another saver has put
\* there since the remove.  `by' is the saver that emptied it last.
OpenTmp(s, snap) ==
    /\ At(s, "open", "write")
    /\ \E i \in IF tmp # None THEN {tmp} ELSE Inode \ Referred :
          /\ tmp' = i
          /\ fd' = [fd EXCEPT ![s] = i]
          /\ UNCHANGED <<rdb, rdbDisk, broken>>
          /\ Files([j \in Referred \cup {i} |->
                       IF j = i THEN [snap |-> snap, state |-> "part", by |-> s]
                       ELSE inode[j]])

\* The sections, the end mark and the checksum.  A saver whose file was emptied
\* meanwhile goes on at its own offset, so there may be a hole before it.
WriteAll(s) ==
    /\ At(s, "write", "sync")
    /\ UNCHANGED <<fd, names, broken>>
    /\ LET f == inode[fd[s]]
       IN  \E state \in {"part", "whole"} :
              /\ f.state = "part" /\ f.by = s => state = "whole"
              /\ Files([inode EXCEPT ![fd[s]] =
                           IF f.state = "part" THEN [f EXCEPT !.state = state] ELSE f])

\* Seeded fault: the file is closed without fsync.
CloseUnsynced(s) ==
    /\ At(s, "sync", "rename")
    /\ fd' = [fd EXCEPT ![s] = None]
    /\ UNCHANGED <<names, broken>>
    /\ Files(inode)

\* credish_fsync_file and fclose.
SyncAndClose(s) ==
    /\ At(s, "sync", "rename")
    /\ fd' = [fd EXCEPT ![s] = None]
    /\ UNCHANGED <<names, broken>>
    /\ Files([inode EXCEPT ![fd[s]].state = IF @ = "whole" THEN "synced" ELSE @])

\* rename(tmp, path): of whatever the name stands for by now.
Rename(s) ==
    /\ tmp # None
    /\ At(s, "rename", "syncdir")
    /\ rdb' = tmp /\ tmp' = None
    /\ UNCHANGED <<fd, rdbDisk, broken>>
    /\ Files(inode)

\* Seeded fault: the directory is not synced.
LeaveDir(s, ok) ==
    /\ At(s, "syncdir", "idle")
    /\ UNCHANGED <<fd, names, broken, inode>>

\* credish_fsync_parent_dir, which reports no failure: the save has succeeded
\* whether the directory could be opened and synced (ok) or not.
SyncDir(s, ok) ==
    /\ At(s, "syncdir", "idle")
    /\ rdbDisk' \in IF ok THEN {rdb} ELSE {rdb, rdbDisk}
    /\ UNCHANGED <<fd, tmp, rdb, broken>>
    /\ Files(inode)

\* The error exits: a failing fopen leaves the name alone; a write, fsync, fclose
\* or rename that fails removes whatever the name stands for, if it is there.
SaveFails(s) ==
    /\ \/ pc[s] = "open" /\ UNCHANGED tmp
       \/ pc[s] \in {"write", "sync", "rename"} /\ tmp' = None
    /\ pc' = [pc EXCEPT ![s] = "idle"]
    /\ fd' = [fd EXCEPT ![s] = None]
    /\ broken' = (broken \/ Exposed(s))
    /\ UNCHANGED <<rdb, rdbDisk>>
    /\ Files(inode)

-----------------------------------------------------------------------------
(* The end of the process, and the next start.                             *)

\* All savers are gone.  Of what was not synced any part may be missing;
\* `name' is what credish.rdb stands for afterwards.
SaversDie(name) ==
    /\ pc' = [s \in Saver |-> "idle"]
    /\ fd' = [s \in Saver |-> None]
    /\ rdb' = name
    /\ broken' = (broken \/ \E s \in Saver : Exposed(s))
    /\ UNCHANGED tmp
    /\ \E torn \in SUBSET {i \in Referred : inode[i].state = "whole"} :
          Files([i \in Referred |->
                   IF i \in torn THEN [inode[i] EXCEPT !.state = "part"]
                   ELSE inode[i]])

rdb_kill == UNCHANGED rdbDisk /\ SaversDie(rdb)

\* Without power the disk may or may not have heard of the last rename.
rdb_power_loss ==
    \E name \in {rdb, rdbDisk} : rdbDisk' = name /\ SaversDie(name)

\* rdb_load removes the temporary file.
rdb_load ==
    /\ tmp' = None
    /\ UNCHANGED <<pc, fd, rdb, rdbDisk, broken>>
    /\ Files(inode)

-----------------------------------------------------------------------------
(* What must hold. *)

\* Whoever opens credish.rdb, at any moment and after any crash, finds a
\* complete snapshot that is on the disk, or none if none was ever saved; the one
\* exception are overlapping savers, of which one renames the file that the
\* other is still writing: then it is complete only when the other is done, and
\* never if that one is stopped or fails (broken).  Nothing checks the checksum
\* at load.
SnapshotWhole ==
    rdb # None => \/ inode[rdb].state = "synced"
                  \/ broken
                  \/ \E s \in Saver : Exposed(s)
=============================================================================
