-------------------------- MODULE DurabilityProofs --------------------------
(***************************************************************************)
(* What the files of a store promise, for any number of savers, in every   *)
(* mode, and wherever the process or the machine stops:                    *)
(*   - whoever opens credish.rdb finds a whole snapshot;                   *)
(*   - it holds what the last successful save held (after a power loss:    *)
(*     the last one that could sync the directory), and nothing that was   *)
(*     never in memory;                                                    *)
(*   - the log brings back a beginning of the writes, all of them after a  *)
(*     clean close, and all that returned calls made after a kill when     *)
(*     every record is flushed at once.                                    *)
(***************************************************************************)
EXTENDS Durability, Induction, SequenceTheorems, TLAPS

Place == {"idle", "open", "write", "sync", "rename", "syncdir"}

FileOK(f) == /\ f = [snap |-> f.snap, state |-> f.state, by |-> f.by]
             /\ f.state \in {"part", "whole", "synced"}

\* A saver has a file while it writes and syncs it; a temporary file is not the
\* snapshot.
FilesOK ==
    /\ pc \in [Saver -> Place]
    /\ fd \in [Saver -> Inode \cup {None}]
    /\ \A s \in Saver : fd[s] # None <=> pc[s] \in {"write", "sync"}
    /\ {tmp, rdb, rdbDisk} \subseteq Inode \cup {None}
    /\ tmp # None => tmp \notin {rdb, rdbDisk}
    /\ inode = [i \in Referred |-> inode[i]]
    /\ \A i \in Referred : FileOK(inode[i])

\* File i is synced, or somebody is at work on it; if it is not whole, that is the
\* saver who emptied it last.
Tended(i) ==
    /\ inode[i].state = "whole" => \E s \in Saver : fd[s] = i
    /\ inode[i].state = "part" =>
         \E s \in Saver : fd[s] = i /\ pc[s] = "write" /\ inode[i].by = s

\* What may be renamed must be tended as long as somebody may rename it; what a
\* crash has left under the temporary name is removed first.
NamesTended == /\ rdb # None => Tended(rdb)
               /\ rdbDisk # None => Tended(rdbDisk)
               /\ Saving /\ tmp # None => Tended(tmp)

Inv == FilesOK /\ (broken \/ NamesTended)

-----------------------------------------------------------------------------
(* Steps of savers. *)

\* The files that are referred to keep their contents when nothing is written.
LEMMA FilesKept ==
    ASSUME FilesOK, Files(inode), Referred' \subseteq Referred
    PROVE  /\ inode' = [i \in Referred' |-> inode'[i]]
           /\ \A i \in Referred' : inode'[i] = inode[i] /\ FileOK(inode'[i])
BY DEF FilesOK, Files

\* Each step of a saver preserves Inv: it removes what is under the temporary name,
LEMMA RemoveTmpOK ==
    ASSUME Inv, NEW s \in Saver, RemoveTmp(s)
    PROVE  Inv'
<1>1. FilesOK /\ Files(inode) /\ Referred' \subseteq Referred
  BY DEF Inv, RemoveTmp, Referred
<1>2. FilesOK'
  BY <1>1, FilesKept DEF FilesOK, RemoveTmp, At, Place
<1>3. ASSUME NEW j \in Referred', Tended(j) PROVE Tended(j)'
  <2>1. inode'[j] = inode[j]
    BY <1>1, FilesKept
  <2>2. fd' = fd /\ \A u \in Saver : pc[u] = "write" => pc'[u] = "write"
    BY <1>1 DEF FilesOK, RemoveTmp, At
  <2> QED
    BY <1>3, <2>1, <2>2 DEF Tended
<1>4. NamesTended => NamesTended'
  BY <1>3 DEF NamesTended, RemoveTmp, Referred
<1> QED
  BY <1>2, <1>4 DEF Inv, RemoveTmp

\* opens that name, which empties the file another saver may be writing,
LEMMA OpenTmpOK ==
    ASSUME Inv, NEW s \in Saver, OpenTmp(s, mem)
    PROVE  Inv'
<1> DEFINE new == [snap |-> mem, state |-> "part", by |-> s]
<1>1. PICK i \in IF tmp # None THEN {tmp} ELSE Inode \ Referred :
        /\ tmp' = i /\ fd' = [fd EXCEPT ![s] = i]
        /\ UNCHANGED <<rdb, rdbDisk, broken>>
        /\ inode' = [j \in Referred' |-> IF j = i THEN new ELSE inode[j]]
  <2>1. Referred' \subseteq Referred \cup {tmp'}
    BY DEF OpenTmp, Referred, Inv, FilesOK
  <2> QED
    BY <2>1 DEF OpenTmp, Files
<1>2. pc[s] = "open" /\ pc' = [pc EXCEPT ![s] = "write"]
  BY DEF OpenTmp, At
<1>3. i \in Inode /\ i # None /\ i \notin {rdb, rdbDisk}
  BY <1>1, RdbFileAssumption DEF Inv, FilesOK, Referred
<1>4. Referred' \subseteq Referred \cup {i} /\ i \in Referred'
  BY <1>1, <1>3 DEF Referred, Inv, FilesOK
<1>5. FilesOK'
  <2>1. \A j \in Referred' : FileOK(inode'[j])
    BY <1>1, <1>4 DEF Inv, FilesOK, FileOK
  <2> QED
    BY <1>1, <1>2, <1>3, <2>1 DEF Inv, FilesOK, Place
<1>6. NamesTended => NamesTended'
  <2>1. fd[s] = None
    BY <1>2 DEF Inv, FilesOK
  <2>2. Tended(i)'
    BY <1>1, <1>2, <1>4 DEF Tended, Inv, FilesOK
  <2>3. ASSUME NEW j \in {rdb, rdbDisk} \ {None}, Tended(j) PROVE Tended(j)'
    <3>1. inode'[j] = inode[j]
      BY <1>1, <1>3 DEF Referred
    <3> QED
      BY <1>1, <1>2, <2>1, <2>3, <3>1, RdbFileAssumption DEF Tended, Inv, FilesOK
  <2> QED
    BY <1>1, <2>2, <2>3 DEF NamesTended
<1> QED
  BY <1>1, <1>5, <1>6 DEF Inv

\* writes the file,
LEMMA WriteAllOK ==
    ASSUME Inv, NEW s \in Saver, WriteAll(s)
    PROVE  Inv'
<1> DEFINE i == fd[s]
<1>1. /\ pc[s] = "write" /\ pc' = [pc EXCEPT ![s] = "sync"]
      /\ UNCHANGED <<fd, tmp, rdb, rdbDisk, broken>>
      /\ i \in Referred /\ Referred' = Referred
  BY DEF WriteAll, At, names, Inv, FilesOK, Referred
<1>2. PICK state \in {"part", "whole"} :
        /\ inode[i].state = "part" /\ inode[i].by = s => state = "whole"
        /\ inode' = [inode EXCEPT ![i] =
              IF inode[i].state = "part" THEN [inode[i] EXCEPT !.state = state] ELSE inode[i]]
  BY <1>1 DEF WriteAll, Files, Inv, FilesOK
<1>3. /\ DOMAIN inode = Referred
      /\ \A j \in Referred : j # i => inode'[j] = inode[j]
      /\ inode[i].state = "part" => inode'[i].state = state /\ inode'[i].by = inode[i].by
      /\ inode[i].state # "part" => inode'[i] = inode[i]
      /\ FileOK(inode'[i])
  BY <1>1, <1>2 DEF Inv, FilesOK, FileOK
<1>4. FilesOK'
  BY <1>1, <1>2, <1>3 DEF Inv, FilesOK, Place
<1>5. ASSUME NEW j \in Referred, Tended(j) PROVE Tended(j)'
  <2>1. \A u \in Saver : pc[u] = "write" /\ u # s => pc'[u] = "write"
    BY <1>1 DEF Inv, FilesOK
  <2>2. CASE j # i
    BY <1>1, <1>3, <1>5, <2>1, <2>2 DEF Tended
  <2>3. CASE j = i /\ inode[i].state = "part"
    BY <1>1, <1>2, <1>3, <1>5, <2>1, <2>3 DEF Tended
  <2>4. CASE j = i /\ inode[i].state # "part"
    BY <1>1, <1>3, <1>5, <2>4 DEF Tended
  <2> QED
    BY <2>2, <2>3, <2>4
<1>6. NamesTended => NamesTended'
  BY <1>1, <1>5 DEF NamesTended, Saving, Referred
<1> QED
  BY <1>1, <1>4, <1>6 DEF Inv

\* syncs it,
LEMMA SyncAndCloseOK ==
    ASSUME Inv, NEW s \in Saver, SyncAndClose(s)
    PROVE  Inv'
<1> DEFINE i == fd[s]
<1>1. /\ pc[s] = "sync" /\ pc' = [pc EXCEPT ![s] = "rename"]
      /\ fd' = [fd EXCEPT ![s] = None]
      /\ UNCHANGED <<tmp, rdb, rdbDisk, broken>>
      /\ i \in Referred /\ Referred' \subseteq Referred
  BY DEF SyncAndClose, At, names, Inv, FilesOK, Referred
<1>2. DOMAIN inode = Referred /\ DOMAIN inode' = Referred'
      /\ inode' = [j \in Referred' |-> inode'[j]]
  BY DEF SyncAndClose, Files, Inv, FilesOK
<1>3. \A j \in Referred' : inode'[j] =
         IF j = i THEN [inode[i] EXCEPT !.state = IF @ = "whole" THEN "synced" ELSE @]
         ELSE inode[j]
  BY <1>1, <1>2 DEF SyncAndClose, Files
<1>4. ASSUME NEW j \in Referred' PROVE
         /\ FileOK(inode'[j]) /\ inode'[j].by = inode[j].by
         /\ inode'[j].state = "part" => inode[j].state = "part"
         /\ inode'[j].state = "whole" => inode[j].state = "whole" /\ j # i
  <2>1. FileOK(inode[j])
    BY <1>1 DEF Inv, FilesOK
  <2>2. CASE j = i
    <3>1. inode'[j] = [inode[j] EXCEPT !.state =
                         IF inode[j].state = "whole" THEN "synced" ELSE inode[j].state]
      BY <1>3, <2>2
    <3> QED
      BY <2>1, <3>1 DEF FileOK
  <2>3. CASE j # i
    BY <1>3, <2>1, <2>3
  <2> QED
    BY <2>2, <2>3
<1>5. FilesOK'
  BY <1>1, <1>2, <1>4 DEF Inv, FilesOK, Place
<1>6. ASSUME NEW j \in Referred', Tended(j) PROVE Tended(j)'
  BY <1>1, <1>4, <1>6 DEF Tended, Inv, FilesOK
<1>7. NamesTended => NamesTended'
  BY <1>1, <1>6 DEF NamesTended, Saving, Referred
<1> QED
  BY <1>1, <1>5, <1>7 DEF Inv

\* renames it and syncs the directory,
LEMMA RenameOK ==
    ASSUME Inv, NEW s \in Saver, NEW ok \in BOOLEAN, Rename(s) \/ SyncDir(s, ok)
    PROVE  Inv'
<1>1. FilesOK /\ Files(inode) /\ Referred' \subseteq Referred
  BY DEF Inv, Rename, SyncDir, Referred
<1>2. FilesOK'
  BY <1>1, FilesKept DEF FilesOK, Rename, SyncDir, At, Place
<1>3. Saving
  BY DEF Saving, Rename, SyncDir, At
<1>4. ASSUME NEW j \in Referred', Tended(j) PROVE Tended(j)'
  <2>1. inode'[j] = inode[j]
    BY <1>1, FilesKept
  <2>2. fd' = fd /\ \A u \in Saver : pc[u] = "write" => pc'[u] = "write"
    BY <1>1 DEF FilesOK, Rename, SyncDir, At, names
  <2> QED
    BY <1>4, <2>1, <2>2 DEF Tended
<1>5. NamesTended => NamesTended'
  BY <1>3, <1>4 DEF NamesTended, Rename, SyncDir, Referred
<1> QED
  BY <1>2, <1>5 DEF Inv, Rename, SyncDir

\* or gives up at an error.
LEMMA SaveFailsOK ==
    ASSUME Inv, NEW s \in Saver, SaveFails(s)
    PROVE  Inv'
<1>1. FilesOK /\ Files(inode) /\ Referred' \subseteq Referred
  BY DEF Inv, SaveFails, Referred, FilesOK
<1>2. FilesOK'
  BY <1>1, FilesKept DEF FilesOK, SaveFails, Place
<1>3. NamesTended /\ ~broken' => NamesTended'
  <2>1. ~broken' => fd[s] = None \/ fd[s] \notin {rdb, rdbDisk}
    BY DEF SaveFails, Exposed
  <2>2. Saving /\ (tmp' # None => tmp' = tmp /\ fd[s] = None)
    BY DEF Saving, SaveFails, Inv, FilesOK
  <2>3. ASSUME NEW j \in Referred', fd[s] # j, Tended(j) PROVE Tended(j)'
    BY <1>1, <2>3, FilesKept DEF Tended, FilesOK, SaveFails
  <2> QED
    BY <2>1, <2>2, <2>3, RdbFileAssumption DEF NamesTended, SaveFails, Referred, Inv, FilesOK
<1> QED
  BY <1>2, <1>3 DEF Inv, SaveFails

-----------------------------------------------------------------------------
(* The end of the process, and the next start. *)

\* What no saver was writing is synced, and no part of it can be missing.
LEMMA SaversDieOK ==
    ASSUME Inv, NEW name \in {rdb, rdbDisk}, SaversDie(name),
           rdbDisk' = rdbDisk \/ rdbDisk' = name
    PROVE  Inv'
<1>1. /\ pc' = [s \in Saver |-> "idle"] /\ fd' = [s \in Saver |-> None]
      /\ rdb' = name /\ tmp' = tmp
      /\ broken' = (broken \/ \E s \in Saver : Exposed(s))
      /\ Referred' \subseteq Referred
  BY DEF SaversDie, Referred
<1>2. PICK torn \in SUBSET {i \in Referred : inode[i].state = "whole"} :
        inode' = [i \in Referred' |-> IF i \in torn THEN [inode[i] EXCEPT !.state = "part"]
                                      ELSE inode[i]]
  BY <1>1 DEF SaversDie, Files
<1>3. FilesOK'
  <2>1. ASSUME NEW i \in Referred' PROVE FileOK(inode'[i])
    <3>1. FileOK(inode[i])
      BY <1>1 DEF Inv, FilesOK
    <3>2. inode'[i] = inode[i] \/ inode'[i] = [inode[i] EXCEPT !.state = "part"]
      BY <1>2
    <3> QED
      BY <3>1, <3>2 DEF FileOK
  <2> QED
    BY <1>1, <1>2, <2>1 DEF Inv, FilesOK, Place
<1>4. ASSUME NamesTended, ~broken', NEW j \in {rdb, rdbDisk} \ {None}, j \in Referred'
      PROVE  inode'[j].state = "synced"
  <2>1. \A s \in Saver : fd[s] # j
    BY <1>1, <1>4 DEF Exposed
  <2>2. FileOK(inode[j]) /\ Tended(j)
    BY <1>1, <1>4 DEF NamesTended, Inv, FilesOK
  <2>3. inode[j].state = "synced"
    BY <2>1, <2>2 DEF Tended, FileOK
  <2> QED
    BY <1>2, <1>4, <2>3
<1>5. NamesTended /\ ~broken' => NamesTended'
  BY <1>1, <1>4 DEF NamesTended, Tended, Saving, Referred
<1> QED
  BY <1>1, <1>3, <1>5 DEF Inv

\* Loading drops the temporary name and nothing else.
LEMMA RdbLoadOK ==
    ASSUME Inv, rdb_load
    PROVE  Inv'
<1>1. FilesOK /\ Files(inode) /\ Referred' \subseteq Referred
  BY DEF Inv, rdb_load, Referred
<1>2. FilesOK'
  BY <1>1, FilesKept DEF FilesOK, rdb_load
<1>3. ASSUME NEW j \in Referred', Tended(j) PROVE Tended(j)'
  <2>1. inode'[j] = inode[j]
    BY <1>1, FilesKept
  <2> QED
    BY <1>3, <2>1 DEF Tended, rdb_load
<1>4. NamesTended => NamesTended'
  BY <1>3 DEF NamesTended, rdb_load, Referred
<1> QED
  BY <1>2, <1>4 DEF Inv, rdb_load

-----------------------------------------------------------------------------
(* The theorem. *)

\* An empty directory satisfies Inv.
LEMMA InitOK == Init => Inv
BY DEF Init, RdbInit, Inv, FilesOK, NamesTended, Referred, Place

\* Inv is about the variables of RdbFile only.
LEMMA InvStutter == Inv /\ UNCHANGED rdbVars => Inv'
<1> SUFFICES ASSUME Inv, UNCHANGED rdbVars PROVE Inv'
  OBVIOUS
<1>1. Referred' = Referred
  BY DEF rdbVars, Referred
<1>2. FilesOK'
  BY <1>1 DEF rdbVars, Inv, FilesOK
<1>3. NamesTended => NamesTended'
  BY DEF rdbVars, NamesTended, Tended, Saving
<1> QED
  BY <1>2, <1>3 DEF rdbVars, Inv

\* Every step of the files preserves Inv.
LEMMA NextOK == Inv /\ Next => Inv'
<1> SUFFICES ASSUME Inv, Next PROVE Inv'
  OBVIOUS
<1>1. CASE (\E k \in 1..MaxRecords : Write(k)) \/ AppendRecord \/ Return \/ Flush \/ Close \/ Closed
  BY <1>1, InvStutter DEF Write, AppendRecord, Return, Flush, Close, Closed
<1>2. CASE Open
  BY <1>2, InvStutter, RdbLoadOK DEF Open
<1>3. CASE Kill
  BY <1>3, SaversDieOK DEF Kill, rdb_kill
<1>4. CASE PowerLoss
  BY <1>4, SaversDieOK DEF PowerLoss, rdb_power_loss
<1>5. ASSUME NEW s \in Saver, BeginSave(s) \/ SaveStep(s) \/ FinishSave(s) PROVE Inv'
  BY <1>5, RemoveTmpOK, OpenTmpOK, WriteAllOK, SyncAndCloseOK, RenameOK, SaveFailsOK
     DEF BeginSave, SaveStep, FinishSave
<1> QED
  BY <1>1, <1>2, <1>3, <1>4, <1>5 DEF Next

\* The snapshot is complete and on the disk at every moment, unless savers overlap:
\* whatever fails, and wherever the process or the machine stops.
THEOREM SnapshotIsWhole == Spec => []SnapshotWhole
<1>1. Inv /\ [Next]_vars => Inv'
  BY NextOK, InvStutter DEF vars
<1>2. Inv => SnapshotWhole
  BY DEF Inv, FilesOK, FileOK, NamesTended, Tended, SnapshotWhole, Exposed, Referred
<1> QED
  BY <1>1, <1>2, InitOK, PTL DEF Spec

-----------------------------------------------------------------------------
(* Sequences and their beginnings. *)

\* What a write can leave in memory or in a file.
Item == Nat \cup {Garbled}

\* A prefix, entry by entry.
LEMMA PrefixIs ==
    ASSUME NEW s \in Seq(Item), NEW t \in Seq(Item)
    PROVE  IsPrefix(s, t) <=> Len(s) <= Len(t) /\ \A i \in 1..Len(s) : s[i] = t[i]
<1> DEFINE r == SubSeq(t, 1, Len(s))
<1>1. SubSeq(s, 1, Len(s)) = s
  BY SubSeqFull
<1>2. CASE Len(s) <= Len(t)
  <2>1. r \in Seq(Item) /\ Len(r) = Len(s) /\ \A i \in 1..Len(s) : r[i] = t[i]
    <3>1. \A i \in 1..Len(s) : t[i] \in Item
      BY <1>2
    <3> QED
      BY <3>1, SubSeqProperties, Z3
  <2> HIDE DEF r
  <2>2. s = r <=> \A i \in 1..Len(s) : s[i] = r[i]
    BY <2>1, SeqEqual
  <2> QED
    BY <1>1, <1>2, <2>1, <2>2 DEF IsPrefix, r
<1> QED
  BY <1>2 DEF IsPrefix

\* The relation "begins with" is reflexive
LEMMA PrefixSelf == \A s \in Seq(Item) : IsPrefix(s, s)
BY PrefixIs

\* and transitive,
LEMMA PrefixTrans ==
    ASSUME NEW s \in Seq(Item), NEW t \in Seq(Item), NEW u \in Seq(Item),
           IsPrefix(s, t), IsPrefix(t, u)
    PROVE  IsPrefix(s, u)
BY PrefixIs

\* and survives writes to the longer sequence.
LEMMA PrefixConcat ==
    ASSUME NEW s \in Seq(Item), NEW t \in Seq(Item), NEW e \in Seq(Item), IsPrefix(s, t)
    PROVE  IsPrefix(s, t \o e)
<1>1. /\ t \o e \in Seq(Item) /\ Len(t \o e) = Len(t) + Len(e)
      /\ \A i \in 1..Len(t) + Len(e) : (t \o e)[i] = IF i <= Len(t) THEN t[i] ELSE e[i - Len(t)]
  BY ConcatProperties
<1>2. PICK u \in Seq(Item) :
        /\ u = t \o e /\ Len(u) = Len(t) + Len(e)
        /\ \A i \in 1..Len(t) + Len(e) : u[i] = IF i <= Len(t) THEN t[i] ELSE e[i - Len(t)]
  BY <1>1
<1>3. Len(s) \in Nat /\ Len(t) \in Nat /\ Len(e) \in Nat
  BY LenProperties
<1>4. Len(s) <= Len(t) /\ \A i \in 1..Len(s) : s[i] = t[i]
  BY PrefixIs
<1>5. Len(s) <= Len(u) /\ \A i \in 1..Len(s) : s[i] = u[i]
  BY <1>2, <1>3, <1>4
<1>6. IsPrefix(s, u)
  BY <1>5, PrefixIs
<1> QED
  BY <1>2, <1>6

-----------------------------------------------------------------------------
(* The contents of the snapshots. *)

Kept(name) == IF name = None THEN <<>> ELSE inode[name].snap

\* What is, or at the end of the last session was, in memory.
Now == IF phase = "down" THEN last ELSE mem

DataOK == /\ config.mode \in Mode
          /\ phase \in {"down", "open", "closing", "saved"}
          /\ writes \in Nat
          /\ {mem, saved, durable, last} \subseteq Seq(Item)
          /\ \A i \in Referred : inode[i].snap \in Seq(Item)
          /\ phase = "down" => ~Saving

\* What is being saved, and what has been renamed and not synced yet, is what is
\* in memory: no write comes between, since savers hold the lock.
Fresh == /\ \A s \in Saver : fd[s] # None => inode[fd[s]].snap = mem
         /\ Saving /\ tmp # None => inode[tmp].snap = mem
         /\ \A s \in Saver : pc[s] = "syncdir" => rdb # None /\ inode[rdb].snap = mem

\* Four states of the data, each begun by the one before: of the last save that
\* synced the directory, of the snapshot that the disk knows, of the snapshot, of
\* memory.  The last successful save is no later than the snapshot.
Chain == /\ IsPrefix(durable, Kept(rdbDisk))
         /\ IsPrefix(Kept(rdbDisk), Kept(rdb))
         /\ IsPrefix(saved, Kept(rdb))
         /\ IsPrefix(Kept(rdb), Now)

SaveInv == Inv /\ DataOK /\ Fresh /\ (config.mode = "rdb" /\ ~broken => Chain)

SnapsStay == Referred' \subseteq Referred /\ \A j \in Referred' : inode'[j].snap = inode[j].snap

\* Only OpenTmp changes what is in a file.
LEMMA StepSnaps ==
    ASSUME Inv, NEW s \in Saver, NEW ok \in BOOLEAN,
           \/ RemoveTmp(s) \/ WriteAll(s) \/ SyncAndClose(s)
           \/ Rename(s) \/ SyncDir(s, ok) \/ SaveFails(s)
    PROVE  SnapsStay
<1>1. CASE RemoveTmp(s) \/ Rename(s) \/ SyncDir(s, ok) \/ SaveFails(s)
  <2>1. Files(inode) /\ Referred' \subseteq Referred
    BY <1>1 DEF RemoveTmp, Rename, SyncDir, SaveFails, Referred, Inv, FilesOK
  <2> QED
    BY <2>1, FilesKept DEF Inv, SnapsStay
<1>2. CASE WriteAll(s)
  <2>1. fd[s] \in Referred /\ Referred' = Referred
    BY <1>2 DEF WriteAll, At, names, Inv, FilesOK, Referred
  <2> QED
    BY <1>2, <2>1 DEF WriteAll, Files, Inv, FilesOK, FileOK, SnapsStay
<1>3. CASE SyncAndClose(s)
  <2>1. fd[s] \in Referred /\ Referred' \subseteq Referred
    BY <1>3 DEF SyncAndClose, At, names, Inv, FilesOK, Referred
  <2>2. FileOK(inode[fd[s]])
    BY <2>1 DEF Inv, FilesOK
  <2> QED
    BY <1>3, <2>1, <2>2 DEF SyncAndClose, Files, Inv, FilesOK, FileOK, SnapsStay
<1> QED
  BY <1>1, <1>2, <1>3

\* The end of a process or a power loss leaves under every name what was there or on disk.
LEMMA EndSnaps ==
    ASSUME Inv, NEW name \in {rdb, rdbDisk}, SaversDie(name),
           rdbDisk' = rdbDisk \/ rdbDisk' = name
    PROVE  SnapsStay
<1>1. Referred' \subseteq Referred
  BY DEF SaversDie, Referred
<1> QED
  BY <1>1 DEF SaversDie, Files, Inv, FilesOK, FileOK, SnapsStay

\* What the names stand for and what is in memory are sequences of writes.
LEMMA KeptType ==
    ASSUME Inv, DataOK
    PROVE  Kept(rdb) \in Seq(Item) /\ Kept(rdbDisk) \in Seq(Item) /\ Now \in Seq(Item)
BY EmptySeq DEF Kept, Now, DataOK, Referred, Inv, FilesOK

\* Names that stand for the same files hold the same writes.
LEMMA KeptSame ==
    ASSUME SnapsStay, UNCHANGED <<rdb, rdbDisk>>
    PROVE  Kept(rdb)' = Kept(rdb) /\ Kept(rdbDisk)' = Kept(rdbDisk)
BY DEF SnapsStay, Kept, Referred

\* The data along a save: it begins with nothing written,
LEMMA BeginSaveOK ==
    ASSUME SaveInv, NEW s \in Saver, BeginSave(s)
    PROVE  SaveInv'
<1>1. RemoveTmp(s) /\ Inv' /\ SnapsStay /\ UNCHANGED <<config, mem, writes, saved, durable, last>>
  BY RemoveTmpOK, StepSnaps DEF SaveInv, BeginSave, memVars, past
<1>2. phase \in {"open", "closing"} /\ phase' \in {"open", "saved"}
      /\ UNCHANGED <<fd, rdb, rdbDisk, broken>> /\ tmp' = None
      /\ \A u \in Saver : pc'[u] = "syncdir" => pc[u] = "syncdir"
  BY <1>1 DEF BeginSave, RemoveTmp, At, SaveInv, Inv, FilesOK
<1>3. DataOK'
  BY <1>1, <1>2 DEF SaveInv, DataOK, SnapsStay
<1>4. Fresh'
  BY <1>1, <1>2 DEF SaveInv, Fresh, SnapsStay, Referred
<1>5. Kept(rdb)' = Kept(rdb) /\ Kept(rdbDisk)' = Kept(rdbDisk) /\ Now' = Now
  BY <1>1, <1>2, KeptSame DEF Now
<1> QED
  BY <1>1, <1>2, <1>3, <1>4, <1>5 DEF SaveInv, Chain

\* takes memory as it is now,
LEMMA OpenTmpSaves ==
    ASSUME SaveInv, NEW s \in Saver, OpenTmp(s, mem), UNCHANGED <<config, phase, mem, writes, saved, durable, last>>
    PROVE  SaveInv'
<1> DEFINE new == [snap |-> mem, state |-> "part", by |-> s]
<1>1. PICK i \in IF tmp # None THEN {tmp} ELSE Inode \ Referred :
        /\ tmp' = i /\ fd' = [fd EXCEPT ![s] = i]
        /\ UNCHANGED <<rdb, rdbDisk, broken>>
        /\ inode' = [j \in Referred' |-> IF j = i THEN new ELSE inode[j]]
  <2>1. Referred' \subseteq Referred \cup {tmp'}
    BY DEF OpenTmp, Referred, SaveInv, Inv, FilesOK
  <2> QED
    BY <2>1 DEF OpenTmp, Files
<1>2. pc[s] = "open" /\ pc' = [pc EXCEPT ![s] = "write"]
  BY DEF OpenTmp, At
<1>3. /\ i \in Inode /\ i # None /\ i \notin {rdb, rdbDisk}
      /\ Referred' \subseteq Referred \cup {i} /\ i \in Referred'
      /\ \A u \in Saver : fd[u] # None => fd[u] \in Referred
  BY <1>1, RdbFileAssumption DEF SaveInv, Inv, FilesOK, Referred
<1>4. inode'[i].snap = mem /\ \A j \in Referred' : j # i => j \in Referred /\ inode'[j] = inode[j]
  BY <1>1, <1>3
<1>5. DataOK'
  BY <1>1, <1>2, <1>3, <1>4 DEF SaveInv, DataOK, Saving
<1>6. Fresh'
  <2>1. ASSUME NEW u \in Saver, fd'[u] # None PROVE inode'[fd'[u]].snap = mem'
    <3>1. fd'[u] \in Referred'
      BY <2>1 DEF Referred
    <3>2. fd'[u] # i => fd'[u] = fd[u]
      BY <1>1 DEF SaveInv, Inv, FilesOK
    <3> QED
      BY <1>4, <2>1, <3>1, <3>2 DEF SaveInv, Fresh
  <2>2. ASSUME NEW u \in Saver, pc'[u] = "syncdir" PROVE rdb' # None /\ inode'[rdb'].snap = mem'
    <3>1. pc[u] = "syncdir"
      BY <1>2, <2>2 DEF SaveInv, Inv, FilesOK
    <3>2. rdb # None /\ inode[rdb].snap = mem
      BY <3>1 DEF SaveInv, Fresh
    <3> QED
      BY <1>1, <1>3, <1>4, <3>2 DEF Referred
  <2> QED
    BY <1>1, <1>4, <2>1, <2>2 DEF Fresh
<1>7. Kept(rdb)' = Kept(rdb) /\ Kept(rdbDisk)' = Kept(rdbDisk) /\ Now' = Now
  BY <1>1, <1>3, <1>4 DEF Kept, Now, Referred
<1> QED
  BY <1>1, <1>5, <1>6, <1>7, OpenTmpOK DEF SaveInv, Chain

\* The steps of a save between the first and the last that leave the names alone,
\* or take the temporary one away.
LEMMA MiddleSaves ==
    ASSUME SaveInv, NEW s \in Saver, WriteAll(s) \/ SyncAndClose(s) \/ SaveFails(s),
           UNCHANGED <<config, phase, mem, writes, saved, durable, last>>
    PROVE  SaveInv'
<1>1. Inv' /\ SnapsStay
  BY WriteAllOK, SyncAndCloseOK, SaveFailsOK, StepSnaps DEF SaveInv
<1>2. /\ UNCHANGED <<rdb, rdbDisk>> /\ tmp' \in {tmp, None} /\ (broken => broken')
      /\ \A u \in Saver : fd'[u] \in {fd[u], None} /\ (pc'[u] = "syncdir" => pc[u] = "syncdir")
      /\ pc[s] # "idle"
  <2>1. pc \in [Saver -> Place] /\ fd \in [Saver -> Inode \cup {None}]
    BY DEF SaveInv, Inv, FilesOK
  <2>2. CASE WriteAll(s)
    BY <2>1, <2>2 DEF WriteAll, At, names
  <2>3. CASE SyncAndClose(s)
    BY <2>1, <2>3 DEF SyncAndClose, At, names
  <2>4. CASE SaveFails(s)
    BY <2>1, <2>4 DEF SaveFails
  <2> QED
    BY <2>2, <2>3, <2>4
<1> Saving
  BY <1>2 DEF Saving
<1>3. DataOK'
  BY <1>1, <1>2 DEF SaveInv, DataOK, SnapsStay
<1>4. Fresh'
  BY <1>1, <1>2 DEF SaveInv, Fresh, SnapsStay, Referred
<1>5. Kept(rdb)' = Kept(rdb) /\ Kept(rdbDisk)' = Kept(rdbDisk) /\ Now' = Now
  BY <1>1, <1>2, KeptSame DEF Now
<1> QED
  BY <1>1, <1>2, <1>3, <1>4, <1>5 DEF SaveInv, Chain

\* puts that under the name readers use,
LEMMA RenameSaves ==
    ASSUME SaveInv, NEW s \in Saver, Rename(s), UNCHANGED <<config, phase, mem, writes, saved, durable, last>>
    PROVE  SaveInv'
<1>1. Inv' /\ SnapsStay
  BY RenameOK, StepSnaps DEF SaveInv
<1>2. /\ tmp # None /\ rdb' = tmp /\ tmp' = None /\ UNCHANGED <<fd, rdbDisk, broken>>
      /\ \A u \in Saver : pc'[u] = "syncdir" => pc[u] = "syncdir" \/ u = s
      /\ Saving
  BY DEF Rename, At, SaveInv, Inv, FilesOK, Saving
<1>3. inode'[rdb'].snap = mem /\ rdb' # None
  BY <1>1, <1>2 DEF SaveInv, Fresh, SnapsStay, Referred
<1>4. DataOK'
  BY <1>1, <1>2 DEF SaveInv, DataOK, SnapsStay
<1>5. Fresh'
  BY <1>1, <1>2, <1>3 DEF SaveInv, Fresh, SnapsStay, Referred
<1>6. ASSUME Chain PROVE Chain'
  <2>1. Kept(rdb)' = mem /\ Now' = mem /\ Now = mem
    BY <1>2, <1>3 DEF Kept, Now, SaveInv, DataOK
  <2>2. Kept(rdbDisk)' = Kept(rdbDisk)
    BY <1>1, <1>2 DEF Kept, SnapsStay, Referred
  <2>3. IsPrefix(Kept(rdbDisk), mem) /\ IsPrefix(saved, mem) /\ mem \in Seq(Item)
    BY <1>6, <2>1, KeptType, PrefixTrans DEF Chain, SaveInv, DataOK
  <2> QED
    BY <1>6, <2>1, <2>2, <2>3, PrefixSelf DEF Chain
<1> QED
  BY <1>1, <1>2, <1>4, <1>5, <1>6 DEF SaveInv

\* and is the last successful one when it is over: also the last durable one, if
\* the directory was synced.
LEMMA FinishSaveOK ==
    ASSUME SaveInv, NEW s \in Saver, FinishSave(s)
    PROVE  SaveInv'
<1>1. PICK ok \in BOOLEAN :
        /\ SyncDir(s, ok) /\ saved' = mem /\ durable' = IF ok THEN mem ELSE durable
        /\ UNCHANGED <<config, phase, mem, writes, last>>
  BY DEF FinishSave, memVars
<1>2. Inv' /\ SnapsStay
  BY <1>1, RenameOK, StepSnaps DEF SaveInv
<1>3. /\ pc[s] = "syncdir" /\ rdbDisk' \in {rdb, rdbDisk} /\ (ok => rdbDisk' = rdb)
      /\ UNCHANGED <<fd, tmp, rdb, broken>>
      /\ \A u \in Saver : pc'[u] = "syncdir" => pc[u] = "syncdir"
      /\ Saving
  BY <1>1 DEF SyncDir, At, SaveInv, Inv, FilesOK, Saving
<1>4. inode'[rdb'].snap = mem /\ rdb' # None
  BY <1>2, <1>3 DEF SaveInv, Fresh, SnapsStay, Referred
<1>5. DataOK'
  BY <1>1, <1>2, <1>3 DEF SaveInv, DataOK, SnapsStay
<1>6. Fresh'
  BY <1>1, <1>2, <1>3, <1>4 DEF SaveInv, Fresh, SnapsStay, Referred
<1>7. ASSUME Chain PROVE Chain'
  <2>1. /\ Kept(rdb)' = mem /\ Now' = mem /\ Now = mem /\ saved' = mem
        /\ mem \in Seq(Item) /\ durable \in Seq(Item)
    BY <1>1, <1>3, <1>4 DEF Kept, Now, SaveInv, DataOK
  <2>2. Kept(rdbDisk)' \in {mem, Kept(rdbDisk)} /\ (ok => Kept(rdbDisk)' = mem)
    BY <1>2, <1>3, <2>1 DEF Kept, SnapsStay, Referred
  <2>3. IsPrefix(Kept(rdbDisk), mem) /\ IsPrefix(durable, mem)
    BY <1>7, <2>1, KeptType, PrefixTrans DEF Chain, SaveInv
  <2> QED
    BY <1>1, <1>7, <2>1, <2>2, <2>3, PrefixSelf DEF Chain
<1> QED
  BY <1>1, <1>2, <1>3, <1>5, <1>6, <1>7 DEF SaveInv

\* Steps that touch no file of the snapshot.
LEMMA Undisturbed ==
    ASSUME Inv, UNCHANGED rdbVars
    PROVE  Inv' /\ SnapsStay /\ Referred' = Referred /\ (Saving' <=> Saving)
           /\ Kept(rdb)' = Kept(rdb) /\ Kept(rdbDisk)' = Kept(rdbDisk)
BY InvStutter DEF rdbVars, SnapsStay, Referred, Saving, Kept

\* Without a saver no file is open, and Fresh says nothing.
LEMMA FreshIdle == Inv /\ ~Saving => (\A s \in Saver : fd[s] = None) /\ Fresh
BY DEF Inv, FilesOK, Saving, Fresh

\* The writes of a call go behind those in memory.
LEMMA Longer ==
    ASSUME DataOK, NEW k \in 1..MaxRecords, Write(k)
    PROVE  /\ k \in Nat /\ writes' \in Nat
           /\ \E e \in Seq(Item) : Len(e) = k /\ mem' = mem \o e
<1> DEFINE e == [i \in 1..k |-> writes + i]
<1>1. k \in Nat /\ writes \in Nat /\ mem' = mem \o e /\ writes' = writes + k
  BY DurabilityAssumption DEF Write, DataOK
<1>2. e \in [1..k -> Item]
  BY <1>1 DEF Item
<1> HIDE DEF e
<1>3. e \in Seq(Item) /\ Len(e) = k
  <2>1. e \in Seq(Item)
    BY <1>1, <1>2, SeqDef
  <2> QED
    BY <1>1, <1>2, <2>1, LenProperties
<1>4. writes' \in Nat
  BY <1>1
<1> QED
  BY <1>1, <1>3, <1>4

\* A write waits for the savers, so what they write stays memory as it is now.
LEMMA WriteOK ==
    ASSUME SaveInv, NEW k \in 1..MaxRecords, Write(k)
    PROVE  SaveInv'
<1>1. /\ Inv' /\ SnapsStay /\ ~Saving /\ ~Saving' /\ UNCHANGED rdbVars
      /\ Kept(rdb)' = Kept(rdb) /\ Kept(rdbDisk)' = Kept(rdbDisk)
  BY Undisturbed DEF SaveInv, Write
<1>2. phase = "open" /\ UNCHANGED <<config, phase, saved, durable, last>> /\ mem \in Seq(Item)
  BY DEF Write, SaveInv, DataOK, past
<1>3. writes' \in Nat /\ \E e \in Seq(Item) : mem' = mem \o e
  BY Longer DEF SaveInv
<1>4. PICK e \in Seq(Item) : mem' = mem \o e
  BY <1>3
<1>5. mem' \in Seq(Item)
  BY <1>2, <1>4, ConcatProperties
<1>6. DataOK'
  BY <1>1, <1>2, <1>3, <1>5 DEF SaveInv, DataOK, SnapsStay
<1>7. Fresh'
  BY <1>1 DEF Fresh, Saving, Inv, FilesOK
<1>8. ASSUME Chain PROVE Chain'
  <2>1. Now = mem /\ Now' = mem \o e
    BY <1>2, <1>4 DEF Now
  <2>2. IsPrefix(Kept(rdb), mem \o e)
    BY <1>2, <1>8, <2>1, KeptType, PrefixConcat DEF Chain, SaveInv
  <2> QED
    BY <1>1, <1>2, <1>8, <2>1, <2>2 DEF Chain
<1> QED
  BY <1>1, <1>2, <1>6, <1>7, <1>8 DEF SaveInv, rdbVars

\* The steps that touch no snapshot and no memory.
LEMMA FlushOrCloseOK ==
    ASSUME SaveInv, AppendRecord \/ Return \/ Flush \/ Close \/ UNCHANGED vars
    PROVE  SaveInv'
<1>1. /\ Inv' /\ SnapsStay /\ UNCHANGED rdbVars /\ (Saving' <=> Saving)
      /\ Kept(rdb)' = Kept(rdb) /\ Kept(rdbDisk)' = Kept(rdbDisk)
  BY Undisturbed DEF SaveInv, AppendRecord, Return, Flush, Close, vars
<1>2. /\ UNCHANGED <<config, mem, writes, saved, durable, last>>
      /\ phase' \in {"down", "open", "closing", "saved"} /\ (phase' = "down" <=> phase = "down")
  BY DEF AppendRecord, Return, Flush, Close, vars, memVars, past, SaveInv, DataOK
<1>3. DataOK' /\ Now' = Now
  BY <1>1, <1>2 DEF SaveInv, DataOK, SnapsStay, Now
<1>4. Fresh'
  BY <1>1, <1>2 DEF SaveInv, Fresh, rdbVars
<1> QED
  BY <1>1, <1>2, <1>3, <1>4 DEF SaveInv, Chain, rdbVars

\* The end of a clean close keeps what was saved.
LEMMA ClosedOK ==
    ASSUME SaveInv, Closed
    PROVE  SaveInv'
<1>1. /\ Inv' /\ SnapsStay /\ UNCHANGED rdbVars /\ ~Saving'
      /\ Kept(rdb)' = Kept(rdb) /\ Kept(rdbDisk)' = Kept(rdbDisk)
  BY Undisturbed DEF SaveInv, Closed
<1>2. /\ phase = "saved" /\ phase' = "down" /\ mem' = <<>> /\ last' = mem
      /\ UNCHANGED <<config, writes, saved, durable>>
  BY DEF Closed, Ended
<1>3. DataOK' /\ Now' = Now
  BY <1>1, <1>2, EmptySeq DEF SaveInv, DataOK, SnapsStay, Now
<1>4. Fresh'
  BY <1>1 DEF Fresh, Saving, Inv, FilesOK
<1> QED
  BY <1>1, <1>2, <1>3, <1>4 DEF SaveInv, Chain, rdbVars

\* After a power loss the snapshot is the one before the last rename or the one
\* behind it: each is begun by the last successful save, and begins memory.
LEMMA CrashOK ==
    ASSUME SaveInv, Kill \/ PowerLoss
    PROVE  SaveInv'
<1>1. PICK name \in {rdb, rdbDisk} :
        /\ SaversDie(name) /\ ((rdbDisk' = rdbDisk /\ name = rdb) \/ rdbDisk' = name)
        /\ Kill => name = rdb
  BY DEF Kill, rdb_kill, PowerLoss, rdb_power_loss
<1>2. /\ phase' = "down" /\ mem' = <<>> /\ last' = Now
      /\ UNCHANGED <<config, writes, durable>>
      /\ (saved' = saved /\ name = rdb) \/ saved' = durable
  BY <1>1 DEF Kill, rdb_kill, PowerLoss, Ended, Now
<1>3. Inv' /\ SnapsStay
  BY <1>1, SaversDieOK, EndSnaps DEF SaveInv
<1>4. ~Saving' /\ rdb' = name /\ (broken => broken')
  BY <1>1 DEF SaversDie, Saving
<1>5. DataOK'
  <2>1. Now \in Seq(Item)
    BY DEF Now, SaveInv, DataOK
  <2> QED
    BY <1>2, <1>3, <1>4, <2>1, EmptySeq DEF SaveInv, DataOK, SnapsStay
<1>6. Fresh'
  BY <1>3, <1>4 DEF Fresh, Saving, Inv, FilesOK
<1>7. Chain => Chain'
  <2>1. /\ Kept(rdb)' = Kept(name)
        /\ Kept(rdbDisk)' \in {Kept(rdbDisk), Kept(name)}
        /\ name = rdb \/ Kept(rdbDisk)' = Kept(name)
    BY <1>1, <1>3, <1>4 DEF Kept, SnapsStay, Referred
  <2>2. name = rdb \/ name = rdbDisk
    OBVIOUS
  <2>3. Now' = Now
    BY <1>2 DEF Now
  <2>4. Chain => /\ IsPrefix(durable, Kept(rdb)) /\ IsPrefix(Kept(rdbDisk), Now)
                 /\ IsPrefix(Kept(rdb), Kept(rdb)) /\ IsPrefix(Kept(rdbDisk), Kept(rdbDisk))
    BY KeptType, PrefixTrans, PrefixSelf DEF Chain, SaveInv, DataOK
  <2> QED
    BY <1>2, <2>1, <2>2, <2>3, <2>4 DEF Chain
<1> QED
  BY <1>2, <1>3, <1>4, <1>5, <1>6, <1>7 DEF SaveInv

-----------------------------------------------------------------------------
(* What aof_load makes of a log. *)

Rec == [id : Item, cut : Cut \cup {"none"}]

\* What is replayed of a record that is read.
Tells(x) == IF x.cut = "dollar" THEN Garbled ELSE x.id

\* Record i of the file f is read: no torn one is before it, and if it is torn
\* itself, it is torn behind the $ of its last argument or makes no difference.
Told(f, i) == /\ i \in 1..Len(f)
              /\ \A j \in 1..(i - 1) : f[j].cut = "none"
              /\ f[i].cut \in {"none", "dollar", "end"}

\* The writes t begin with those that f tells of before anything torn, and, the
\* other way round, are all told of.
Begins(f, t) == \A i \in 1..Len(f) : Told(f, i) => i <= Len(t) /\ t[i] = Tells(f[i])
Ends(f, t)   == \A i \in 1..Len(t) : Told(f, i)

\* The i-th set of turns, from the one before.
Turn(g, i) == IF i = 0 THEN {Reading(<<>>, 0)}
              ELSE UNION {ReadRecord(r, log[i], Len(log) - i) : r \in g[i - 1]}

\* The recursive function Read is what its definition says.
LEMMA ReadDefined ==
    ASSUME Len(log) \in Nat
    PROVE  Read = [i \in 0..Len(log) |-> Turn(Read, i)]
<1> DEFINE N == Len(log)
           Builds(g, m) == g = [i \in 0..m |-> Turn(g, i)]
<1>1. Read = CHOOSE g : Builds(g, N)
  BY DEF Read, Turn
<1>2. \E g : Builds(g, N)
  <2> DEFINE Bad == {m \in 0..N : ~ \E g : Builds(g, m)}
  <2> SUFFICES ASSUME Bad # {} PROVE FALSE
    OBVIOUS
  <2>1. PICK m \in Bad : \A k \in Bad : m <= k
    <3>1. Bad \in SUBSET Nat
      OBVIOUS
    <3> HIDE DEF Bad
    <3> QED
      BY <3>1, LeastElement
  <2>2. CASE m = 0
    <3> DEFINE g == [i \in 0..0 |-> {Reading(<<>>, 0)}]
    <3>1. Builds(g, 0)
      BY DEF Turn
    <3> QED
      BY <2>1, <2>2, <3>1
  <2>3. CASE m # 0
    <3>1. PICK g : Builds(g, m - 1)
      BY <2>1, <2>3
    <3> DEFINE h == [i \in 0..m |-> IF i = m THEN Turn(g, m) ELSE g[i]]
    <3>2. \A i \in 0..m : h[i] = Turn(h, i)
      <4>1. \A i \in 0..(m - 1) : g[i] = Turn(g, i)
        BY <3>1
      <4>2. \A i \in 1..m : h[i - 1] = g[i - 1]
        BY <2>3
      <4>3. \A i \in 0..m : Turn(h, i) = Turn(g, i)
        <5> HIDE DEF h
        <5> SUFFICES ASSUME NEW i \in 0..m PROVE Turn(h, i) = Turn(g, i)
          OBVIOUS
        <5>1. CASE i = 0
          BY <5>1 DEF Turn
        <5>2. CASE i # 0
          <6>1. h[i - 1] = g[i - 1] /\ i # 0
            BY <4>2, <5>2
          <6> QED
            BY <6>1, Zenon DEF Turn
        <5> QED
          BY <5>1, <5>2
      <4> QED
        BY <4>1, <4>3
    <3>3. Builds(h, m)
      <4> HIDE DEF h
      <4> QED
        BY <3>2 DEF h
    <3> QED
      BY <2>1, <3>3
  <2> QED
    BY <2>2, <2>3
<1>3. Builds(Read, N)
  <2> HIDE DEF Builds
  <2> QED
    BY <1>1, <1>2
<1> QED
  BY <1>3

\* What is true of a reading after i records.
Faithful(r, i) ==
    /\ r.got \in Seq(Item) /\ r.skip \in Nat
    /\ \A j \in 1..i : Told(log, j) => j <= Len(r.got) /\ r.got[j] = Tells(log[j])
    /\ (\A j \in 1..i : log[j].cut = "none") => r.skip = 0 /\ Len(r.got) = i
    /\ i = Len(log) /\ (\A j \in 1..(i - 1) : log[j].cut = "none") => Ends(log, r.got)

\* A turn keeps what was read, and adds at most one write.
Grows(q, r) == /\ q.got \in Seq(Item) /\ q.skip \in Nat
               /\ Len(r.got) <= Len(q.got)
               /\ \A j \in 1..Len(r.got) : q.got[j] = r.got[j]

\* Reading on adds to what was replayed.
LEMMA TurnGrows ==
    ASSUME NEW r, r.got \in Seq(Item), r.skip \in Nat, NEW x \in Rec, NEW n \in Nat,
           NEW q \in ReadRecord(r, x, n)
    PROVE  Grows(q, r)
<1>1. \A e \in Item : /\ Append(r.got, e) \in Seq(Item)
                      /\ Len(r.got) <= Len(Append(r.got, e))
                      /\ \A j \in 1..Len(r.got) : Append(r.got, e)[j] = r.got[j]
  BY AppendProperties, LenProperties
<1>2. x.id \in Item /\ Garbled \in Item /\ x.cut \in Cut \cup {"none"}
  BY DEF Rec, Item
<1>3. Len(r.got) \in Nat
  BY LenProperties
<1>4. \A got, skip : Reading(got, skip).got = got /\ Reading(got, skip).skip = skip
  BY DEF Reading
<1>5. ASSUME q = Reading(r.got, q.skip), q.skip \in Nat PROVE Grows(q, r)
  BY <1>3, <1>4, <1>5 DEF Grows
<1>6. ASSUME NEW e \in Item, q = Reading(Append(r.got, e), q.skip), q.skip \in Nat PROVE Grows(q, r)
  <2>1. q.got = Append(r.got, e)
    BY <1>4, <1>6
  <2> QED
    BY <1>1, <1>6, <2>1 DEF Grows
<1>7. CASE r.skip > 0 \/ x.cut = "none"
  <2>1. r.skip > 0 => r.skip - 1 \in Nat
    OBVIOUS
  <2> QED
    <3>1. q = r => Grows(q, r)
      BY <1>3 DEF Grows
    <3>2. CASE r.skip > 0
      BY <1>4, <1>5, <2>1, <3>1, <3>2 DEF ReadRecord
    <3>3. CASE ~(r.skip > 0)
      BY <1>2, <1>4, <1>6, <1>7, <3>3 DEF ReadRecord
    <3> QED
      BY <3>2, <3>3
<1>8. CASE ~(r.skip > 0) /\ x.cut # "none"
  <2>1. q \in ReadTorn(r.got, x, n)
    BY <1>8 DEF ReadRecord
  <2>2. CASE x.cut = "star" \/ x.cut = "end" \/ x.cut = "dollar"
    BY <1>2, <1>4, <1>5, <1>6, <2>1, <2>2 DEF ReadTorn
  <2>3. CASE x.cut = "count"
    BY <1>2, <1>4, <1>5, <1>6, <2>1, <2>3 DEF ReadTorn
  <2>4. CASE x.cut = "middle"
    BY <1>2, <1>4, <1>5, <1>6, <2>1, <2>4 DEF ReadTorn
  <2> QED
    BY <1>2, <1>8, <2>2, <2>3, <2>4 DEF Cut
<1> QED
  BY <1>7, <1>8

\* As long as nothing was torn, what is replayed is what the records say.
LEMMA TurnFaithful ==
    ASSUME log \in Seq(Rec), NEW i \in 1..Len(log), NEW r, Faithful(r, i - 1),
           NEW q \in ReadRecord(r, log[i], Len(log) - i)
    PROVE  Faithful(q, i)
<1> DEFINE Clean == \A j \in 1..(i - 1) : log[j].cut = "none"
<1>1. Len(log) \in Nat /\ log[i] \in Rec /\ Len(log) - i \in Nat /\ i - 1 \in Nat
  BY ElementOfSeq, LenProperties
<1>2. Grows(q, r) /\ Len(r.got) \in Nat /\ Len(q.got) \in Nat
  BY <1>1, TurnGrows, LenProperties DEF Faithful, Grows
<1>3. \A j \in 1..(i - 1) : Told(log, j) => j <= Len(q.got) /\ q.got[j] = Tells(log[j])
  BY <1>1, <1>2 DEF Faithful, Grows
<1>4. /\ log[i].id \in Item /\ log[i].cut \in Cut \cup {"none"}
      /\ Tells(log[i]) \in Item /\ Tells(log[i]) = IF log[i].cut = "dollar" THEN Garbled ELSE log[i].id
  BY <1>1 DEF Rec, Tells, Item
<1>5. \A got, skip : Reading(got, skip).got = got /\ Reading(got, skip).skip = skip
  BY DEF Reading
<1>6. CASE ~Clean
  <2>1. ~Told(log, i)
    BY <1>6 DEF Told
  <2>2. \A j \in 1..i : Told(log, j) => j <= Len(q.got) /\ q.got[j] = Tells(log[j])
    BY <1>3, <2>1
  <2>3. q.got \in Seq(Item) /\ q.skip \in Nat
    BY <1>2 DEF Grows
  <2>4. ~ \A j \in 1..i : log[j].cut = "none"
    BY <1>6
  <2> QED
    BY <1>6, <2>2, <2>3, <2>4 DEF Faithful
<1>7. CASE Clean
  <2>1. r.skip = 0 /\ Len(r.got) = i - 1 /\ r.got \in Seq(Item)
    BY <1>7 DEF Faithful
  <2>2. \A j \in 1..(i - 1) : Told(log, j)
    BY <1>1, <1>7 DEF Told
  <2>3. ASSUME log[i].cut \in {"none", "dollar", "end"}, q.got = Append(r.got, Tells(log[i])),
               log[i].cut = "none" => q.skip = 0
        PROVE  Faithful(q, i)
    <3>1. Len(q.got) = i /\ q.got[i] = Tells(log[i])
      BY <1>4, <2>1, <2>3, AppendProperties
    <3>2. Told(log, i)
      BY <1>7, <2>3 DEF Told
    <3>3. Ends(log, q.got)
      BY <2>2, <3>1, <3>2 DEF Ends
    <3>4. \A j \in 1..i : Told(log, j) => j <= Len(q.got) /\ q.got[j] = Tells(log[j])
      BY <1>3, <3>1
    <3>5. log[i].cut # "none" => ~ \A j \in 1..i : log[j].cut = "none"
      OBVIOUS
    <3> QED
      BY <1>2, <2>3, <3>1, <3>3, <3>4, <3>5 DEF Faithful, Grows
  <2>4. ASSUME log[i].cut \notin {"none", "dollar", "end"}, i = Len(log) => q.got = r.got
        PROVE  Faithful(q, i)
    <3>1. ~Told(log, i)
      BY <2>4 DEF Told
    <3>2. \A j \in 1..i : Told(log, j) => j <= Len(q.got) /\ q.got[j] = Tells(log[j])
      BY <1>3, <3>1
    <3>3. i = Len(log) => Ends(log, q.got)
      BY <2>1, <2>2, <2>4 DEF Ends
    <3>4. ~ \A j \in 1..i : log[j].cut = "none"
      BY <2>4
    <3> QED
      BY <1>2, <3>2, <3>3, <3>4 DEF Faithful, Grows
  <2>5. CASE log[i].cut = "none"
    <3>1. q = Reading(Append(r.got, log[i].id), 0)
      BY <2>1, <2>5 DEF ReadRecord
    <3>2. q.got = Append(r.got, log[i].id) /\ q.skip = 0
      BY <1>5, <3>1
    <3> QED
      BY <1>4, <2>3, <2>5, <3>2
  <2>6. CASE log[i].cut # "none"
    <3>1. q \in ReadTorn(r.got, log[i], Len(log) - i)
      BY <2>1, <2>6 DEF ReadRecord
    <3>2. CASE log[i].cut = "star"
      BY <1>5, <2>4, <3>1, <3>2 DEF ReadTorn
    <3>3. CASE log[i].cut = "end" \/ log[i].cut = "dollar"
      <4>1. q = Reading(Append(r.got, Tells(log[i])), 1)
        BY <1>4, <3>1, <3>3 DEF ReadTorn
      <4>2. q.got = Append(r.got, Tells(log[i]))
        BY <1>5, <4>1
      <4> QED
        BY <2>3, <3>3, <4>2
    <3>4. CASE log[i].cut = "count" \/ log[i].cut = "middle"
      <4>1. i = Len(log) => 1..(Len(log) - i) = {}
        BY <1>1
      <4>2. i = Len(log) => q.got = r.got
        BY <1>5, <3>1, <3>4, <4>1 DEF ReadTorn
      <4> QED
        BY <2>4, <3>4, <4>2
    <3> QED
      BY <1>4, <2>6, <3>2, <3>3, <3>4 DEF Cut
  <2> QED
    BY <2>5, <2>6
<1> QED
  BY <1>6, <1>7

\* The replay begins with all that stands before anything torn, and if nothing
\* stands behind a torn record it is no more than that.
LEMMA Replays ==
    ASSUME log \in Seq(Rec), NEW got \in Replayed
    PROVE  got \in Seq(Item) /\ Begins(log, got) /\ (Sound => Ends(log, got))
<1> DEFINE N == Len(log)
           Bad == {i \in 0..N : ~ \A r \in Read[i] : Faithful(r, i)}
<1>1. N \in Nat
  BY LenProperties
<1>2. \A i \in 0..N : Read[i] = Turn(Read, i)
  BY <1>1, ReadDefined
<1>3. Bad = {}
  <2> SUFFICES ASSUME Bad # {} PROVE FALSE
    OBVIOUS
  <2>1. PICK i \in Bad : \A k \in Bad : i <= k
    <3>1. Bad \in SUBSET Nat
      OBVIOUS
    <3> HIDE DEF Bad
    <3> QED
      BY <3>1, LeastElement
  <2>2. PICK r \in Read[i] : ~Faithful(r, i)
    BY <2>1
  <2>3. i # 0
    <3>1. i = 0 => r = Reading(<<>>, 0)
      BY <1>1, <1>2, <2>2 DEF Turn
    <3>2. Faithful(Reading(<<>>, 0), 0)
      BY EmptySeq DEF Faithful, Reading, Ends
    <3> QED
      BY <2>2, <3>1, <3>2
  <2>4. i \in 1..N /\ i - 1 \in 0..N /\ i - 1 \notin Bad
    BY <1>1, <2>1, <2>3
  <2>5. PICK p \in Read[i - 1] : r \in ReadRecord(p, log[i], N - i)
    <3>1. r \in Turn(Read, i)
      BY <1>2, <2>2
    <3>2. Turn(Read, i) = UNION {ReadRecord(p, log[i], N - i) : p \in Read[i - 1]}
      BY <2>3 DEF Turn
    <3> QED
      BY <3>1, <3>2
  <2>6. Faithful(p, i - 1)
    BY <2>4
  <2> QED
    BY <2>2, <2>4, <2>5, <2>6, TurnFaithful
<1>4. PICK r \in Read[N] : got = r.got
  BY DEF Replayed
<1>5. Faithful(r, N)
  BY <1>1, <1>3
<1>6. Sound => \A j \in 1..(N - 1) : log[j].cut = "none"
  BY <1>1, LenProperties DEF Sound
<1> QED
  BY <1>4, <1>5, <1>6 DEF Faithful, Begins

-----------------------------------------------------------------------------
(* The log and memory. *)

Join(l, p) == l \o WholeRecords(p)

\* No record of the file f stands behind a torn one.
NoneBehind(f) == \A i \in 1..Len(f) : f[i].cut # "none" => i = Len(f)

\* The file f tells of the first k of the writes t, and of nothing else.
Exact(f, t, k) ==
    /\ k \in 0..Len(t)
    /\ \A i \in 1..Len(f) : Told(f, i) => i <= k /\ t[i] = Tells(f[i])
    /\ NoneBehind(f) => \A i \in 1..k : Told(f, i)

\* It tells of a beginning of them, the last one perhaps with an empty argument;
Weak(f, t) ==
    \A i \in 1..Len(f) :
        Told(f, i) => i <= Len(t) /\ (f[i].cut = "dollar" \/ t[i] = Tells(f[i]))

\* and of the first n, unless a record stands behind a torn one.
AtLeast(f, t, n) == NoneBehind(f) => \A i \in 1..n : Told(f, i) /\ t[i] = Tells(f[i])

\* The writes p are those that follow the first k of t.
Follows(p, t, k) == k + Len(p) <= Len(t) /\ \A i \in 1..Len(p) : p[i] = t[k + i]

\* How many writes have left the buffer.
InFile == Len(Now) - unlogged - Len(pending)

LogOK == /\ config.always \in BOOLEAN
         /\ log \in Seq(Rec) /\ pending \in Seq(Item) /\ split \in BOOLEAN
         /\ call \in Nat /\ unlogged \in 0..call
         /\ ~Logged => call = 0
         /\ split => pending # <<>>
         /\ phase # "open" => unlogged = 0
         /\ phase = "down" => pending = <<>> /\ ~split
         /\ phase # "down" => end = "clean"
         /\ config.always => Len(pending) + unlogged <= call

\* While no crash has taken anything away, the file, the buffer and what is still
\* to be logged are memory; after a crash the file is a beginning of it, and with
\* "always" after a kill only the call under way can be missing.
Tracks == /\ end = "clean" => Exact(log, Now, InFile) /\ Follows(pending, Now, InFile)
          /\ end # "clean" => Weak(log, Now)
          /\ end = "kill" /\ config.always => AtLeast(log, Now, Len(Now) - call)

LogInv == LogOK /\ (Logged => Tracks)

\* A record is of its type and holds what it was made of.
LEMMA RecordIs ==
    ASSUME NEW e \in Item, NEW c \in Cut \cup {"none"}
    PROVE  Record(e, c) \in Rec /\ Record(e, c).id = e /\ Record(e, c).cut = c
BY DEF Record, Rec

\* The records of a buffer, one by one.
LEMMA WholeIs ==
    ASSUME NEW p \in Seq(Item)
    PROVE  /\ WholeRecords(p) \in Seq(Rec) /\ Len(WholeRecords(p)) = Len(p)
           /\ \A i \in 1..Len(p) : WholeRecords(p)[i] = Record(p[i], "none")
<1>1. Len(p) \in Nat /\ DOMAIN p = 1..Len(p) /\ \A i \in 1..Len(p) : p[i] \in Item
  BY LenProperties, ElementOfSeq
<1>2. WholeRecords(p) \in [1..Len(p) -> Rec]
  BY <1>1 DEF WholeRecords, Record, Rec
<1>3. WholeRecords(p) \in Seq(Rec)
  BY <1>1, <1>2, SeqDef
<1>4. Len(WholeRecords(p)) = Len(p)
  BY <1>1, <1>2, <1>3, LenProperties
<1> QED
  BY <1>1, <1>3, <1>4 DEF WholeRecords

\* The file and behind it the buffer, record by record.
LEMMA JoinAt ==
    ASSUME NEW l \in Seq(Rec), NEW p \in Seq(Item)
    PROVE  /\ Join(l, p) \in Seq(Rec)
           /\ Len(l) \in Nat /\ Len(p) \in Nat
           /\ Len(Join(l, p)) = Len(l) + Len(p)
           /\ \A i \in 1..(Len(l) + Len(p)) :
                 Join(l, p)[i] = IF i <= Len(l) THEN l[i] ELSE Record(p[i - Len(l)], "none")
<1>1. PICK w \in Seq(Rec) : w = WholeRecords(p) /\ Len(w) = Len(p)
                            /\ \A i \in 1..Len(p) : w[i] = Record(p[i], "none")
  BY WholeIs
<1>2. Len(l) \in Nat /\ Len(p) \in Nat
  BY LenProperties
<1>3. /\ l \o w \in Seq(Rec) /\ Len(l \o w) = Len(l) + Len(w)
      /\ \A i \in 1..Len(l) + Len(w) : (l \o w)[i] = IF i <= Len(l) THEN l[i] ELSE w[i - Len(l)]
  BY ConcatProperties
<1>4. \A i \in 1..(Len(l) + Len(p)) : i <= Len(l) \/ i - Len(l) \in 1..Len(p)
  BY <1>2
<1> QED
  BY <1>1, <1>2, <1>3, <1>4 DEF Join

\* The whole records of the writes that follow make a file tell of these too.
LEMMA Extend ==
    ASSUME NEW f \in Seq(Rec), NEW t \in Seq(Item), NEW k, Exact(f, t, k),
           NEW p \in Seq(Item), Follows(p, t, k)
    PROVE  Exact(Join(f, p), t, k + Len(p))
<1>1. PICK g \in Seq(Rec) : /\ g = Join(f, p) /\ Len(g) = Len(f) + Len(p)
        /\ \A i \in 1..(Len(f) + Len(p)) :
              g[i] = IF i <= Len(f) THEN f[i] ELSE Record(p[i - Len(f)], "none")
  BY JoinAt
<1>2. /\ Len(f) \in Nat /\ Len(p) \in Nat /\ Len(t) \in Nat /\ k \in Nat
      /\ k + Len(p) \in 0..Len(t)
  BY LenProperties DEF Exact, Follows
<1>3. \A i \in 1..Len(f) : g[i] = f[i]
  BY <1>1, <1>2
<1>4. \A i \in 1..Len(f) : Told(g, i) <=> Told(f, i)
  <2> SUFFICES ASSUME NEW i \in 1..Len(f) PROVE Told(g, i) <=> Told(f, i)
    OBVIOUS
  <2>1. g[i] = f[i] /\ \A j \in 1..(i - 1) : g[j] = f[j]
    BY <1>2, <1>3
  <2>2. i \in 1..Len(g)
    BY <1>1, <1>2
  <2> QED
    BY <2>1, <2>2 DEF Told
<1>5. CASE \A i \in 1..Len(f) : f[i].cut = "none"
  <2>1. \A i \in 1..Len(f) : Told(f, i)
    BY <1>2, <1>5 DEF Told
  <2>2. NoneBehind(f)
    BY <1>5 DEF NoneBehind
  <2>3. k = Len(f)
    <3>1. Len(f) > 0 => Len(f) <= k
      BY <1>2, <2>1 DEF Exact
    <3>2. k > 0 => k <= Len(f)
      BY <1>2, <2>2 DEF Exact, Told
    <3> QED
      BY <1>2, <3>1, <3>2
  <2>4. ASSUME NEW i \in 1..Len(g) PROVE g[i].cut = "none" /\ t[i] = g[i].id
    <3>1. CASE i <= Len(f)
      <4>1. g[i] = f[i] /\ i \in 1..Len(f)
        BY <1>2, <1>3, <3>1
      <4>2. t[i] = Tells(f[i]) /\ f[i].cut = "none"
        BY <1>5, <2>1, <4>1 DEF Exact
      <4> QED
        BY <4>1, <4>2 DEF Tells
    <3>2. CASE ~(i <= Len(f))
      <4>1. i - Len(f) \in 1..Len(p) /\ k + (i - Len(f)) = i
        BY <1>1, <1>2, <2>3, <3>2
      <4>2. g[i] = Record(p[i - Len(f)], "none")
        BY <1>1, <3>2
      <4>3. p[i - Len(f)] \in Item /\ p[i - Len(f)] = t[i]
        BY <4>1, ElementOfSeq DEF Follows
      <4> QED
        BY <4>2, <4>3, RecordIs
    <3> QED
      BY <3>1, <3>2
  <2>5. \A i \in 1..Len(g) : Told(g, i) /\ t[i] = Tells(g[i])
    BY <1>1, <1>2, <2>4 DEF Told, Tells
  <2>6. Len(g) = k + Len(p)
    BY <1>1, <2>3
  <2> QED
    BY <1>1, <1>2, <2>5, <2>6 DEF Exact
<1>6. CASE ~ \A i \in 1..Len(f) : f[i].cut = "none"
  <2>1. CASE Len(p) = 0
    <3>1. g = f
      BY <1>1, <1>2, <1>3, <2>1, SeqEqual
    <3>2. k + Len(p) = k
      BY <1>2, <2>1
    <3> QED
      BY <1>1, <3>1, <3>2
  <2>2. CASE Len(p) # 0
    <3>1. PICK j \in 1..Len(f) : f[j].cut # "none"
      BY <1>6
    <3>2. j \in 1..Len(g) /\ j # Len(g) /\ g[j].cut # "none"
      BY <1>1, <1>2, <1>3, <2>2, <3>1
    <3>3. ~NoneBehind(g)
      BY <3>2 DEF NoneBehind
    <3>4. ASSUME NEW i \in 1..Len(g), Told(g, i)
          PROVE  i <= k + Len(p) /\ t[i] = Tells(g[i])
      <4>1. i <= Len(f)
        BY <1>1, <1>2, <3>1, <3>2, <3>4 DEF Told
      <4>2. i \in 1..Len(f) /\ g[i] = f[i]
        BY <1>2, <1>3, <4>1
      <4>3. i <= k /\ t[i] = Tells(f[i])
        BY <1>4, <3>4, <4>2 DEF Exact
      <4> QED
        BY <1>2, <4>2, <4>3
    <3> QED
      BY <1>1, <1>2, <3>3, <3>4 DEF Exact
  <2> QED
    BY <2>1, <2>2
<1> QED
  BY <1>5, <1>6

\* New writes in memory change nothing in what the file tells of,
LEMMA ExactLonger ==
    ASSUME NEW f, NEW k, NEW t \in Seq(Item), NEW u \in Seq(Item), Len(t) <= Len(u),
           \A i \in 1..Len(t) : u[i] = t[i], Exact(f, t, k)
    PROVE  Exact(f, u, k)
<1>1. Len(t) \in Nat /\ Len(u) \in Nat /\ k \in 0..Len(t)
  BY LenProperties DEF Exact
<1>2. ASSUME NEW i \in 1..Len(f), Told(f, i) PROVE i <= k /\ u[i] = Tells(f[i])
  <2>1. i <= k /\ t[i] = Tells(f[i]) /\ i \in Int /\ 1 <= i
    BY <1>2 DEF Exact
  <2> QED
    BY <1>1, <2>1
<1> QED
  BY <1>1, <1>2 DEF Exact

\* or of what follows it.
LEMMA FollowsLonger ==
    ASSUME NEW p \in Seq(Item), NEW k \in Nat, NEW t \in Seq(Item), NEW u \in Seq(Item),
           Len(t) <= Len(u), \A i \in 1..Len(t) : u[i] = t[i], Follows(p, t, k)
    PROVE  Follows(p, u, k)
<1>1. Len(t) \in Nat /\ Len(u) \in Nat /\ Len(p) \in Nat
  BY LenProperties
<1>2. k + Len(p) <= Len(t) /\ \A i \in 1..Len(p) : p[i] = t[k + i]
  BY DEF Follows
<1>3. k + Len(p) <= Len(u)
  BY <1>1, <1>2
<1>4. ASSUME NEW i \in 1..Len(p) PROVE p[i] = u[k + i]
  <2>1. k + i \in 1..Len(t)
    BY <1>1, <1>2
  <2> QED
    BY <1>2, <2>1
<1> QED
  BY <1>3, <1>4 DEF Follows

\* A file that tells of the first k writes exactly tells of a beginning of them.
LEMMA ExactWeak ==
    ASSUME NEW f, NEW k, NEW t \in Seq(Item), Len(f) \in Nat, Exact(f, t, k)
    PROVE  Weak(f, t) /\ AtLeast(f, t, k)
<1>1. Len(t) \in Nat /\ k \in 0..Len(t)
  BY LenProperties DEF Exact
<1> QED
  BY <1>1 DEF Exact, Weak, AtLeast, Told

\* What a kill leaves of the log are records,
LEMMA KilledIs ==
    ASSUME LogOK, NEW f \in AfterKill
    PROVE  /\ f \in Seq(Rec) /\ (~split => f = log)
           /\ split => \E cut \in Cut :
                /\ Len(f) = Len(log) + 1 /\ f[Len(log) + 1].cut = cut
                /\ f[Len(log) + 1].id = pending[1] /\ 1 \in 1..Len(pending)
                /\ \A i \in 1..Len(log) : f[i] = log[i]
<1>1. Len(log) \in Nat /\ Len(pending) \in Nat
  BY LenProperties DEF LogOK
<1>2. CASE ~split
  BY <1>2 DEF AfterKill, LogOK
<1>3. CASE split
  <2>1. PICK cut \in Cut : f = Append(log, Record(Head(pending), cut))
    BY <1>3 DEF AfterKill
  <2>2. Len(pending) > 0 /\ Head(pending) = pending[1] /\ pending[1] \in Item
    BY <1>3, EmptySeq, HeadTailProperties, ElementOfSeq DEF LogOK
  <2>3. PICK r \in Rec : r = Record(Head(pending), cut) /\ r.id = pending[1] /\ r.cut = cut
    BY <2>2, RecordIs
  <2>4. /\ f \in Seq(Rec) /\ Len(f) = Len(log) + 1
        /\ (\A i \in 1..Len(log) : f[i] = log[i]) /\ f[Len(log) + 1] = r
    BY <1>1, <2>1, <2>3, AppendProperties DEF LogOK
  <2> QED
    BY <1>1, <1>3, <2>2, <2>3, <2>4
<1> QED
  BY <1>2, <1>3

\* which tell of a beginning of memory, and of all that had left the buffer.
LEMMA KilledTells ==
    ASSUME LogOK, NEW t \in Seq(Item), NEW k, Exact(log, t, k), Follows(pending, t, k),
           NEW f \in AfterKill
    PROVE  Weak(f, t) /\ AtLeast(f, t, k)
<1>1. /\ Len(log) \in Nat /\ Len(pending) \in Nat /\ Len(t) \in Nat /\ k \in 0..Len(t)
  BY LenProperties DEF LogOK, Exact
<1>2. CASE ~split
  BY <1>1, <1>2, KilledIs, ExactWeak
<1>3. CASE split
  <2>1. PICK cut \in Cut :
          /\ Len(f) = Len(log) + 1 /\ f[Len(log) + 1].cut = cut
          /\ f[Len(log) + 1].id = pending[1] /\ 1 \in 1..Len(pending)
          /\ \A i \in 1..Len(log) : f[i] = log[i]
    BY <1>3, KilledIs
  <2>2. ASSUME NEW i \in 1..Len(log) PROVE Told(f, i) <=> Told(log, i)
    <3>1. f[i] = log[i] /\ \A j \in 1..(i - 1) : f[j] = log[j]
      BY <1>1, <2>1
    <3> QED
      BY <1>1, <2>1, <3>1 DEF Told
  <2>3. AtLeast(f, t, k)
    <3> SUFFICES ASSUME NoneBehind(f), NEW i \in 1..k PROVE Told(f, i) /\ t[i] = Tells(f[i])
      BY DEF AtLeast
    <3>1. NoneBehind(log)
      BY <1>1, <2>1 DEF NoneBehind
    <3>2. Told(log, i) /\ i \in 1..Len(log)
      BY <3>1 DEF Exact, Told
    <3>3. t[i] = Tells(log[i])
      BY <3>2 DEF Exact
    <3> QED
      BY <2>1, <2>2, <3>2, <3>3
  <2>4. ASSUME NEW i \in 1..Len(f), Told(f, i)
        PROVE  i <= Len(t) /\ (f[i].cut = "dollar" \/ t[i] = Tells(f[i]))
    <3>1. CASE i <= Len(log)
      <4>1. i \in 1..Len(log) /\ Told(log, i)
        BY <1>1, <2>2, <2>4, <3>1
      <4>2. i <= k /\ t[i] = Tells(log[i])
        BY <4>1 DEF Exact
      <4> QED
        BY <1>1, <2>1, <4>1, <4>2
    <3>2. CASE ~(i <= Len(log))
      <4>1. i = Len(log) + 1
        BY <1>1, <2>1, <3>2
      <4>2. \A j \in 1..Len(log) : log[j].cut = "none"
        BY <1>1, <2>1, <2>4, <4>1 DEF Told
      <4>3. NoneBehind(log) /\ \A j \in 1..Len(log) : Told(log, j)
        BY <1>1, <4>2 DEF NoneBehind, Told
      <4>4. k = Len(log)
        <5>1. Len(log) > 0 => Len(log) <= k
          BY <1>1, <4>3 DEF Exact
        <5>2. k > 0 => k <= Len(log)
          BY <1>1, <4>3 DEF Exact, Told
        <5> QED
          BY <1>1, <5>1, <5>2
      <4>5. k + 1 <= Len(t) /\ pending[1] = t[k + 1]
        BY <1>1, <2>1 DEF Follows
      <4> QED
        BY <2>1, <4>1, <4>4, <4>5 DEF Tells
    <3> QED
      BY <3>1, <3>2
  <2> QED
    BY <2>3, <2>4 DEF Weak
<1> QED
  BY <1>2, <1>3

\* What a power loss leaves of a file tells of no more than the file.
LEMMA ShortenedTells ==
    ASSUME NEW f \in Seq(Rec), NEW g \in Shortened(f)
    PROVE  g \in Seq(Rec) /\ \A t : Weak(f, t) => Weak(g, t)
<1>1. Len(f) \in Nat /\ DOMAIN f = 1..Len(f) /\ \A i \in 1..Len(f) : f[i] \in Rec
  BY LenProperties, ElementOfSeq
<1>2. ASSUME NEW n \in 0..Len(f) PROVE
        /\ SubSeq(f, 1, n) \in Seq(Rec) /\ Len(SubSeq(f, 1, n)) = n
        /\ \A i \in 1..n : SubSeq(f, 1, n)[i] = f[i]
  <2>1. \A i \in 1..n : f[i] \in Rec
    BY <1>1
  <2> QED
    BY <1>1, <2>1, SubSeqProperties, Z3
<1>3. CASE g \in {SubSeq(f, 1, n) : n \in 0..Len(f)}
  <2>1. PICK n \in 0..Len(f) : g = SubSeq(f, 1, n)
    BY <1>3
  <2>2. g \in Seq(Rec) /\ Len(g) = n /\ \A i \in 1..n : g[i] = f[i]
    BY <1>2, <2>1
  <2>3. \A i \in 1..Len(g) : Told(g, i) => Told(f, i) /\ g[i] = f[i] /\ i \in 1..Len(f)
    BY <1>1, <2>2 DEF Told
  <2> QED
    BY <2>2, <2>3 DEF Weak
<1>4. CASE g \notin {SubSeq(f, 1, n) : n \in 0..Len(f)}
  <2> DEFINE Torn(n, cut) == Append(SubSeq(f, 1, n - 1), Record(f[n].id, cut))
             TornAt(n) == {Torn(n, cut) : cut \in Further(f[n].cut)}
             Short == {SubSeq(f, 1, n) : n \in 0..Len(f)}
  <2>1. PICK n \in 1..Len(f) : \E cut \in Further(f[n].cut) : g = Torn(n, cut)
    <3>1. Shortened(f) = Short \cup UNION {TornAt(n) : n \in DOMAIN f}
      BY DEF Shortened
    <3>2. g \notin Short
      BY <1>4
    <3>3. \E n \in DOMAIN f : g \in TornAt(n)
      <4> HIDE DEF TornAt, Short
      <4> QED
        BY <3>1, <3>2
    <3> QED
      BY <1>1, <3>3
  <2>2. PICK cut \in Further(f[n].cut) : g = Torn(n, cut)
    BY <2>1
  <2>3. f[n].cut \in Cut \cup {"none"} /\ f[n].id \in Item
    BY <1>1 DEF Rec
  <2>4. /\ cut \in Cut
        /\ cut \in {"end", "dollar"} => f[n].cut \in {"none", "end", "dollar"}
        /\ cut = "end" => f[n].cut # "dollar"
    BY <2>3 DEF Further, Cut
  <2>5. PICK h \in Seq(Rec) : h = SubSeq(f, 1, n - 1) /\ Len(h) = n - 1
                              /\ \A i \in 1..(n - 1) : h[i] = f[i]
    <3>1. n - 1 \in 0..Len(f)
      BY <1>1
    <3> QED
      BY <1>2, <3>1
  <2>6. PICK r \in Rec : r = Record(f[n].id, cut) /\ r.id = f[n].id /\ r.cut = cut
    BY <2>3, <2>4, RecordIs
  <2>7. /\ g \in Seq(Rec) /\ Len(g) = n
        /\ (\A i \in 1..(n - 1) : g[i] = f[i]) /\ g[n] = r
    BY <1>1, <2>2, <2>5, <2>6, AppendProperties
  <2>8. ASSUME NEW i \in 1..Len(g), Told(g, i)
        PROVE  /\ i \in 1..Len(f) /\ Told(f, i)
               /\ g[i].cut = "dollar" \/ (f[i].cut # "dollar" /\ Tells(g[i]) = Tells(f[i]))
    <3>1. i \in 1..Len(f) /\ \A j \in 1..(i - 1) : f[j].cut = "none"
      BY <1>1, <2>7, <2>8 DEF Told
    <3>2. CASE i # n
      <4>1. g[i] = f[i] /\ i < n
        BY <1>1, <2>7, <3>2
      <4> QED
        BY <2>8, <3>1, <4>1 DEF Told
    <3>3. CASE i = n
      <4>1. g[n].cut = cut /\ g[n].id = f[n].id /\ cut \in {"end", "dollar"}
        BY <2>4, <2>6, <2>7, <2>8, <3>3 DEF Told, Cut
      <4>2. Told(f, n)
        BY <2>4, <3>1, <3>3, <4>1 DEF Told
      <4>3. cut = "end" => f[n].cut # "dollar" /\ Tells(g[n]) = Tells(f[n])
        BY <2>4, <4>1 DEF Tells
      <4> QED
        BY <3>1, <3>3, <4>1, <4>2, <4>3
    <3> QED
      BY <3>2, <3>3
  <2> QED
    BY <2>7, <2>8 DEF Weak
<1> QED
  BY <1>3, <1>4

\* A log without a buffer is in order.
LEMMA EmptyBuffer ==
    ASSUME LogOK, (Logged' <=> Logged), UNCHANGED <<config, call>>, log' \in Seq(Rec),
           pending' = <<>>, split' = FALSE, unlogged' = 0, phase' = "down"
    PROVE  LogOK'
<1>1. pending' \in Seq(Item) /\ Len(pending') = 0
  BY EmptySeq
<1>2. call' \in Nat /\ config'.always \in BOOLEAN /\ (~Logged' => call' = 0)
  BY DEF LogOK
<1>3. unlogged' \in 0..call' /\ Len(pending') + unlogged' <= call'
  BY <1>1, <1>2
<1> QED
  BY <1>1, <1>2, <1>3 DEF LogOK

\* The log through a session: a call changes memory first,
LEMMA LogWrite ==
    ASSUME SaveInv, LogInv, NEW k \in 1..MaxRecords, Write(k)
    PROVE  LogInv'
<1>1. /\ phase = "open" /\ call = 0 /\ end = "clean" /\ UNCHANGED <<aofVars, config, phase, end>>
      /\ call' = (IF Logged THEN k ELSE 0) /\ unlogged' = call' /\ unlogged = 0 /\ k \in Nat
  BY Longer DEF Write, LogInv, LogOK, SaveInv, past
<1>2. (Logged' <=> Logged) /\ pending \in Seq(Item) /\ Len(pending) \in Nat
  BY <1>1, LenProperties DEF Logged, LogInv, LogOK
<1>3. LogOK'
  BY <1>1, <1>2 DEF LogInv, LogOK, aofVars
<1>4. ASSUME Logged PROVE Tracks'
  <2>1. PICK e \in Seq(Item) : Len(e) = k /\ mem' = mem \o e
    BY Longer DEF SaveInv
  <2>2. PICK t \in Seq(Item), u \in Seq(Item) :
          /\ t = mem /\ u = mem' /\ Len(u) = Len(t) + k
          /\ \A i \in 1..Len(t) : u[i] = t[i]
    <3>1. PICK t \in Seq(Item) : t = mem
      BY DEF SaveInv, DataOK
    <3>2. /\ t \o e \in Seq(Item) /\ Len(t \o e) = Len(t) + Len(e)
          /\ \A i \in 1..Len(t) + Len(e) : (t \o e)[i] = IF i <= Len(t) THEN t[i] ELSE e[i - Len(t)]
      BY ConcatProperties
    <3>3. Len(t) \in Nat /\ Len(e) \in Nat
      BY LenProperties
    <3>4. \A i \in 1..Len(t) : (t \o e)[i] = t[i]
      BY <3>2, <3>3
    <3> QED
      BY <2>1, <3>1, <3>2, <3>4
  <2>3. Len(t) \in Nat /\ Len(u) \in Nat /\ Len(t) <= Len(u)
    BY <1>1, <2>2, LenProperties
  <2>4. Now = t /\ Now' = u
    BY <1>1, <2>2 DEF Now
  <2>5. PICK n : n = Len(t) - Len(pending)
    OBVIOUS
  <2>6. InFile = n /\ InFile' = n
    BY <1>1, <1>2, <1>4, <2>2, <2>3, <2>4, <2>5 DEF InFile, aofVars
  <2>7. Exact(log, t, n) /\ Follows(pending, t, n) /\ n \in Nat
    BY <1>1, <1>4, <2>4, <2>6 DEF LogInv, Tracks, Exact
  <2>8. Exact(log, u, n) /\ Follows(pending, u, n)
    BY <1>2, <2>2, <2>3, <2>7, ExactLonger, FollowsLonger
  <2>9. log' = log /\ pending' = pending /\ end' = "clean"
    BY <1>1 DEF aofVars
  <2> QED
    BY <2>4, <2>6, <2>8, <2>9 DEF Tracks
<1> QED
  BY <1>2, <1>3, <1>4 DEF LogInv

\* hands its records to stdio,
LEMMA LogAppend ==
    ASSUME SaveInv, LogInv, AppendRecord
    PROVE  LogInv'
<1>1. /\ phase = "open" /\ end = "clean" /\ UNCHANGED <<log, split, config, phase, mem, call, last, end>>
      /\ unlogged \in Nat /\ unlogged > 0 /\ unlogged' = unlogged - 1 /\ call \in Nat /\ unlogged <= call
      /\ pending' = Append(pending, mem[Len(mem) - unlogged + 1])
  BY DEF AppendRecord, aof_append_len, LogInv, LogOK, past
<1>2. Logged /\ (Logged' <=> Logged)
  BY <1>1 DEF LogInv, LogOK, Logged
<1>3. PICK t \in Seq(Item) : t = mem /\ Now = t /\ Now' = t
  BY <1>1 DEF SaveInv, DataOK, Now
<1>4. PICK p \in Seq(Item) : p = pending
  BY DEF LogInv, LogOK
<1>5. Len(t) \in Nat /\ Len(p) \in Nat
  BY LenProperties
<1>6. PICK n \in Nat : n = InFile /\ Exact(log, t, n) /\ Follows(p, t, n)
  BY <1>1, <1>2, <1>3, <1>4 DEF LogInv, Tracks, Exact
<1>7. n = Len(t) - unlogged - Len(p)
  BY <1>3, <1>4, <1>6 DEF InFile
<1>8. PICK i : i = Len(t) - unlogged + 1
  OBVIOUS
<1>9. i \in 1..Len(t) /\ i = n + Len(p) + 1
  BY <1>1, <1>5, <1>7, <1>8
<1>10. PICK q \in Seq(Item) : /\ q = Append(p, t[i]) /\ Len(q) = Len(p) + 1 /\ q # <<>>
                              /\ (\A j \in 1..Len(p) : q[j] = p[j]) /\ q[Len(p) + 1] = t[i]
  <2>1. t[i] \in Item
    BY <1>9, ElementOfSeq
  <2> DEFINE a == Append(p, t[i])
  <2>2. /\ a \in Seq(Item) /\ a # <<>> /\ Len(a) = Len(p) + 1
        /\ (\A j \in 1..Len(p) : a[j] = p[j]) /\ a[Len(p) + 1] = t[i]
    BY <2>1, AppendProperties
  <2>3. a = Append(p, t[i])
    OBVIOUS
  <2> HIDE DEF a
  <2> QED
    BY <2>2, <2>3
<1>11. pending' = q
  <2>1. mem[Len(mem) - unlogged + 1] = t[i]
    BY <1>3, <1>8
  <2>2. pending' = Append(pending, t[i])
    BY <1>1, <2>1
  <2> QED
    BY <1>4, <1>10, <2>2
<1>12. InFile' = n
  <2>1. InFile' = Len(t) - (unlogged - 1) - Len(q)
    BY <1>1, <1>3, <1>11 DEF InFile
  <2> QED
    BY <1>1, <1>5, <1>7, <1>10, <2>1
<1>13. Follows(q, t, n)
  BY <1>5, <1>6, <1>9, <1>10 DEF Follows
<1>14. LogOK'
  <2>1. config'.always => Len(q) + unlogged' <= call'
    BY <1>1, <1>4, <1>5, <1>10 DEF LogInv, LogOK
  <2>2. unlogged' \in 0..call'
    BY <1>1
  <2> QED
    BY <1>1, <1>2, <1>10, <1>11, <2>1, <2>2 DEF LogInv, LogOK
<1> QED
  BY <1>1, <1>3, <1>6, <1>11, <1>12, <1>13, <1>14 DEF LogInv, Tracks

\* and returns.
LEMMA LogReturn ==
    ASSUME LogInv, Return
    PROVE  LogInv'
<1>1. /\ phase = "open" /\ end = "clean" /\ unlogged = 0 /\ call' = 0
      /\ UNCHANGED <<aofVars, config, phase, mem, unlogged, last, end>>
      /\ config.always => pending = <<>>
  BY DEF Return, LogInv, LogOK, past
<1>2. (Logged' <=> Logged) /\ Now' = Now /\ InFile' = InFile
  BY <1>1 DEF Logged, Now, InFile, aofVars
<1>3. LogOK'
  BY <1>1, <1>2, EmptySeq DEF LogInv, LogOK, aofVars
<1>4. Tracks => Tracks'
  BY <1>1, <1>2 DEF Tracks, aofVars
<1> QED
  BY <1>2, <1>3, <1>4 DEF LogInv

\* stdio writes out any part of the buffer,
LEMMA LogFlushed ==
    ASSUME SaveInv, LogInv, Flush
    PROVE  LogInv'
<1>1. PICK n \in 0..Len(pending), part \in BOOLEAN :
        /\ n > 0 \/ (part /\ ~split)
        /\ part => n < Len(pending)
        /\ log' = log \o WholeRecords(SubSeq(pending, 1, n))
        /\ pending' = SubSeq(pending, n + 1, Len(pending))
        /\ split' = part
  BY DEF Flush, WriteOut
<1>2. Len(pending) \in Nat /\ Len(log) \in Nat /\ \A i \in 1..Len(pending) : pending[i] \in Item
  BY LenProperties, ElementOfSeq DEF LogInv, LogOK
<1>3. PICK a \in Seq(Item) : /\ a = SubSeq(pending, 1, n) /\ Len(a) = n
                             /\ \A i \in 1..n : a[i] = pending[i]
  <2>1. n \in Int /\ 1 \in Int /\ \A i \in 1..n : pending[i] \in Item
    BY <1>2
  <2>2. /\ SubSeq(pending, 1, n) \in Seq(Item)
        /\ Len(SubSeq(pending, 1, n)) = IF 1 <= n THEN n - 1 + 1 ELSE 0
        /\ \A i \in 1..(n - 1 + 1) : SubSeq(pending, 1, n)[i] = pending[1 + i - 1]
    BY <2>1, SubSeqProperties
  <2>3. Len(SubSeq(pending, 1, n)) = n
    BY <1>2, <2>2
  <2>4. \A i \in 1..n : SubSeq(pending, 1, n)[i] = pending[i]
    BY <1>2, <2>2
  <2> QED
    BY <2>2, <2>3, <2>4
<1>4. PICK b \in Seq(Item) : /\ b = SubSeq(pending, n + 1, Len(pending)) /\ Len(b) = Len(pending) - n
                             /\ \A i \in 1..(Len(pending) - n) : b[i] = pending[n + i]
  <2> DEFINE rest == SubSeq(pending, n + 1, Len(pending))
  <2>1. n + 1 \in Int /\ Len(pending) \in Int /\ \A i \in (n + 1)..Len(pending) : pending[i] \in Item
    BY <1>2
  <2>2. /\ rest \in Seq(Item)
        /\ Len(rest) = IF n + 1 <= Len(pending) THEN Len(pending) - (n + 1) + 1 ELSE 0
        /\ \A i \in 1..(Len(pending) - (n + 1) + 1) : rest[i] = pending[n + 1 + i - 1]
    BY <2>1, SubSeqProperties
  <2> HIDE DEF rest
  <2>3. Len(rest) = Len(pending) - n
    BY <1>2, <2>2
  <2>4. \A i \in 1..(Len(pending) - n) : rest[i] = pending[n + i]
    BY <1>2, <2>2
  <2> QED
    BY <2>2, <2>3, <2>4 DEF rest
<1>5. log' = Join(log, a) /\ pending' = b
  BY <1>1, <1>3, <1>4 DEF Join
<1>6. /\ UNCHANGED <<config, phase, mem, unlogged, call, last, end>> /\ phase # "down"
      /\ end = "clean" /\ unlogged \in Nat
  BY DEF Flush, memVars, past, LogInv, LogOK
<1>7. (Logged' <=> Logged) /\ Now' = Now /\ Now \in Seq(Item)
  BY <1>6 DEF Logged, Now, SaveInv, DataOK
<1>8. LogOK'
  <2>1. log' \in Seq(Rec)
    BY <1>5, JoinAt DEF LogInv, LogOK
  <2>2. split' => pending' # <<>>
    <3>1. split' => Len(b) # 0
      BY <1>1, <1>2, <1>4
    <3> QED
      BY <1>5, <3>1, EmptySeq
  <2>3. Len(b) <= Len(pending) /\ Len(b) \in Nat
    BY <1>2, <1>4
  <2>4. LogOK
    BY DEF LogInv
  <2>5. config.always => Len(b) + unlogged <= call
    <3>1. call \in Nat /\ Len(pending) \in Nat /\ (config.always => Len(pending) + unlogged <= call)
      BY <1>2, <2>4 DEF LogOK
    <3> QED
      BY <1>6, <2>3, <3>1
  <2>6. pending' \in Seq(Item) /\ split' \in BOOLEAN
    BY <1>1, <1>2, <1>5
  <2>7. config.always' = config.always
    BY <1>6
  <2>8. (config.always => Len(pending) + unlogged <= call)'
    BY <1>5, <1>6, <2>5
  <2> QED
    BY <1>6, <1>7, <2>1, <2>2, <2>4, <2>6, <2>7, <2>8 DEF LogOK
<1>9. ASSUME Logged PROVE Tracks'
  <2>1. PICK k \in Nat : k = InFile /\ Exact(log, Now, k) /\ Follows(pending, Now, k)
    BY <1>6, <1>9 DEF LogInv, Tracks, Exact
  <2>2. /\ Len(Now) \in Nat /\ n \in Nat /\ n <= Len(pending) /\ unlogged \in Nat
        /\ k = Len(Now) - unlogged - Len(pending) /\ Len(b) = Len(pending) - n
    BY <1>2, <1>4, <1>6, <1>7, <2>1, LenProperties DEF InFile
  <2>3. Follows(a, Now, k)
    BY <1>2, <1>3, <2>1, <2>2 DEF Follows
  <2>4. Exact(Join(log, a), Now, k + n)
    <3>1. Exact(Join(log, a), Now, k + Len(a))
      BY <1>7, <2>1, <2>3, Extend DEF LogInv, LogOK
    <3> QED
      BY <1>3, <3>1
  <2>5. Follows(b, Now, k + n)
    <3>1. (k + n) + Len(b) <= Len(Now)
      <4>1. k \in Nat /\ Len(pending) \in Nat
        BY <1>2
      <4> QED
        BY <2>2, <4>1
    <3>2. ASSUME NEW i \in 1..Len(b) PROVE b[i] = Now[(k + n) + i]
      <4>1. n + i \in 1..Len(pending) /\ k + (n + i) = (k + n) + i /\ i \in 1..(Len(pending) - n)
        <5>1. n \in Nat /\ Len(pending) \in Nat /\ n <= Len(pending)
          BY <1>2, <2>2
        <5>2. i \in 1..(Len(pending) - n)
          BY <2>2
        <5> QED
          BY <5>1, <5>2
      <4>2. b[i] = pending[n + i]
        BY <1>4, <4>1
      <4>3. pending[n + i] = Now[k + (n + i)]
        BY <2>1, <4>1 DEF Follows
      <4> QED
        BY <4>1, <4>2, <4>3
    <3> QED
      BY <3>1, <3>2 DEF Follows
  <2>6. InFile' = k + n
    <3>1. InFile' = Len(Now) - unlogged - Len(b)
      BY <1>5, <1>6, <1>7 DEF InFile
    <3> QED
      BY <1>2, <2>2, <3>1
  <2> QED
    BY <1>5, <1>6, <1>7, <2>4, <2>5, <2>6 DEF Tracks
<1> QED
  BY <1>7, <1>8, <1>9 DEF LogInv

\* Steps of savers and the start of a close leave the log alone,
LEMMA LogStays ==
    ASSUME LogInv, UNCHANGED <<aofVars, config, memVars, last, end>>,
           \/ phase' = phase
           \/ phase = "open" /\ unlogged = 0 /\ phase' # "down"
           \/ phase \notin {"open", "down"} /\ phase' \notin {"open", "down"}
    PROVE  LogInv'
<1>1. UNCHANGED <<log, pending, split, config, mem, call, unlogged, last, end>>
  BY DEF aofVars, memVars
<1>2. (Logged' <=> Logged) /\ Now' = Now
  BY <1>1 DEF Logged, Now
<1>3. LogOK' /\ InFile' = InFile
  BY <1>1, <1>2 DEF LogInv, LogOK, InFile
<1>4. Tracks => Tracks'
  BY <1>1, <1>2, <1>3 DEF Tracks
<1> QED
  BY <1>2, <1>3, <1>4 DEF LogInv

\* and a close writes out the rest.
LEMMA LogClosed ==
    ASSUME SaveInv, LogInv, Closed
    PROVE  LogInv'
<1>1. /\ phase = "saved" /\ phase' = "down" /\ end = "clean" /\ end' = "clean" /\ last' = mem
      /\ UNCHANGED <<config, call, unlogged>> /\ unlogged = 0
      /\ log' = Join(log, pending) /\ pending' = <<>> /\ split' = FALSE
  BY DEF Closed, Ended, aof_close, Join, LogInv, LogOK
<1>2. (Logged' <=> Logged) /\ Now' = Now /\ Now \in Seq(Item)
  BY <1>1 DEF Logged, Now, SaveInv, DataOK
<1>3. PICK p \in Seq(Item) : p = pending /\ Len(p) \in Nat
  BY LenProperties DEF LogInv, LogOK
<1>4. LogOK'
  <2>1. log' \in Seq(Rec)
    BY <1>1, JoinAt DEF LogInv, LogOK
  <2> QED
    BY <1>1, <1>2, <2>1, EmptyBuffer DEF LogInv
<1>5. ASSUME Logged PROVE Tracks'
  <2>1. PICK k \in Nat : k = InFile /\ Exact(log, Now, k) /\ Follows(p, Now, k)
    BY <1>1, <1>3, <1>5 DEF LogInv, Tracks, Exact
  <2>2. Exact(Join(log, p), Now, k + Len(p))
    BY <1>2, <2>1, Extend DEF LogInv, LogOK
  <2>3. Len(Now) \in Nat /\ k + Len(p) = Len(Now)
    BY <1>1, <1>2, <1>3, <2>1, LenProperties DEF InFile
  <2>4. InFile' = Len(Now)
    BY <1>1, <1>2, <2>3, EmptySeq DEF InFile
  <2>5. Follows(<<>>, Now, Len(Now))
    BY <2>3, EmptySeq DEF Follows
  <2> QED
    BY <1>1, <1>2, <1>3, <2>2, <2>3, <2>4, <2>5 DEF Tracks
<1> QED
  BY <1>2, <1>4, <1>5 DEF LogInv

\* What a crash leaves tells of nothing that was not in memory; if every record is
\* flushed at once, a kill leaves all that returned calls have made.
LEMMA LogCrash ==
    ASSUME SaveInv, LogInv, Kill \/ PowerLoss
    PROVE  LogInv'
<1>1. /\ phase' = "down" /\ last' = Now /\ UNCHANGED <<config, call>> /\ unlogged' = 0
      /\ pending' = <<>> /\ split' = FALSE
      /\ \/ end' = "kill" /\ phase # "down" /\ log' \in AfterKill
         \/ end' = "power" /\ \E f \in AfterKill : log' \in Shortened(f)
  <2>1. CASE Kill
    BY <2>1 DEF Kill, Ended, aof_crash, Now
  <2>2. CASE PowerLoss
    BY <2>2 DEF PowerLoss, Ended, aof_crash, Now
  <2> QED
    BY <2>1, <2>2
<1>2. (Logged' <=> Logged) /\ Now' = Now /\ Now \in Seq(Item)
  BY <1>1 DEF Logged, Now, SaveInv, DataOK
<1>3. ASSUME NEW f \in AfterKill PROVE f \in Seq(Rec) /\ (Logged => Weak(f, Now))
  <2>1. f \in Seq(Rec)
    BY KilledIs DEF LogInv
  <2>2. CASE end = "clean"
    BY <1>2, <2>1, <2>2, KilledTells DEF LogInv, Tracks
  <2>3. CASE end # "clean"
    <3>1. f = log
      BY <2>3, KilledIs DEF LogInv, LogOK
    <3> QED
      BY <2>1, <2>3, <3>1 DEF LogInv, Tracks
  <2> QED
    BY <2>2, <2>3, <2>1
<1>4. log' \in Seq(Rec) /\ (Logged => Weak(log', Now))
  <2>1. CASE log' \in AfterKill
    BY <1>3, <2>1
  <2>2. ASSUME NEW f \in AfterKill, log' \in Shortened(f)
        PROVE  log' \in Seq(Rec) /\ (Logged => Weak(log', Now))
    <3>1. f \in Seq(Rec) /\ (Logged => Weak(f, Now))
      BY <1>3
    <3>2. PICK g \in Shortened(f) : g = log'
      BY <2>2
    <3> QED
      BY <3>1, <3>2, ShortenedTells
  <2> QED
    BY <1>1, <2>1, <2>2
<1>5. LogOK'
  BY <1>1, <1>2, <1>4, EmptyBuffer DEF LogInv
<1>6. ASSUME Logged, end' = "kill", config.always PROVE AtLeast(log', Now, Len(Now) - call)
  <2>1. end = "clean" /\ log' \in AfterKill
    BY <1>1, <1>6 DEF LogInv, LogOK
  <2>2. PICK k \in Nat : k = InFile /\ Exact(log, Now, k) /\ Follows(pending, Now, k)
    BY <1>6, <2>1 DEF LogInv, Tracks, Exact
  <2>3. AtLeast(log', Now, k)
    BY <1>2, <2>1, <2>2, KilledTells DEF LogInv
  <2>4. /\ Len(Now) \in Nat /\ Len(pending) \in Nat /\ unlogged \in Nat /\ call \in Nat
        /\ Len(pending) + unlogged <= call
    BY <1>2, <1>6, LenProperties DEF LogInv, LogOK
  <2>5. Len(Now) - call <= k
    BY <2>2, <2>4 DEF InFile
  <2>6. \A i \in 1..(Len(Now) - call) : i \in 1..k
    BY <2>2, <2>4, <2>5
  <2> QED
    BY <2>3, <2>6 DEF AtLeast
<1>7. Logged => Tracks'
  BY <1>1, <1>2, <1>4, <1>6 DEF Tracks
<1> QED
  BY <1>2, <1>5, <1>7 DEF LogInv

-----------------------------------------------------------------------------
(* What an open finds. *)

DataInv == SaveInv /\ LogInv

\* An idle store's snapshot is whole or broken.
LEMMA LoadedIs ==
    ASSUME SaveInv, ~Saving, ~broken
    PROVE  Loaded = Kept(rdb)
<1>1. \A s \in Saver : fd[s] = None
  BY FreshIdle DEF SaveInv
<1>2. rdb # None => inode[rdb].state = "synced"
  BY <1>1 DEF SaveInv, Inv, FilesOK, FileOK, NamesTended, Tended, Referred
<1> QED
  BY <1>2 DEF Loaded, Kept

\* Opening a store preserves all of it, in every mode: memory becomes what is loaded.
LEMMA OpenOK ==
    ASSUME DataInv, Open
    PROVE  DataInv'
<1>1. /\ phase = "down" /\ phase' = "open" /\ last' = <<>> /\ end' = "clean"
      /\ call' = 0 /\ unlogged' = 0
      /\ UNCHANGED <<aofVars, config, writes, saved, durable>> /\ ~Saving
  BY DEF Open, DataInv, SaveInv, DataOK
<1>2. CASE config.mode = "rdb" /\ mem' = Loaded /\ rdb_load
  <2>1. Files(inode) /\ Referred' \subseteq Referred
    BY <1>2 DEF rdb_load, Referred
  <2>2. Inv' /\ SnapsStay
    BY <1>2, <2>1, RdbLoadOK, FilesKept DEF DataInv, SaveInv, Inv, SnapsStay
  <2>3. UNCHANGED <<pc, fd, rdb, rdbDisk, broken>> /\ ~Saving'
    BY <1>1, <1>2 DEF rdb_load, Saving
  <2>4. Kept(rdb)' = Kept(rdb) /\ Kept(rdbDisk)' = Kept(rdbDisk)
    BY <2>2, <2>3, KeptSame
  <2>5. mem' \in Seq(Item)
    <3>1. <<Garbled>> \in Seq(Item)
      BY DEF Item
    <3>2. rdb # None => inode[rdb].snap \in Seq(Item)
      BY DEF DataInv, SaveInv, DataOK, Inv, FilesOK, Referred
    <3> QED
      BY <1>2, <3>1, <3>2, EmptySeq DEF Loaded
  <2>6. DataOK'
    BY <1>1, <2>2, <2>3, <2>5, EmptySeq DEF DataInv, SaveInv, DataOK, SnapsStay
  <2>7. Fresh'
    BY <2>2, <2>3 DEF Fresh, Saving, Inv, FilesOK
  <2>8. ~broken /\ Chain => Chain'
    <3>1. Now' = mem'
      BY <1>1 DEF Now
    <3>2. ~broken => mem' = Kept(rdb)
      BY <1>1, <1>2, LoadedIs DEF DataInv
    <3> QED
      BY <1>1, <2>4, <2>5, <3>1, <3>2, PrefixSelf DEF Chain
  <2>9. LogInv'
    <3>1. ~Logged'
      BY <1>1, <1>2 DEF Logged
    <3> QED
      BY <1>1, <3>1, EmptySeq DEF DataInv, LogInv, LogOK, aofVars
  <2> QED
    BY <1>1, <2>2, <2>3, <2>6, <2>7, <2>8, <2>9 DEF DataInv, SaveInv
<1>3. CASE Logged /\ mem' \in Replayed /\ UNCHANGED rdbVars
  <2>1. Inv' /\ SnapsStay /\ Referred' = Referred /\ ~Saving'
    BY <1>1, <1>3, Undisturbed DEF DataInv, SaveInv
  <2>2. mem' \in Seq(Item) /\ Begins(log, mem') /\ (Sound => Ends(log, mem'))
    <3>1. PICK got \in Replayed : got = mem'
      BY <1>3
    <3> QED
      BY <3>1, Replays DEF DataInv, LogInv, LogOK
  <2>3. DataOK'
    BY <1>1, <2>1, <2>2, EmptySeq DEF DataInv, SaveInv, DataOK, SnapsStay
  <2>4. Fresh'
    BY <2>1 DEF Fresh, Saving, Inv, FilesOK
  <2>5. SaveInv'
    BY <1>1, <1>3, <2>1, <2>3, <2>4 DEF SaveInv, Logged
  <2>6. LogOK'
    BY <1>1, <1>3, EmptySeq DEF DataInv, LogInv, LogOK, aofVars, Logged
  <2>7. /\ pending' = <<>> /\ Now' = mem' /\ log' = log /\ Len(mem') \in Nat
        /\ InFile' = Len(mem')
    <3>1. pending' = <<>> /\ Now' = mem' /\ log' = log /\ Len(mem') \in Nat
      BY <1>1, <2>2, LenProperties DEF Now, DataInv, LogInv, LogOK, aofVars
    <3> QED
      BY <1>1, <3>1, EmptySeq DEF InFile
  <2>8. NoneBehind(log) => Sound
    BY LenProperties DEF NoneBehind, Sound, DataInv, LogInv, LogOK
  <2>9. Exact(log, mem', Len(mem'))
    BY <2>2, <2>7, <2>8 DEF Exact, Begins, Ends
  <2>10. Follows(<<>>, mem', Len(mem'))
    BY <2>7, EmptySeq DEF Follows
  <2>11. Tracks'
    BY <1>1, <2>7, <2>9, <2>10 DEF Tracks
  <2> QED
    BY <2>5, <2>6, <2>11 DEF DataInv, LogInv
<1> QED
  BY <1>2, <1>3 DEF Open

\* The first state satisfies the invariant.
LEMMA InitData == Init => DataInv
<1> SUFFICES ASSUME Init PROVE DataInv
  OBVIOUS
<1>1. Inv /\ ~Saving /\ Fresh
  BY InitOK, FreshIdle DEF Init, RdbInit, Saving
<1>2. /\ config \in Config /\ phase = "down" /\ end = "clean" /\ writes = 0
      /\ mem = <<>> /\ saved = <<>> /\ durable = <<>> /\ last = <<>>
      /\ call = 0 /\ unlogged = 0
      /\ rdb = None /\ rdbDisk = None /\ Referred = {}
      /\ log = <<>> /\ pending = <<>> /\ split = FALSE
  BY DEF Init, RdbInit, AofInit, Referred
<1>3. config.mode \in Mode /\ config.always \in BOOLEAN
  BY <1>2, DurabilityAssumption
<1>4. DataOK
  BY <1>1, <1>2, <1>3, EmptySeq DEF DataOK
<1>5. Chain
  BY <1>2, PrefixSelf, EmptySeq DEF Chain, Kept, Now
<1>6. LogOK
  <2>1. <<>> \in Seq(Rec) /\ <<>> \in Seq(Item) /\ Len(<<>>) = 0
    BY EmptySeq
  <2>2. Len(pending) + unlogged <= call /\ unlogged \in 0..call
    BY <1>2, <2>1
  <2> QED
    BY <1>2, <1>3, <2>1, <2>2 DEF LogOK
<1>7. /\ Now = <<>> /\ InFile = 0 /\ Len(<<>>) = 0
  BY <1>2, EmptySeq DEF Now, InFile
<1>8. Exact(<<>>, <<>>, 0) /\ Follows(<<>>, <<>>, 0)
  BY <1>7 DEF Exact, Follows
<1>9. Tracks
  BY <1>2, <1>7, <1>8 DEF Tracks
<1> QED
  BY <1>1, <1>4, <1>5, <1>6, <1>9 DEF DataInv, SaveInv, LogInv

\* Every step preserves it.
LEMMA DataStep == DataInv /\ [Next]_vars => DataInv'
<1> SUFFICES ASSUME DataInv, [Next]_vars PROVE DataInv'
  OBVIOUS
<1>1. SaveInv /\ LogInv
  BY DEF DataInv
<1>2. ASSUME NEW k \in 1..MaxRecords, Write(k) PROVE DataInv'
  BY <1>1, <1>2, WriteOK, LogWrite DEF DataInv
<1>3. CASE AppendRecord \/ Return \/ Flush
  BY <1>1, <1>3, FlushOrCloseOK, LogAppend, LogReturn, LogFlushed DEF DataInv
<1>4. CASE Open
  BY <1>4, OpenOK
<1>5. CASE Close
  <2>1. LogInv'
    BY <1>1, <1>5, LogStays DEF Close, past, LogInv, LogOK
  <2> QED
    BY <1>1, <1>5, <2>1, FlushOrCloseOK DEF DataInv
<1>6. CASE Closed
  BY <1>1, <1>6, ClosedOK, LogClosed DEF DataInv
<1>7. CASE Kill \/ PowerLoss
  BY <1>1, <1>7, CrashOK, LogCrash DEF DataInv
<1>8. ASSUME NEW s \in Saver, BeginSave(s) \/ SaveStep(s) \/ FinishSave(s) PROVE DataInv'
  <2>1. LogInv'
    BY <1>1, <1>8, LogStays DEF BeginSave, SaveStep, FinishSave, past
  <2>2. CASE BeginSave(s)
    BY <1>1, <2>1, <2>2, BeginSaveOK DEF DataInv
  <2>3. CASE SaveStep(s)
    BY <1>1, <2>1, <2>3, OpenTmpSaves, MiddleSaves, RenameSaves DEF DataInv, SaveStep, memVars, past
  <2>4. CASE FinishSave(s)
    BY <1>1, <2>1, <2>4, FinishSaveOK DEF DataInv
  <2> QED
    BY <1>8, <2>2, <2>3, <2>4
<1>9. CASE UNCHANGED vars
  <2>1. LogInv'
    BY <1>1, <1>9, LogStays DEF vars, past
  <2> QED
    BY <1>1, <1>9, <2>1, FlushOrCloseOK DEF DataInv
<1> QED
  BY <1>2, <1>3, <1>4, <1>5, <1>6, <1>7, <1>8, <1>9 DEF Next

\* So it always holds.
LEMMA Invariance == Spec => []DataInv
BY InitData, DataStep, PTL DEF Spec

\* Only opening a store leads from a closed one to an open one.
LEMMA OpeningOpens == [Next]_vars /\ Opening => Open
BY DEF Next, vars, Opening, Write, AppendRecord, Return, Flush, Close, Closed, Kill, PowerLoss, Ended,
       BeginSave, SaveStep, FinishSave

\* A store in rdb mode comes back with all that its last successful save held, and
\* with nothing that was never in memory, wherever the process stopped; where the
\* machine did, with all that the last save held which could sync the directory.
THEOREM SavesSurvive == Spec => SavedSurvives
<1>1. ASSUME DataInv, [Next]_vars, Opening, config.mode = "rdb", ~broken
      PROVE  IsPrefix(saved, mem') /\ IsPrefix(mem', last)
  <2>1. Open /\ SaveInv /\ phase = "down"
    BY <1>1, OpeningOpens DEF DataInv, Opening
  <2>2. mem' = Kept(rdb)
    BY <1>1, <2>1, LoadedIs DEF Open, Logged, SaveInv, DataOK
  <2>3. Now = last /\ Chain
    BY <1>1, <2>1 DEF Now, SaveInv
  <2> QED
    BY <2>2, <2>3 DEF Chain
<1>2. DataInv /\ [Next]_vars =>
        [Opening /\ config.mode = "rdb" /\ ~broken => IsPrefix(saved, mem') /\ IsPrefix(mem', last)]_vars
  BY <1>1
<1> QED
  BY <1>2, Invariance, PTL DEF Spec, SavedSurvives

\* The log brings back a beginning of what was in memory, so no write without those
\* before it, the last perhaps with an empty argument; all of it after a clean
\* close; and after a kill, if every record is flushed at once, all that calls made
\* which had returned.
THEOREM LogsSurvive == Spec => LogSurvives
<1>1. ASSUME DataInv, [Next]_vars, Opening, Logged, Sound
      PROVE  /\ \A i \in DOMAIN mem' :
                   /\ i <= Len(last)
                   /\ mem'[i] = last[i] \/ (i = Len(log) /\ log[i].cut = "dollar")
             /\ end = "clean" => mem' = last
             /\ end = "kill" /\ config.always => IsPrefix(Done, mem')
  <2>1. /\ Open /\ phase = "down" /\ pending = <<>> /\ unlogged = 0
        /\ log \in Seq(Rec) /\ call \in Nat /\ last \in Seq(Item) /\ Tracks
    BY <1>1, OpeningOpens DEF DataInv, Opening, LogInv, LogOK, SaveInv, DataOK
  <2>2. PICK got \in Replayed : got = mem'
    BY <1>1, <2>1 DEF Open, Logged
  <2>3. got \in Seq(Item) /\ Begins(log, got) /\ Ends(log, got)
    BY <1>1, <2>1, Replays
  <2>4. Len(got) \in Nat /\ Len(last) \in Nat /\ Len(log) \in Nat /\ Now = last
    BY <2>1, <2>3, LenProperties DEF Now
  <2>5. end = "clean" => Exact(log, last, Len(last))
    <3>1. InFile = Len(last)
      BY <2>1, <2>4, EmptySeq DEF InFile
    <3> QED
      BY <2>1, <2>4, <3>1 DEF Tracks
  <2>6. Weak(log, last)
    BY <2>1, <2>4, <2>5, ExactWeak DEF Tracks
  <2>7. NoneBehind(log)
    BY <1>1, <2>4 DEF Sound, NoneBehind
  <2>8. ASSUME NEW i \in 1..Len(got)
        PROVE  i <= Len(last) /\ (got[i] = last[i] \/ (i = Len(log) /\ log[i].cut = "dollar"))
    <3>1. Told(log, i) /\ i \in 1..Len(log)
      BY <2>3 DEF Ends, Told
    <3>2. got[i] = Tells(log[i])
      BY <2>3, <3>1 DEF Begins
    <3>3. i <= Len(last) /\ (log[i].cut = "dollar" \/ last[i] = Tells(log[i]))
      BY <2>6, <3>1 DEF Weak
    <3>4. log[i].cut = "dollar" => i = Len(log)
      BY <2>7, <3>1 DEF NoneBehind
    <3> QED
      BY <3>2, <3>3, <3>4
  <2>9. ASSUME end = "clean" PROVE got = last
    <3>1. \A i \in 1..Len(last) : Told(log, i) /\ i \in 1..Len(log) /\ last[i] = Tells(log[i])
      BY <2>5, <2>7, <2>9 DEF Exact, Told
    <3>2. \A i \in 1..Len(last) : i <= Len(got) /\ got[i] = last[i]
      BY <2>3, <3>1 DEF Begins
    <3>3. Len(last) <= Len(got)
      <4>1. Len(last) > 0 => Len(last) \in 1..Len(last)
        BY <2>4
      <4> QED
        BY <2>4, <3>2, <4>1
    <3>4. Len(got) <= Len(last)
      <4>1. Len(got) > 0 => Len(got) \in 1..Len(got)
        BY <2>4
      <4> QED
        BY <2>4, <2>8, <4>1
    <3>5. Len(got) = Len(last) /\ \A i \in 1..Len(got) : got[i] = last[i]
      BY <2>4, <3>2, <3>3, <3>4
    <3> QED
      BY <2>1, <2>3, <3>5, SeqEqual
  <2>10. ASSUME end = "kill", config.always PROVE IsPrefix(Done, got)
    <3> DEFINE n == Len(last) - call
    <3>1. n \in Int /\ n <= Len(last)
      BY <2>1, <2>4
    <3> HIDE DEF n
    <3>2. \A i \in 1..n : Told(log, i) /\ i \in 1..Len(log) /\ last[i] = Tells(log[i])
      BY <2>1, <2>4, <2>7, <2>10 DEF Tracks, AtLeast, Told, n
    <3>3. \A i \in 1..n : i <= Len(got) /\ got[i] = last[i]
      BY <2>3, <3>2 DEF Begins
    <3>4. PICK d \in Seq(Item) : /\ d = Done /\ Len(d) = IF 1 <= n THEN n ELSE 0
                                 /\ \A i \in 1..n : d[i] = last[i]
      <4>1. \A i \in 1..n : last[i] \in Item
        BY <2>1, <2>4, <3>1, ElementOfSeq
      <4>2. /\ SubSeq(last, 1, n) \in Seq(Item)
            /\ Len(SubSeq(last, 1, n)) = IF 1 <= n THEN n - 1 + 1 ELSE 0
            /\ \A i \in 1..(n - 1 + 1) : SubSeq(last, 1, n)[i] = last[1 + i - 1]
        BY <3>1, <4>1, SubSeqProperties
      <4>3. n - 1 + 1 = n /\ \A i \in 1..n : 1 + i - 1 = i
        BY <3>1
      <4> QED
        BY <3>1, <4>2, <4>3 DEF Done, n
    <3>5. Len(d) <= Len(got) /\ \A i \in 1..Len(d) : d[i] = got[i]
      BY <2>4, <3>3, <3>4
    <3> QED
      BY <2>3, <3>4, <3>5, PrefixIs
  <2> QED
    BY <2>2, <2>3, <2>8, <2>9, <2>10, LenProperties
<1>2. DataInv /\ [Next]_vars =>
        [Opening /\ Logged /\ Sound =>
          /\ \A i \in DOMAIN mem' :
                /\ i <= Len(last)
                /\ mem'[i] = last[i] \/ (i = Len(log) /\ log[i].cut = "dollar")
          /\ end = "clean" => mem' = last
          /\ end = "kill" /\ config.always => IsPrefix(Done, mem')]_vars
  BY <1>1
<1> QED
  BY <1>2, Invariance, PTL DEF Spec, LogSurvives
=============================================================================
