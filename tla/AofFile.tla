------------------------------- MODULE AofFile ------------------------------
(***************************************************************************)
(* The bytes of the append-only file: stdio's buffer, the file, what a     *)
(* crash leaves of them, and what aof_load makes of that.  A record is the *)
(* id of the write it tells of.                                            *)
(*                                                                         *)
(* A crash cuts the file at any byte.  What a cut does depends on where in *)
(* the record it is:                                                       *)
(*   "star"   behind the asterisk of "*n\r\n";                             *)
(*   "count"  behind a digit, or behind the \r;                            *)
(*   "middle" behind that line and before the end of the last argument;    *)
(*   "dollar" behind the $ of the last argument, which read_bulk takes for *)
(*            an empty one;                                                *)
(*   "end"    where what is missing makes no difference: inside the last   *)
(*            \r\n, or inside the length of a last argument that is empty  *)
(*            or is read as if it were (an encoding 0).                    *)
(* aof_open appends behind the cut, so the bytes of the next record are    *)
(* read as the rest of the torn one.  Keys and values are taken to have no *)
(* line that starts with an asterisk.                                      *)
(***************************************************************************)
EXTENDS Naturals, Sequences, SequencesExt

CONSTANT Garbled        \* a record nobody wrote

VARIABLES log,          \* the file: records, each with its cut or "none"
          pending,      \* records of which some bytes are still in the buffer
          split         \* some bytes of the first of them are in the file

aofVars == <<log, pending, split>>

Cut == {"star", "count", "middle", "dollar", "end"}

Record(id, cut) == [id |-> id, cut |-> cut]

WholeRecords(ids) == [i \in DOMAIN ids |-> Record(ids[i], "none")]

AofInit == log = <<>> /\ pending = <<>> /\ split = FALSE

-----------------------------------------------------------------------------
(* Writing. *)

\* The fwrite of aof_append_len: the record goes behind what stdio still holds.
aof_append_len(id) == /\ pending' = Append(pending, id)
                      /\ UNCHANGED <<log, split>>

\* stdio writes out some of the buffer, because it is full or because of an
\* fflush, which may need several calls: what is written ends in any byte.
WriteOut ==
    \E n \in 0..Len(pending), part \in BOOLEAN :
        /\ n > 0 \/ (part /\ ~split)
        /\ part => n < Len(pending)
        /\ log' = log \o WholeRecords(SubSeq(pending, 1, n))
        /\ pending' = SubSeq(pending, n + 1, Len(pending))
        /\ split' = part

\* Seeded fault: the file is closed without its buffer.
aof_close_unflushed == log' = log /\ pending' = <<>> /\ split' = FALSE

\* The fflush and fclose of store_close.
aof_close == /\ log' = log \o WholeRecords(pending)
             /\ pending' = <<>>
             /\ split' = FALSE

-----------------------------------------------------------------------------
(* Crashes. *)

\* What the file may be when the process is killed: the buffer is lost.
AfterKill ==
    IF split THEN {Append(log, Record(Head(pending), cut)) : cut \in Cut} ELSE {log}

\* The cuts that are not behind a given one.
Further(cut) ==
    CASE cut \in {"none", "end"} -> Cut
      [] cut = "dollar" -> Cut \ {"end"}
      [] cut = "middle" -> {"star", "count", "middle"}
      [] cut = "count"  -> {"star", "count"}
      [] cut = "star"   -> {"star"}

\* Nothing syncs the log: without power any end of it may be missing.
Shortened(f) ==
    {SubSeq(f, 1, n) : n \in 0..Len(f)}
    \cup UNION {{Append(SubSeq(f, 1, n - 1), Record(f[n].id, cut)) :
                    cut \in Further(f[n].cut)} : n \in DOMAIN f}

aof_crash(files) == /\ log' \in files
                    /\ pending' = <<>>
                    /\ split' = FALSE

-----------------------------------------------------------------------------
(* Reading. *)

\* Reading goes on `skip' records further on; the bytes between were taken for
\* arguments, or were lines aof_load does not know.
Reading(got, skip) == [got |-> got, skip |-> skip]

\* What becomes of a torn record with n records behind it.  read_bulk reads a
\* lone $ as the header of an empty argument; any other bulk that is not one ends
\* the replay.  A header without a number is passed over with the record its line
\* runs into; one that lacks its end, or a bulk that does, can be completed by
\* bytes of the next records.
ReadTorn(got, record, n) ==
    CASE record.cut = "star"   -> {Reading(got, 1)}
      [] record.cut = "end"    -> {Reading(Append(got, record.id), 1)}
      [] record.cut = "dollar" -> {Reading(Append(got, Garbled), 1)}
      [] record.cut = "count"  ->
            {Reading(got, 0), Reading(got, n)}
            \cup {Reading(Append(got, Garbled), 1) : i \in 1..n}
      [] record.cut = "middle" ->
            {Reading(got, n)} \cup {Reading(Append(got, Garbled), i) : i \in 1..n}

\* One turn of the loop of aof_load, with n records to come.
ReadRecord(r, record, n) ==
    IF r.skip > 0
      THEN IF record.cut = "none" THEN {Reading(r.got, r.skip - 1)}
           ELSE {Reading(r.got, r.skip - 1), r}
      ELSE IF record.cut = "none" THEN {Reading(Append(r.got, record.id), 0)}
           ELSE ReadTorn(r.got, record, n)

\* The turns that read the first i records.
Read[i \in 0..Len(log)] ==
    IF i = 0 THEN {Reading(<<>>, 0)}
    ELSE UNION {ReadRecord(r, log[i], Len(log) - i) : r \in Read[i - 1]}

\* aof_load: the sequences of writes that may be replayed from the file.
Replayed == {r.got : r \in Read[Len(log)]}

\* No record stands behind a torn one.
Sound == \A i \in DOMAIN log : log[i].cut # "none" => i = Len(log)
=============================================================================
