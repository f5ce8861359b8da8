---------------------------- MODULE ExpirySweep ----------------------------
(***************************************************************************)
(* The cycles of the sweeper (expire.c) over the deadlines of one          *)
(* database.  Keyspace lets a cycle delete any of the expired keys; here   *)
(* is which ones: samples of consecutive entries, in the order in which    *)
(* the dict lists them, from an offset drawn at random.                    *)
(*                                                                         *)
(* That order is the dict's own: every change of the dict, and every       *)
(* lookup while it rehashes, may leave it in any order.  A deadline is     *)
(* only known to have passed or not; the clock passes them one by one,     *)
(* also within a sample, whose keys are compared one after the other.      *)
(***************************************************************************)
EXTENDS Integers, Sequences, FiniteSets, SequencesExt

CONSTANTS Key,
          MaxRand,              \* 32767, the largest number credish_rand_r gives
          SampleSize,           \* SWEEP_SAMPLE_SIZE
          StopNum, StopDen,     \* SWEEP_STOP_NUM, SWEEP_STOP_DEN
          MaxLoops              \* SWEEP_MAX_LOOPS

ASSUME ExpirySweepAssumption ==
    /\ MaxRand \in Nat
    /\ {SampleSize, StopNum, StopDen, MaxLoops} \subseteq Nat \ {0}

VARIABLES order,        \* the keys of db->expires, as an iterator gives them
          passed,       \* those whose deadline has passed
          pc,           \* the sweeper: "asleep", or "sweeping" with the write lock
          loops         \* samples taken in this cycle

vars == <<order, passed, pc, loops>>

Init == order = <<>> /\ passed = {} /\ pc = "asleep" /\ loops = 0

\* The dict afterwards lists the keys of S.
Lists(S) == order' \in SetToSeqs(S)

-----------------------------------------------------------------------------
(* The clock, and the clients, who change deadlines while the sweeper has  *)
(* not got the lock.                                                       *)

DeadlinePasses(k) ==
    /\ k \in ToSet(order) \ passed
    /\ passed' = passed \cup {k}
    /\ UNCHANGED <<order, pc, loops>>

\* SET with EX or PX, EXPIRE, PEXPIRE.
SetDeadline(k) ==
    /\ pc = "asleep"
    /\ Lists(ToSet(order) \cup {k})
    /\ passed' = passed \ {k}
    /\ UNCHANGED <<pc, loops>>

\* DELETE, PERSIST, EXPIRE in the past, or a lookup that finds the key expired.
DropDeadline(k) ==
    /\ pc = "asleep"
    /\ k \in ToSet(order)
    /\ Lists(ToSet(order) \ {k})
    /\ passed' = passed \ {k}
    /\ UNCHANGED <<pc, loops>>

-----------------------------------------------------------------------------
(* The sweeper. *)

Wake == /\ pc = "asleep"
        /\ pc' = "sweeping" /\ loops' = 0
        /\ UNCHANGED <<order, passed>>

\* Seeded fault: every sample starts at the first entry.
FirstOffset == {0}

\* What credish_rand_r(seed) % total can be.
Offset == {r \in 0..MaxRand : r < Len(order)}

Window(offset) ==
    SubSeq(order, offset + 1, Min({offset + SampleSize, Len(order)}))

\* sweep_db_sample: the expired keys of the window go, and with at least a quarter
\* of it gone there is another sample, unless none is left or it was the last one.
SampleAt(offset) ==
    LET window == Window(offset)
        gone   == ToSet(window) \cap passed
        again  == /\ Cardinality(gone) * StopDen >= Len(window) * StopNum
                  /\ loops + 1 < MaxLoops
                  /\ ToSet(order) # gone
    IN  /\ IF gone = {} THEN UNCHANGED order ELSE Lists(ToSet(order) \ gone)
        /\ passed' = passed \ gone
        /\ loops' = loops + 1
        /\ pc' = IF again THEN pc ELSE "asleep"

Sample == pc = "sweeping" /\ \E offset \in Offset : SampleAt(offset)

\* sweep_db over a dict without deadlines.
NothingToSweep ==
    /\ pc = "sweeping" /\ order = <<>>
    /\ pc' = "asleep"
    /\ UNCHANGED <<order, passed, loops>>

\* A sample whose window takes in k.
SampleOver(k) ==
    /\ pc = "sweeping"
    /\ \E offset \in Offset : k \in ToSet(Window(offset)) /\ SampleAt(offset)

-----------------------------------------------------------------------------
Next == \/ \E k \in Key : DeadlinePasses(k) \/ SetDeadline(k) \/ DropDeadline(k)
        \/ Wake \/ Sample \/ NothingToSweep

Spec == Init /\ [][Next]_vars

\* The sweeper wakes up again and again and gets through its cycle; the offset is
\* random, so a window that could be drawn in cycle after cycle is drawn.  Nobody
\* else has to do anything.
FairSpec == /\ Spec
            /\ WF_vars(Wake) /\ WF_vars(Sample \/ NothingToSweep)
            /\ \A k \in Key : SF_vars(SampleOver(k))
-----------------------------------------------------------------------------
\* persistence-and-expiry.md: the sweeper deletes expired keys "even if they're
\* never read again".  Whatever happens to the other keys, and wherever the dict
\* lists it, a key past its deadline is deleted in the end or gets a new deadline.
\* That takes a database with at most MaxRand + SampleSize deadlines: no window
\* reaches further into the dict.
ExpiredCollected == \A k \in Key : k \in passed ~> k \notin passed
=============================================================================
