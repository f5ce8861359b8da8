-------------------------- MODULE StoreLocksProofs --------------------------
(***************************************************************************)
(* The lock discipline of StoreLocks for any number of clients and savers, *)
(* in an application that closes its store with care.                      *)
(***************************************************************************)
EXTENDS StoreLocks, TLAPS

\* A careful close has the store to itself, from the sweeper's end on also without
\* the sweeper, and leaves nobody behind.
QuietClose ==
    /\ \A c \in Client : Closing(c) =>
         capsule = "open" /\ \A t \in (Client \cup Job) \ {c} : pc[t] = "idle"
    /\ \A c \in Client : pc[c] \in {"close_save", "close_free", "close_return"} =>
         pc[Sweeper] = "exited"
    /\ capsule = "sentinel" =>
         pc[Sweeper] = "exited" /\ \A t \in Client \cup Job : pc[t] = "idle"
    /\ store = "freed" =>
         capsule = "sentinel" \/ \E c \in Client : pc[c] = "close_return"

\* The GIL lets only one command be between its change and its record.
OneUnlogged ==
    /\ unlogged # <<>> => \E c \in Client : unlogged = <<c>>
    /\ \A c \in Client : pc[c] = "cmd_logging" <=> unlogged = <<c>>

Inv == LocksMatch /\ QuietClose /\ OneUnlogged

-----------------------------------------------------------------------------
(* The queue of records not yet written.                                   *)

\* A command that writes its record leaves none behind.
LEMMA LogEmptied ==
    ASSUME Inv, NEW c \in Client, CommandLog(c)
    PROVE  unlogged = <<c>> /\ unlogged' = <<>>
<1>1. unlogged = <<c>>
  BY DEF Inv, OneUnlogged, CommandLog
<1>2. PICK i \in DOMAIN unlogged : unlogged' = RemoveAt(unlogged, i)
  BY DEF CommandLog
<1>3. i = 1 /\ Len(unlogged) = 1
  BY <1>1, <1>2
<1>4. SubSeq(unlogged, 1, 0) = <<>> /\ SubSeq(unlogged, 2, 1) = <<>>
  BY <1>1
<1> QED
  BY <1>1, <1>2, <1>3, <1>4 DEF RemoveAt

\* Nobody has a record to write while a command is at work on the data.
LEMMA NothingUnlogged ==
    ASSUME Inv, NEW c \in Client, pc[c] = "cmd_locked"
    PROVE  unlogged = <<>> /\ Append(unlogged, c) = <<c>>
<1>1. unlogged = <<>>
  BY DEF Inv, OneUnlogged, LocksMatch
<1> QED
  BY <1>1

-----------------------------------------------------------------------------
(* One step.                                                               *)

\* Every step takes and gives back the locks its place in the code says.
LEMMA LocksMatchKept ==
    ASSUME Careful, Inv, Next
    PROVE  LocksMatch'
<1> USE StoreLocksAssumption DEF Inv, LocksMatch, TypeOK, Thread, Label, Goto, memory, log,
             QuietClose, OneUnlogged
<1>1. ASSUME NEW c \in Client, CallCommand(c) PROVE LocksMatch'
  BY <1>1 DEF CallCommand, Enter
<1>2. ASSUME NEW c \in Client, CallDbsize(c) PROVE LocksMatch'
  BY <1>2 DEF CallDbsize, Enter
<1>3. ASSUME NEW c \in Client, CallFlushdb(c) PROVE LocksMatch'
  BY <1>3 DEF CallFlushdb, Enter
<1>4. ASSUME NEW c \in Client, CallSave(c) PROVE LocksMatch'
  BY <1>4 DEF CallSave, Enter
<1>5. ASSUME NEW c \in Client, CallClose(c) PROVE LocksMatch'
  BY <1>5 DEF CallClose, Enter
<1>6. ASSUME NEW c \in Client, NEW j \in Job, CallBgsave(c, j) PROVE LocksMatch'
  BY <1>6 DEF CallBgsave, Enter
<1>7. ASSUME NEW c \in Client, CallOpen(c) PROVE LocksMatch'
  BY <1>7 DEF CallOpen, SweepFrom
<1>8. ASSUME NEW c \in Client, CommandLock(c) PROVE LocksMatch'
  BY <1>8 DEF CommandLock, LockWrite
<1>9. ASSUME NEW c \in Client, CommandUnlock(c) PROVE LocksMatch'
  BY <1>9, NothingUnlogged DEF CommandUnlock
<1>10. ASSUME NEW c \in Client, CommandLog(c) PROVE LocksMatch'
  <2>1. unlogged' = <<>>
    BY <1>10, LogEmptied
  <2>2. <<>> \in Seq(Client)
    OBVIOUS
  <2> QED
    BY <1>10, <2>1, <2>2 DEF CommandLog
<1>11. ASSUME NEW c \in Client, DbsizeRead(c) PROVE LocksMatch'
  BY <1>11 DEF DbsizeRead
<1>12. ASSUME NEW c \in Client, FlushLock(c) PROVE LocksMatch'
  BY <1>12 DEF FlushLock, LockWrite
<1>13. ASSUME NEW c \in Client, FlushFree(c) PROVE LocksMatch'
  BY <1>13 DEF FlushFree
<1>14. ASSUME NEW t \in Client \cup Job, SaveLock(t) PROVE LocksMatch'
  BY <1>14 DEF SaveLock, LockRead
<1>15. ASSUME NEW t \in Client \cup Job, SaveUnlock(t) PROVE LocksMatch'
  BY <1>15 DEF SaveUnlock
<1>16. ASSUME NEW c \in Client, Return(c) PROVE LocksMatch'
  BY <1>16 DEF Return
<1>17. ASSUME NEW c \in Client, CloseStop(c) PROVE LocksMatch'
  BY <1>17 DEF CloseStop
<1>18. ASSUME NEW c \in Client, CloseJoin(c) PROVE LocksMatch'
  BY <1>18 DEF CloseJoin
<1>19. ASSUME NEW c \in Client, CloseSave(c) PROVE LocksMatch'
  BY <1>19 DEF CloseSave
<1>20. ASSUME NEW c \in Client, CloseFree(c) PROVE LocksMatch'
  BY <1>20 DEF CloseFree
<1>21. ASSUME NEW c \in Client, CloseReturn(c) PROVE LocksMatch'
  BY <1>21 DEF CloseReturn
<1>22. CASE SweepCheck
  BY <1>22 DEF SweepCheck
<1>23. CASE SweepLock
  BY <1>23 DEF SweepLock, LockWrite
<1>24. CASE SweepUnlock
  BY <1>24 DEF SweepUnlock
<1> QED
  BY <1>1, <1>2, <1>3, <1>4, <1>5, <1>6, <1>7, <1>8, <1>9, <1>10, <1>11,
     <1>12, <1>13, <1>14, <1>15, <1>16, <1>17, <1>18, <1>19, <1>20, <1>21,
     <1>22, <1>23, <1>24 DEF Next, Call, ClientStep, JobStep, SweeperStep

\* Nothing starts while a client closes the store, and nothing is left after it.
LEMMA QuietCloseKept ==
    ASSUME Careful, Inv, Next
    PROVE  QuietClose'
<1> USE StoreLocksAssumption DEF Inv, LocksMatch, TypeOK, Thread, Goto, memory, log, QuietClose, Closing
<1>1. ASSUME NEW c \in Client, CallCommand(c) PROVE QuietClose'
  BY <1>1 DEF CallCommand, Enter, Allowed
<1>2. ASSUME NEW c \in Client, CallDbsize(c) PROVE QuietClose'
  BY <1>2 DEF CallDbsize, Enter, Allowed
<1>3. ASSUME NEW c \in Client, CallFlushdb(c) PROVE QuietClose'
  BY <1>3 DEF CallFlushdb, Enter, Allowed
<1>4. ASSUME NEW c \in Client, CallSave(c) PROVE QuietClose'
  BY <1>4 DEF CallSave, Enter, Allowed
<1>5. ASSUME NEW c \in Client, CallClose(c) PROVE QuietClose'
  BY <1>5 DEF CallClose, Enter, Allowed
<1>6. ASSUME NEW c \in Client, NEW j \in Job, CallBgsave(c, j) PROVE QuietClose'
  BY <1>6 DEF CallBgsave, Enter, Allowed
<1>7. ASSUME NEW c \in Client, CallOpen(c) PROVE QuietClose'
  BY <1>7 DEF CallOpen, SweepFrom
<1>8. ASSUME NEW c \in Client, CommandLock(c) PROVE QuietClose'
  BY <1>8 DEF CommandLock
<1>9. ASSUME NEW c \in Client, CommandUnlock(c) PROVE QuietClose'
  BY <1>9 DEF CommandUnlock
<1>10. ASSUME NEW c \in Client, CommandLog(c) PROVE QuietClose'
  BY <1>10 DEF CommandLog
<1>11. ASSUME NEW c \in Client, DbsizeRead(c) PROVE QuietClose'
  BY <1>11 DEF DbsizeRead
<1>12. ASSUME NEW c \in Client, FlushLock(c) PROVE QuietClose'
  BY <1>12 DEF FlushLock
<1>13. ASSUME NEW c \in Client, FlushFree(c) PROVE QuietClose'
  BY <1>13 DEF FlushFree
<1>14. ASSUME NEW t \in Client \cup Job, SaveLock(t) PROVE QuietClose'
  BY <1>14 DEF SaveLock
<1>15. ASSUME NEW t \in Client \cup Job, SaveUnlock(t) PROVE QuietClose'
  BY <1>15 DEF SaveUnlock
<1>16. ASSUME NEW c \in Client, Return(c) PROVE QuietClose'
  BY <1>16 DEF Return
<1>17. ASSUME NEW c \in Client, CloseStop(c) PROVE QuietClose'
  BY <1>17 DEF CloseStop
<1>18. ASSUME NEW c \in Client, CloseJoin(c) PROVE QuietClose'
  BY <1>18 DEF CloseJoin
<1>19. ASSUME NEW c \in Client, CloseSave(c) PROVE QuietClose'
  BY <1>19 DEF CloseSave
<1>20. ASSUME NEW c \in Client, CloseFree(c) PROVE QuietClose'
  BY <1>20 DEF CloseFree
<1>21. ASSUME NEW c \in Client, CloseReturn(c) PROVE QuietClose'
  BY <1>21 DEF CloseReturn
<1>22. CASE SweepCheck
  BY <1>22 DEF SweepCheck
<1>23. CASE SweepLock
  BY <1>23 DEF SweepLock
<1>24. CASE SweepUnlock
  BY <1>24 DEF SweepUnlock
<1> QED
  BY <1>1, <1>2, <1>3, <1>4, <1>5, <1>6, <1>7, <1>8, <1>9, <1>10, <1>11,
     <1>12, <1>13, <1>14, <1>15, <1>16, <1>17, <1>18, <1>19, <1>20, <1>21,
     <1>22, <1>23, <1>24 DEF Next, Call, ClientStep, JobStep, SweeperStep

\* The GIL is kept from the change to its record.
LEMMA OneUnloggedKept ==
    ASSUME Careful, Inv, Next
    PROVE  OneUnlogged'
<1> USE StoreLocksAssumption DEF Inv, LocksMatch, TypeOK, Thread, Goto, memory, log, OneUnlogged
<1>1. ASSUME NEW c \in Client, CallCommand(c) PROVE OneUnlogged'
  BY <1>1 DEF CallCommand, Enter
<1>2. ASSUME NEW c \in Client, CallDbsize(c) PROVE OneUnlogged'
  BY <1>2 DEF CallDbsize, Enter
<1>3. ASSUME NEW c \in Client, CallFlushdb(c) PROVE OneUnlogged'
  BY <1>3 DEF CallFlushdb, Enter
<1>4. ASSUME NEW c \in Client, CallSave(c) PROVE OneUnlogged'
  BY <1>4 DEF CallSave, Enter
<1>5. ASSUME NEW c \in Client, CallClose(c) PROVE OneUnlogged'
  BY <1>5 DEF CallClose, Enter
<1>6. ASSUME NEW c \in Client, NEW j \in Job, CallBgsave(c, j) PROVE OneUnlogged'
  BY <1>6 DEF CallBgsave, Enter
<1>7. ASSUME NEW c \in Client, CallOpen(c) PROVE OneUnlogged'
  BY <1>7 DEF CallOpen, SweepFrom
<1>8. ASSUME NEW c \in Client, CommandLock(c) PROVE OneUnlogged'
  BY <1>8 DEF CommandLock, LockWrite
<1>9. ASSUME NEW c \in Client, CommandUnlock(c) PROVE OneUnlogged'
  <2>1. unlogged = <<>> /\ \A x \in Client : pc[x] # "cmd_logging"
    BY <1>9, NothingUnlogged DEF CommandUnlock
  <2>2. CASE UNCHANGED unlogged
    BY <1>9, <2>1, <2>2 DEF CommandUnlock
  <2>3. CASE unlogged' = Append(unlogged, c) /\ Goto(c, "cmd_logging")
    <3>1. unlogged' = <<c>>
      BY <1>9, <2>3, NothingUnlogged DEF CommandUnlock
    <3>2. \A x \in Client : <<c>> = <<x>> <=> c = x
      OBVIOUS
    <3> QED
      BY <2>1, <2>3, <3>1, <3>2
  <2> QED
    BY <1>9, <2>2, <2>3 DEF CommandUnlock
<1>10. ASSUME NEW c \in Client, CommandLog(c) PROVE OneUnlogged'
  <2>1. unlogged = <<c>> /\ unlogged' = <<>>
    BY <1>10, LogEmptied
  <2>2. \A x \in Client : pc[x] = "cmd_logging" => x = c
    BY <2>1
  <2>3. \A x \in Client : pc'[x] # "cmd_logging"
    BY <1>10, <2>2 DEF CommandLog
  <2> QED
    BY <2>1, <2>3
<1>11. ASSUME NEW c \in Client, DbsizeRead(c) PROVE OneUnlogged'
  BY <1>11 DEF DbsizeRead
<1>12. ASSUME NEW c \in Client, FlushLock(c) PROVE OneUnlogged'
  BY <1>12 DEF FlushLock, LockWrite
<1>13. ASSUME NEW c \in Client, FlushFree(c) PROVE OneUnlogged'
  BY <1>13 DEF FlushFree
<1>14. ASSUME NEW t \in Client \cup Job, SaveLock(t) PROVE OneUnlogged'
  BY <1>14 DEF SaveLock, LockRead
<1>15. ASSUME NEW t \in Client \cup Job, SaveUnlock(t) PROVE OneUnlogged'
  BY <1>15 DEF SaveUnlock
<1>16. ASSUME NEW c \in Client, Return(c) PROVE OneUnlogged'
  BY <1>16 DEF Return
<1>17. ASSUME NEW c \in Client, CloseStop(c) PROVE OneUnlogged'
  BY <1>17 DEF CloseStop
<1>18. ASSUME NEW c \in Client, CloseJoin(c) PROVE OneUnlogged'
  BY <1>18 DEF CloseJoin
<1>19. ASSUME NEW c \in Client, CloseSave(c) PROVE OneUnlogged'
  BY <1>19 DEF CloseSave
<1>20. ASSUME NEW c \in Client, CloseFree(c) PROVE OneUnlogged'
  BY <1>20 DEF CloseFree
<1>21. ASSUME NEW c \in Client, CloseReturn(c) PROVE OneUnlogged'
  BY <1>21 DEF CloseReturn
<1>22. CASE SweepCheck
  BY <1>22 DEF SweepCheck
<1>23. CASE SweepLock
  BY <1>23 DEF SweepLock, LockWrite
<1>24. CASE SweepUnlock
  BY <1>24 DEF SweepUnlock
<1> QED
  BY <1>1, <1>2, <1>3, <1>4, <1>5, <1>6, <1>7, <1>8, <1>9, <1>10, <1>11,
     <1>12, <1>13, <1>14, <1>15, <1>16, <1>17, <1>18, <1>19, <1>20, <1>21,
     <1>22, <1>23, <1>24 DEF Next, Call, ClientStep, JobStep, SweeperStep

-----------------------------------------------------------------------------
(* The theorems.                                                           *)

\* A store that is not open yet satisfies the invariant.
LEMMA InitOK == Init => Inv
BY StoreLocksAssumption
   DEF Init, SweepFrom, Inv, LocksMatch, TypeOK, QuietClose, OneUnlogged, Closing, Thread, Label

\* The invariant is about the variables of StoreLocks only.
LEMMA InvStutter == Inv /\ UNCHANGED vars => Inv'
BY DEF vars, Inv, LocksMatch, TypeOK, QuietClose, OneUnlogged, Closing

\* The invariant of threads and locks holds at every moment of a careful use.
THEOREM Invariance ==
    ASSUME Careful
    PROVE  Spec => []Inv
<1>1. Inv /\ [Next]_vars => Inv'
  <2>1. ASSUME Inv, Next PROVE Inv'
    BY <2>1, LocksMatchKept, QuietCloseKept, OneUnloggedKept DEF Inv
  <2> QED
    BY <2>1, InvStutter
<1> QED
  BY <1>1, InitOK, PTL DEF Spec

\* On every path through every call, for any number of clients and savers, a
\* thread holds exactly the locks that its place in the code says.
THEOREM LocksAlwaysMatch ==
    ASSUME Careful
    PROVE  Spec => []LocksMatch
BY Invariance, PTL DEF Inv

\* A careful close leaves no thread that would touch the freed store.
THEOREM FreedStoreUntouched ==
    ASSUME Careful
    PROVE  Spec => []NoUseAfterFree
<1>1. Inv => NoUseAfterFree
  BY StoreLocksAssumption
     DEF Inv, LocksMatch, TypeOK, QuietClose, Closing, NoUseAfterFree, UsesStore, UsesDicts, Thread
<1> QED
  BY <1>1, Invariance, PTL

\* Records are written in the order of the changes they tell of.
THEOREM LogKeepsOrder ==
    ASSUME Careful
    PROVE  Spec => RecordsInOrder
<1>1. Inv /\ [Next]_vars =>
        [Len(unlogged') < Len(unlogged) => unlogged' = Tail(unlogged)]_unlogged
  <2>1. ASSUME Inv, Inv', Len(unlogged') < Len(unlogged)
        PROVE  unlogged' = Tail(unlogged)
    <3>1. PICK c \in Client : unlogged = <<c>>
      BY <2>1 DEF Inv, OneUnlogged
    <3>2. \A x \in Client : unlogged' # <<x>>
      BY <2>1, <3>1
    <3> QED
      BY <2>1, <3>1, <3>2 DEF Inv, OneUnlogged
  <2> QED
    BY <2>1, LocksMatchKept, QuietCloseKept, OneUnloggedKept, InvStutter DEF Inv
<1> QED
  BY <1>1, Invariance, PTL DEF Spec, RecordsInOrder
=============================================================================
