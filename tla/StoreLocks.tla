----------------------------- MODULE StoreLocks ----------------------------
(***************************************************************************)
(* Threads and locks of one open store: Python threads that call into      *)
(* credish_module.c, the sweeper of expire.c, the detached savers of       *)
(* rdb_bgsave, and store_close.                                            *)
(*                                                                         *)
(* A command keeps the interpreter lock (the GIL) throughout and the write *)
(* lock around its work on the dicts; FLUSHDB, SAVE and close let the GIL  *)
(* go.  What the commands do to the data is in Commands; here is only who  *)
(* may touch the store when, and whether it is still there.  The rwlock is *)
(* the default one of glibc: a reader enters although a writer waits.      *)
(***************************************************************************)
EXTENDS Naturals, Sequences, SequencesExt

CONSTANTS Client,       \* Python threads
          Job,          \* detached threads of rdb_bgsave
          Sweeper,      \* the thread of expire_sweep_start
          None,
          Calls,        \* the calls clients make
          Careful       \* the application closes the store only when no call
                        \* and no background save is under way, and lets no
                        \* saves overlap while a FLUSHDB waits

ASSUME StoreLocksAssumption ==
    /\ Client \cap Job = {} /\ Sweeper \notin Client \cup Job
    /\ None \notin Client \cup Job \cup {Sweeper}
    /\ Careful \in BOOLEAN

Thread == Client \cup Job \cup {Sweeper}

VARIABLES pc,               \* where each thread is
          gil,              \* the client that holds the GIL, or None
          writer, readers,  \* store->lock
          sweep_running,
          dicts,            \* the dicts of the databases: live or freed (by FLUSHDB,
                            \* for good, and by close)
          store,            \* the credish_store itself: live or freed
          capsule,          \* what the handle points to: open or sentinel
          unlogged,         \* clients that changed data and wrote no record yet
          dangling          \* those whose stored object has been freed

vars == <<pc, gil, writer, readers, sweep_running, dicts, store, capsule,
          unlogged, dangling>>

memory == <<sweep_running, dicts, store, capsule>>
log    == <<unlogged, dangling>>

\* Where expire_sweep_start leaves the sweeper, whose thread may fail to start.
SweepFrom(started) == IF started THEN "check" ELSE "exited"

Init == /\ sweep_running \in BOOLEAN
        /\ pc = [t \in Thread |-> IF t = Sweeper THEN SweepFrom(sweep_running) ELSE "idle"]
        /\ gil = None /\ writer = None /\ readers = {}
        /\ dicts = "live" /\ store = "live" /\ capsule = "open"
        /\ unlogged = <<>> /\ dangling = {}

-----------------------------------------------------------------------------
(* The locks. *)

Goto(t, label) == pc' = [pc EXCEPT ![t] = label]

\* One thread at a time; a writer keeps everyone out.
LockWrite(t) == writer = None /\ readers = {} /\ writer' = t /\ UNCHANGED readers

LockRead(t) == writer = None /\ readers' = readers \cup {t} /\ UNCHANGED writer

-----------------------------------------------------------------------------
(* Calls.  A client takes the GIL to enter one.                            *)

Closing(c) == pc[c] \in {"close_stop", "close_join", "close_save", "close_free",
                         "close_return"}

\* What the application sees to, if it does.
Allowed(c, call) ==
    Careful =>
        /\ \A other \in Client : ~Closing(other)
        /\ call = "close" => \A t \in (Client \cup Job) \ {c} : pc[t] = "idle"
        /\ call \in {"save", "bgsave"} /\ (\E other \in Client : pc[other] = "flush_wait")
             => \A t \in Client \cup Job : pc[t] \notin {"save_wait", "saving"}

Enter(c, call) ==
    /\ call \in Calls /\ Allowed(c, call)
    /\ pc[c] = "idle" /\ gil = None /\ capsule = "open"

\* A command waits for the write lock with the GIL in its hands.
CallCommand(c) ==
    /\ Enter(c, "command")
    /\ gil' = c /\ Goto(c, "cmd_wait")
    /\ UNCHANGED <<writer, readers, memory, log>>

CallDbsize(c) ==
    /\ Enter(c, "dbsize")
    /\ gil' = c /\ Goto(c, "size_wait")
    /\ UNCHANGED <<writer, readers, memory, log>>

\* These let the GIL go before they do anything.
CallFlushdb(c) ==
    /\ Enter(c, "flushdb")
    /\ Goto(c, "flush_wait")
    /\ UNCHANGED <<gil, writer, readers, memory, log>>

CallSave(c) ==
    /\ Enter(c, "save")
    /\ Goto(c, "save_wait")
    /\ UNCHANGED <<gil, writer, readers, memory, log>>

CallClose(c) ==
    /\ Enter(c, "close")
    /\ Goto(c, "close_stop")
    /\ UNCHANGED <<gil, writer, readers, memory, log>>

\* rdb_bgsave starts a detached thread and returns at once.
CallBgsave(c, j) ==
    /\ Enter(c, "bgsave")
    /\ pc[j] = "idle" /\ Goto(j, "save_wait")
    /\ UNCHANGED <<gil, writer, readers, memory, log>>

\* py_open, after a close.
CallOpen(c) ==
    /\ pc[c] = "idle" /\ gil = None /\ capsule = "sentinel"
    /\ sweep_running' \in BOOLEAN
    /\ dicts' = "live" /\ store' = "live" /\ capsule' = "open"
    /\ writer' = None /\ readers' = {}
    /\ Goto(Sweeper, SweepFrom(sweep_running'))
    /\ UNCHANGED <<gil, log>>

-----------------------------------------------------------------------------
(* A command: lock, work, unlock, log, return.                             *)

CommandLock(c) ==
    /\ pc[c] = "cmd_wait" /\ LockWrite(c)
    /\ Goto(c, "cmd_locked")
    /\ UNCHANGED <<gil, memory, log>>

\* Seeded fault: a return that forgets to unlock.
CommandUnlockLeaks(c) ==
    /\ pc[c] = "cmd_locked"
    /\ \/ Goto(c, "idle") /\ gil' = None /\ UNCHANGED <<writer, unlogged>>
       \/ /\ Goto(c, "cmd_logging") /\ unlogged' = Append(unlogged, c)
          /\ writer' = None /\ UNCHANGED gil
    /\ UNCHANGED <<readers, memory, dangling>>

\* Seeded fault: the GIL is let go with the store's lock.
CommandUnlockAll(c) ==
    /\ pc[c] = "cmd_locked"
    /\ writer' = None /\ gil' = None
    /\ \/ Goto(c, "idle") /\ UNCHANGED unlogged
       \/ Goto(c, "cmd_logging") /\ unlogged' = Append(unlogged, c)
    /\ UNCHANGED <<readers, memory, dangling>>

\* A command that changed nothing returns; the others go on to the log.
CommandUnlock(c) ==
    /\ pc[c] = "cmd_locked"
    /\ writer' = None
    /\ \/ Goto(c, "idle") /\ gil' = None /\ UNCHANGED unlogged
       \/ Goto(c, "cmd_logging") /\ unlogged' = Append(unlogged, c) /\ UNCHANGED gil
    /\ UNCHANGED <<readers, memory, dangling>>

\* aof_append_len.  SET reads the object it has stored for that, the other
\* commands only their arguments.
CommandLog(c) ==
    /\ pc[c] = "cmd_logging"
    /\ \E i \in DOMAIN unlogged : unlogged[i] = c /\ unlogged' = RemoveAt(unlogged, i)
    /\ dangling' = dangling \ {c}
    /\ gil' = None /\ Goto(c, "idle")
    /\ UNCHANGED <<writer, readers, memory>>

\* DBSIZE reads two counters under the read lock.
DbsizeRead(c) ==
    /\ pc[c] = "size_wait" /\ writer = None
    /\ gil' = None /\ Goto(c, "idle")
    /\ UNCHANGED <<writer, readers, memory, log>>

-----------------------------------------------------------------------------
(* FLUSHDB and saves.                                                      *)

FlushLock(c) ==
    /\ pc[c] = "flush_wait" /\ LockWrite(c)
    /\ Goto(c, "flush_locked")
    /\ UNCHANGED <<gil, memory, log>>

\* Every dict of every database is freed and none is created.
FlushFree(c) ==
    /\ pc[c] = "flush_locked"
    /\ dicts' = "freed"
    /\ dangling' = dangling \cup {unlogged[i] : i \in DOMAIN unlogged}
    /\ writer' = None /\ Goto(c, "return")
    /\ UNCHANGED <<gil, readers, sweep_running, store, capsule, unlogged>>

SaveLock(t) ==
    /\ pc[t] = "save_wait" /\ LockRead(t)
    /\ Goto(t, "saving")
    /\ UNCHANGED <<gil, memory, log>>

\* The end of rdb_save; a detached saver ends with it.
SaveUnlock(t) ==
    /\ pc[t] = "saving"
    /\ readers' = readers \ {t}
    /\ Goto(t, IF t \in Job THEN "idle" ELSE "return")
    /\ UNCHANGED <<gil, writer, memory, log>>

\* Py_END_ALLOW_THREADS takes the GIL back; the call ends.
Return(c) ==
    /\ pc[c] = "return" /\ gil = None
    /\ Goto(c, "idle")
    /\ UNCHANGED <<gil, writer, readers, memory, log>>

-----------------------------------------------------------------------------
(* Closing: store_close without the GIL and without the lock.              *)

\* Seeded fault: the sweeper is not told to stop.
CloseStopSilent(c) ==
    /\ pc[c] = "close_stop"
    /\ Goto(c, "close_join")
    /\ UNCHANGED <<gil, writer, readers, memory, log>>

CloseStop(c) ==
    /\ pc[c] = "close_stop"
    /\ sweep_running' = FALSE
    /\ Goto(c, "close_join")
    /\ UNCHANGED <<gil, writer, readers, dicts, store, capsule, log>>

\* Seeded fault: the sweeper is told to stop and not waited for.
CloseJoinNobody(c) ==
    /\ pc[c] = "close_join"
    /\ Goto(c, "close_save")
    /\ UNCHANGED <<gil, writer, readers, memory, log>>

\* expire_sweep_stop joins the sweeper.
CloseJoin(c) ==
    /\ pc[c] = "close_join" /\ pc[Sweeper] = "exited"
    /\ Goto(c, "close_save")
    /\ UNCHANGED <<gil, writer, readers, memory, log>>

\* The final rdb_save, and fclose of the log.
CloseSave(c) ==
    /\ pc[c] = "close_save"
    /\ Goto(c, "close_free")
    /\ UNCHANGED <<gil, writer, readers, memory, log>>

CloseFree(c) ==
    /\ pc[c] = "close_free"
    /\ dicts' = "freed" /\ store' = "freed"
    /\ Goto(c, "close_return")
    /\ UNCHANGED <<gil, writer, readers, sweep_running, capsule, log>>

\* With the GIL again, the capsule is pointed to the sentinel.
CloseReturn(c) ==
    /\ pc[c] = "close_return" /\ gil = None
    /\ capsule' = "sentinel"
    /\ Goto(c, "idle")
    /\ UNCHANGED <<gil, writer, readers, sweep_running, dicts, store, log>>

-----------------------------------------------------------------------------
(* The sweeper.                                                            *)

SweepCheck ==
    /\ pc[Sweeper] = "check"
    /\ Goto(Sweeper, IF sweep_running THEN "sweep_wait" ELSE "exited")
    /\ UNCHANGED <<gil, writer, readers, memory, log>>

SweepLock ==
    /\ pc[Sweeper] = "sweep_wait" /\ LockWrite(Sweeper)
    /\ Goto(Sweeper, "sweeping")
    /\ UNCHANGED <<gil, memory, log>>

\* An object just stored may already be past its deadline.
SweepUnlock ==
    /\ pc[Sweeper] = "sweeping"
    /\ \E S \in SUBSET {unlogged[i] : i \in DOMAIN unlogged} :
         dangling' = dangling \cup S
    /\ writer' = None /\ Goto(Sweeper, "check")
    /\ UNCHANGED <<gil, readers, memory, unlogged>>

-----------------------------------------------------------------------------
ClientStep(c) ==
    \/ CommandLock(c) \/ CommandUnlock(c) \/ CommandLog(c) \/ DbsizeRead(c)
    \/ FlushLock(c) \/ FlushFree(c)
    \/ SaveLock(c) \/ SaveUnlock(c) \/ Return(c)
    \/ CloseStop(c) \/ CloseJoin(c) \/ CloseSave(c) \/ CloseFree(c) \/ CloseReturn(c)

JobStep(j) == SaveLock(j) \/ SaveUnlock(j)

SweeperStep == SweepCheck \/ SweepLock \/ SweepUnlock

Call(c) == \/ CallCommand(c) \/ CallDbsize(c) \/ CallFlushdb(c) \/ CallSave(c)
           \/ CallClose(c) \/ CallOpen(c)
           \/ \E j \in Job : CallBgsave(c, j)

Next == \/ \E c \in Client : Call(c) \/ ClientStep(c)
        \/ \E j \in Job : JobStep(j)
        \/ SweeperStep

Spec == Init /\ [][Next]_vars

\* Every thread that is in a call runs on, and one that can take a lock again
\* and again gets it: the GIL is handed over on request, and the sweeper sleeps
\* between two holds of the write lock.  Nobody has to make another call.
FairSpec == /\ Spec
            /\ \A c \in Client : SF_vars(ClientStep(c))
            /\ \A j \in Job : SF_vars(JobStep(j))
            /\ SF_vars(SweeperStep)
-----------------------------------------------------------------------------
(* What must hold. *)

Label == {"idle", "return", "cmd_wait", "cmd_locked", "cmd_logging", "size_wait",
          "flush_wait", "flush_locked", "save_wait", "saving", "close_stop",
          "close_join", "close_save", "close_free", "close_return",
          "check", "sweep_wait", "sweeping", "exited"}

TypeOK == /\ pc \in [Thread -> Label]
          /\ gil \in Client \cup {None}
          /\ writer \in Thread \cup {None}
          /\ readers \subseteq Thread
          /\ sweep_running \in BOOLEAN
          /\ dicts \in {"live", "freed"} /\ store \in {"live", "freed"}
          /\ capsule \in {"open", "sentinel"}
          /\ unlogged \in Seq(Client)
          /\ dangling \subseteq Client

\* Each lock is held by exactly the threads whose place in the code says so, on
\* every path: no early return leaves one locked or takes one twice.
LocksMatch ==
    /\ TypeOK
    /\ \A c \in Client :
         gil = c <=> pc[c] \in {"cmd_wait", "cmd_locked", "cmd_logging", "size_wait"}
    /\ \A t \in Thread :
         /\ writer = t <=> pc[t] \in {"cmd_locked", "flush_locked", "sweeping"}
         /\ t \in readers <=> pc[t] = "saving"
    /\ writer # None => readers = {}

\* Where a thread uses the dicts, and where it uses the store at all.
UsesDicts(t) == pc[t] \in {"cmd_locked", "size_wait", "flush_locked", "saving",
                           "sweeping", "close_save", "close_free"}

UsesStore(t) == UsesDicts(t) \/ pc[t] \in
    {"cmd_wait", "cmd_logging", "flush_wait", "save_wait", "close_stop",
     "close_join", "check", "sweep_wait"}

\* No thread works on a store that store_close has freed: the sweeper is gone
\* then, and nobody enters through the capsule afterwards.
NoUseAfterFree == \A t \in Thread : UsesStore(t) => store = "live"

\* Records reach the log in the order in which the commands changed the data,
\* although a command unlocks the store before it writes its record.
RecordsInOrder ==
    [][Len(unlogged') < Len(unlogged) => unlogged' = Tail(unlogged)]_unlogged

\* Every call returns: nobody waits for a lock for ever, neither a command that
\* holds the GIL while it waits for savers and the sweeper, nor a saver that
\* needs the GIL to return, nor close, which waits for the sweeper.
CallsReturn == \A c \in Client : pc[c] # "idle" ~> pc[c] = "idle"

\* internals.md: "The active expiry thread takes the write lock before deleting
\* expired keys."  So what SET reads for its record is not deleted meanwhile.
LoggedObjectAlive == dangling = {}
=============================================================================
