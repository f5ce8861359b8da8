# Credish in TLA+

A model of [Credish](../README.md), the in-process, Redis-like cache with a C core
(`src/_credish/`) behind a small Python client. The modules here are written from the C
code; TLC checks them on small instances, and TLAPS proves for every instance that the
hash table implements an atomic map, what the commands may never do to keys and
deadlines, that replay is exact, that a snapshot is read back as it was written, that
the files bring back what they promise, that locks and records keep their order, that
every rank and range of a sorted set is right, and that the allocator neither shares nor
loses a slot.

Paths below are relative to the repository root; line numbers are those of the
commit this was written from.

## 1. Inventory

| Part | Source | State | Operations | Modelled in |
| --- | --- | --- | --- | --- |
| dict | `dict.c` | two tables, `rehash_idx`, `used`, `iterators` | add, replace, find, delete, size, iterate; incremental rehash | `Dict`, against `KVMap` |
| keyspace, expiry | `db.c` | 16 databases, each a dict of objects and one of deadlines | lookup with lazy expiry, set, delete, deadlines | `Keyspace` |
| string, key, expiry commands | `credish_module.c` | none of their own | GET, SET, DELETE, EXISTS, (P)EXPIRE, PERSIST, (P)TTL, TYPE, DBSIZE, INCRBY | `StringCommands` |
| list commands | `credish_module.c`, `adlist.c` | list objects | LPUSH, RPUSH, LRANGE, LLEN | `ListCommands` |
| hash commands | `hash.c` | hash objects | HSET .. HINCRBY | `HashCommands` |
| sorted set commands | `sorted_set.c`, `skiplist.c` | dict and skiplist of a set | ZADD .. ZINCRBY | `ZSetCommands` over maps, `SkipList` |
| append-only file | `persistence/aof.c`, `aof_append_len` | the log, its stdio buffer | append, flush, replay at open | `Replay`, `AofStore` (what records mean), `AofFile` (bytes) |
| sweeper | `expire.c` | one thread, `sweep_running` | sample and delete expired keys | `ExpirySweep` (which keys), `Keyspace` (data), `StoreLocks` (thread) |
| snapshots | `persistence/rdb.c` | `.rdb`, `.rdb.tmp`, checksum | SAVE, BGSAVE, load | `RdbStore` (contents), `RdbFile` (file), `StoreLocks` (locks) |
| lifecycle and locks | `credish_module.c`, `db.c`, `platform.h` | GIL, `store->lock`, capsule, the store's memory | open, close, FLUSHDB, every call's lock protocol | `StoreLocks` |
| allocator | `bufpool.c` | slabs, free lists | alloc, free | `BufPool` |
| strings, integer sets, options, Python client | `sds.c`, `intset.c`, `server.c`, `credish/client.py` | none, unused, none, none | pure functions | no |

How the parts meet. A Python thread calls a handler with the GIL. The handler
takes `store->lock` for writing (even GET does: a lookup may delete), finds its
database, works on the dicts through `db.c`, unlocks, and then, still under the
GIL, appends one record to the log. The sweeper takes the same lock every
100 ms. SAVE and the detached BGSAVE thread hold it for reading. FLUSHDB, SAVE
and close give the GIL up. Opening a store replays the log (or loads the
snapshot) into fresh dicts before any other thread exists.

What is hard about it:

* a value and its deadline live in two dicts and must stay together through
  lazy expiry, the sweeper, replacement and deletion;
* an expired key that nobody collected is still in the dict, and some commands
  (SET, DELETE, DBSIZE, PERSIST) do not look at its deadline;
* handlers read the clock more than once;
* lookups move entries (incremental rehash), also under a read lock;
* records are written after the unlock, about effects rather than calls;
* close, FLUSHDB and the detached saver free or use memory without a common
  protocol;
* two savers share one temporary file, and the process or the machine can stop
  between any two steps of a save, between a change and its record, or in the middle
  of a record of the log;
* expired keys that nobody reads are found by random samples of a dict that
  keeps changing its order;
* ranks are sums of skiplist spans, kept through levels that come and go;
* every part allocates from slabs that threads share without any lock of the store.

`PROJECT.json` lists each of these at its line under `hazards`, with the
properties about it.

## 2. Modules

```
KVMap  <--refines--  Dict <- DictProofs                MCDict

Objects <- Keyspace <- StringCommands  \
                    <- ListCommands     \
                    <- HashCommands      > Commands <- AofStore    MCAofStore
                    <- ZSetCommands     /     |     <- RdbStore    MCCommands
Objects <- Replay ---------------------/      |
                                   CommandsProofs <- ReopenProofs (with AofStore, RdbStore)
Objects <- SkipList <- SkipListProofs                  MCSkipList

RdbFile + AofFile  <- Durability <- DurabilityProofs   MCDurability
StoreLocks <- StoreLocksProofs                         MCStoreLocks
ExpirySweep
BufPool <- BufPoolProofs

Induction <- DictProofs, BufPoolProofs, DurabilityProofs, SkipListProofs, ReopenProofs
```

**KVMap** is what the rest of the program expects of a dict: an atomic map.
**Dict** is `dict.c`: `dict` is the struct with `ht[0..1]`, `rehash_idx` and
`iterators`; one operator per C function with the function's name, one action
per public call. A chain is a set of entries, because the order inside one
shows only as iteration order, which is left open. `ImplementsMap` is the
refinement, with the union of both tables as the abstract map.

**Objects** has the values (`object.c`) and the arithmetic on them: long long
that wraps, doubles with two infinities, list slices, the option rules of
ZADD. A string is a number or a text `strtoll` does not read whole, since that
is all a command tells apart. **Keyspace** is `db.c`: `keys` and `expires` are
`dbs[i].keys` and `dbs[i].expires`, `now` the clock, and its operators are the
functions of `db.c`; `reply` and `appended` are the answer and the log record
of the last step. It also has the sweeper's effect and the clock.

**StringCommands, ListCommands, HashCommands, ZSetCommands** have one operator
per handler, with the handler's name. A handler is one action: it holds the GIL
from its first line to its last and the write lock around its work, and nothing
but the clock moves meanwhile. That the locks do this is what `StoreLocks`
checks; the record after the unlock is the exception, and it is there, too.
**Commands** joins them to a next-state relation; `Calls` and the other
constants say what the clients of an instance do.

**Replay** is `replay_cmd` as a function from an object and a record to an
object. **AofStore** adds the log to Commands. The log is kept as `disk`, the
database 0 that replaying it would give, so it needs no bound; `drifted` is the
set of keys about which the log is known to be silent or wrong (expired,
deleted, or written for another database).

**StoreLocks** has a program counter per thread and the two locks, and of the
data only whether it is still there. The labels of `pc` are the places of the
code where another thread can come in between. The sweeper's thread may fail to start,
and nobody is told.

**RdbStore** adds closing and reopening in rdb mode to Commands: `rdb_save` is the
sequence of entries that is written, each with its database, `rdb_load` the loop that
rebuilds the dicts from it, pair by pair and element by element. A process may begin
with databases it finds saved (`Found`). **RdbFile** is the same save seen from the file
system: two names, the inodes they and the savers' open files refer to, what is on the
disk and what is not yet, the error exits, and the one error that has no exit: the sync
of the directory may fail, or not be tried at all, in a save that succeeds. **AofFile**
is the log as bytes: records, the part of them still in stdio's buffer, the five places
of a record at which a cut makes a difference to `aof_load`, and the readings each can
lead to. **Durability** composes the two under one store that is opened, written, saved,
closed, killed and cut off from power, when it is running or down; its data is only
which writes are there. A call changes memory, then hands its records to stdio one by
one, and returns, with "always" behind the flush of each; stdio may write out any part
of its buffer at any time.

**SkipList** is a sorted set as it is stored: the dict and the list with its
levels, spans, backward links and tail. The height of a new node is any. Its
properties relate it to the map that `Objects` and `ZSetCommands` compute with,
so that the two levels of the model agree.

**ExpirySweep** is the sampling of one database. The dict appears as the order in which
an iterator lists it, and every change of the dict may change that order at will (which
allows more than the real one does). **BufPool** is one slab, with the links of its free
list in the memory of the slots themselves, and one action for each access between
taking and giving back the mutex. **Induction** has the two lemmas that stand for
induction in the proofs: a set of natural numbers has a least one, and a function given
by its first value and its steps exists.

The operators called *Seeded fault* sit before the definition they are a broken
variant of. No specification uses them: they are there to try each property
against a plausible bug.

## 3. What is checked

| Run | Instance | Properties |
| --- | --- | --- |
| `MCDict` | 5 colliding keys, 2 values, tables of 2, 4, 8, an iterator | `TypeOK` `WellPlaced` `LoadBounded` `IteratorVisitsAllOnce` `ImplementsMap` |
| `MCTypes` | 1 key in use, of any type, beside a saved store of 2 databases and 3 more keys; every command, clock 0..3, 2 fields, 2 members, 2 encodings, pushes of 2, reopening from a snapshot | `TypeOK` `ExpiresHaveKeys` `TtlSentinels` `NoEarlyLoss` `DeadlineKept` `NothingRevived` `ReopenKeeps` |
| `MCAof` | 1 key of all four types, DELETE, deadlines, scores -2..2 with infinite ends, reopening from the log | `ReplayExact` |
| `MCLocks` | 3 clients, 1 detached saver, the sweeper; every call | `LocksMatch` `NoUseAfterFree` `RecordsInOrder` `CallsReturn` |
| `MCDurability` | 2 savers, 1 to 4 writes in calls of 1 or 2, four configurations, kills and power losses at every step | `SnapshotWhole` `SavedSurvives` `LogSurvives` |
| `MCSkipList` | 4 members, 3 scores, 3 levels | `WellLinked` `RanksExact` `RangesExact` |
| `MCSweep` | 4 deadlines, windows of 2 | `ExpiredCollected` |
| `MCBufPool` | 3 threads, slots of 2, 3, 4 bytes, two pages of 7 | `NoOverlap` `FreeListSound` `NothingLost` |

What they show. *Dict*: whatever the rehash has moved, every call answers as an atomic
map would, counters are exact, the rehash ends before the table it fills is full, and an
iterator sees each key once although lookups go on. *Commands*: a key goes only when its
own deadline has passed or DELETE names it; a deadline never outlives its key and never
changes behind its owner's back; data past its deadline never comes back, except through
PERSIST; TTL's sentinels are unambiguous although the clock moves inside the command
(PTTL's are not: without the division, -1 can also mean one millisecond late); a
snapshot brings back every object of both databases, the order of lists, encodings and
deadlines, except a deadline before the epoch, which is saved as none. *Log*: replay
gives every key the content it has in memory, unless a record is missing since the last
SET of the key. *Locks*: every path gives back what it took, records are written in the
order of the changes, every call returns, and closing a store that is not in use by
anyone else frees nothing in use. *Durability*: the snapshot is always a whole, synced
one, with one exception that the property names: a saver may rename the file an
overlapping saver is still writing. What a successful save held is there when the
process ends in any way; after a loss of power it is, if the directory could be synced,
and else what the last such save before it held. The log comes back as a prefix of the
session, of which the last record may have lost its last argument (a file that ends
behind a `$`); in full after a clean close; and, with "always", with all calls that had
returned after a kill: until a session appends behind a torn record. *Skiplist*: links,
spans, ranks and ranges are those of the map after any history. *Sweep*: an expired key
is deleted without being read. *Pool*: no byte has two owners, no slot is lost.

Bounds, and why they are enough. Sizes 2, 4, 8 with five keys have two rehashes,
chains that split and chains that stay together, deletions on both sides of
`rehash_idx`, and insertions during a rehash; a larger table only repeats this.
One iterator is what stops a rehash; a second only counts. The commands use one
key in their runs, since most take one and the theorems say for any number of keys
that a command leaves the others alone; lists of keys name it twice. What else a
snapshot has to bring back is there from the start in `MCTypes` (`MCFound`): a list
whose order shows, a sorted set, and in the other database a string of the other
encoding with a deadline that does not come. The clock needs
a deadline before, at and after now, plus one tick inside a command; two
milliseconds to the second are enough for truncation to differ from rounding down.
Between two readings of one command less than a second passes (`Later`). One key and
one database suffice for replay since each record is about one key: what another
database writes to a key of the same name is misfiled, and excluded (`drifted`).
Long long of two bits (-2..1) wraps in one addition. In `StoreLocks` calls are
unlimited and the state space finite without a bound; three clients let one hold the
GIL, one wait for it and one close. In `Durability` two savers are what it takes to
overlap and four inodes all that they can have in use; two writes put one in the
snapshot and one after it; four in the log allow a torn record and two whole ones
behind it with one in the buffer, and calls of two records let a crash fall between
them. Only the rdb configuration calls SAVE, since the log does not depend on it; the
hybrid one saves when it closes, and needs one write to tell that it opens from its log,
which is that of the aof configurations. Savers and inodes
are symmetric. Three levels let one level come into use above one that stays. Four
deadlines in windows of two are as many as offsets up to `MaxRand` = 2 reach, as
32767 + 20 are for the code. Pages of seven bytes have slots that fill them exactly
and slots that do not; the second page is reached with slots on the free list.
`MaxTime`, `MaxLen`, `MaxWrites`, `MaxRecords` and `MaxPages` are the bounds in guards:
the clock stops while commands go on, pushes (also replayed ones) beyond the length are
not made, writes end, a ZADD has so many members, `malloc` fails.

`Careful` in `StoreLocks` is a promise of the application. With it, `close` is
called only when no other call and no background save is under way, and while a
FLUSHDB waits saves do not overlap. `MCLocks` assumes both, because the code
needs both: nothing in it keeps a second close or a detached saver off a store
that is being freed (`MCBgsaveClose`), and overlapping savers keep a waiting
writer out for as long as they keep coming, since the rwlock of glibc prefers
readers.

Fairness is assumed in two modules. In `StoreLocks`, for `CallsReturn`: strong
fairness for the steps of every thread that is inside a call, and for the sweeper.
The GIL is handed over on request (a waiting thread asks for it after 5 ms), the
sweeper sleeps 100 ms between two holds of the lock, and calls hold it for a bounded
time, so a thread that could take a lock again and again gets it. Entering a call is
never forced. In `ExpirySweep`, for `ExpiredCollected`: weak fairness of waking and
sampling (the thread loops until the store is closed), and strong fairness of a
sample whose window takes in a given key: the offset is a pseudo-random number, so
an offset that could be drawn in cycle after cycle is drawn. Clients and the clock
owe nothing. With `MaxRand` = 1 TLC finds the expired key that no window reaches; that
is what happens to databases with more than 32787 deadlines while the order of their
dict stays as it is.

### Where code and documentation disagree

Each of these runs checks one statement of the documentation, a comment or a
test, and TLC shows a behaviour of the code against it.

| Run | Statement | What happens |
| --- | --- | --- |
| `MCSetVisible` | `set` "Stores a value under `key`." (`docs/api-reference.md:157`) | a plain SET over an expired key keeps the old deadline: the new value is gone at once |
| `MCBgsaveClose` | BGSAVE runs "under the store's read lock" (`docs/internals.md:409`) | the store may be freed while the detached thread saves it, or before it takes the lock |
| `MCSetLog` | the sweeper "takes the write lock before deleting" (`docs/internals.md:457`) | SET reads its object after the unlock |
| `MCTornTail` | for durability "rely on a clean `close()`" (`docs/persistence-and-expiry.md:84`) | behind a record torn by an earlier kill, what a cleanly closed session wrote is not replayed |

Met on the way, and not the subject of a run: PERSIST looks at no deadline and
revives a key that has expired; FLUSHDB frees the dicts of all sixteen databases and
creates none (`tests/stress/test_stress.py:7` knows); no record names its database, so
all keys come back in database 0 (`aof.c:119` says the index is tracked); PTTL can
answer -1 for a key with a deadline; overlapping savers can put a file in place that
is not finished; a deadline before the epoch is lost in a snapshot; nothing compares
the snapshot's checksum; `read_bulk`, which promises "NULL on error/EOF" (`aof.c:48`),
takes a `$` at the end of the file for an empty argument, so that a record nobody wrote
is replayed; the directory is synced behind the rename and its failures are ignored,
where `docs/internals.md:406` has `rdb_save` sync both before it.

That DELETE and deadlines are not logged is documented
(`docs/persistence-and-expiry.md:86`), so `ReplayExact` excludes those keys
(`drifted`) and no run reports it.

## 4. What is proved

Each theorem is about every value of the constants that satisfies the named
assumptions of its modules.

| Module | Theorem | Statement |
| --- | --- | --- |
| `DictProofs` | `Refinement` | `Spec => ImplementsMap` |
| | `Placement` | `Spec => []WellPlaced` |
| | `LoadIsBounded` | `Spec => []LoadBounded` |
| | `Iteration` | `Spec => []IteratorVisitsAllOnce` |
| | `TypeCorrect` | `Spec => []TypeOK` |
| `CommandsProofs` | `TypeCorrect` | `Spec => []TypeOK` |
| | `DeadlinesBelongToKeys` | `Spec => []ExpiresHaveKeys` |
| | `KeysAreNotLostEarly` | `Spec => NoEarlyLoss` |
| | `DeadlinesAreKept` | `Spec => DeadlineKept` |
| | `DeadStayDead` | `Spec => NothingRevived` |
| | `TtlIsHonest` | `Spec => []TtlSentinels` |
| `ReopenProofs` | `LogIsExact` | `AofSpec => []ReplayExact` |
| | `SavedIsLoaded` | `RdbSpec => ReopenKeeps` |
| `DurabilityProofs` | `SnapshotIsWhole` | `Spec => []SnapshotWhole` |
| | `SavesSurvive` | `Spec => SavedSurvives` |
| | `LogsSurvive` | `Spec => LogSurvives` |
| `StoreLocksProofs` | `LocksAlwaysMatch` | `Careful` implies `Spec => []LocksMatch` |
| | `FreedStoreUntouched` | `Careful` implies `Spec => []NoUseAfterFree` |
| | `LogKeepsOrder` | `Careful` implies `Spec => RecordsInOrder` |
| `BufPoolProofs` | `OneOwner` | `Spec => []NoOverlap` |
| | `SoundList` | `Spec => []FreeListSound` |
| | `NoneLost` | `Spec => []NothingLost` |
| `SkipListProofs` | `LinksStayRight` | `Spec => []WellLinked` |
| | `RanksStayRight` | `Spec => []RanksExact` |
| | `RangesStayRight` | `Spec => []RangesExact` |

**Dict** (any keys, values and iterators, any hash function, any first size that is a
power of two; `DictAssumption`). That an insertion finds room while a rehash is under
way is no local fact: `dict_maybe_expand` does nothing meanwhile, so table 1 would
overflow if the rehash were slower than the insertions. `Capacity` counts: during a
rehash every insertion moves a chain first, so each chain still to be moved takes one
place off the size of table 1, and what is left is never less than the number of
entries (`Roomy`). `MovedUpTo` says that the chains before `rehash_idx` are empty, which
is why an operation need not look there. For iterators the invariant says that what one
has returned is all that lies before its place (`IterOK`), and no chain moves while
somebody iterates. With these `WellPlaced` is inductive, and each action is shown to be
the step of `KVMap` with the same result: an operation, or, for a chain that moves and
for iterators, a stutter.

**Commands** (any keys, databases, fields, members, delays, options, any bound of the
clock and any width of long long; `ObjectsAssumption`, `KeyspaceAssumption`,
`ListAssumption`, `CommandsAssumption`: among them that a second is more than one clock
tick, and that `None` is no record). The inductive invariant is `TypeOK /\
ExpiresHaveKeys`. The second conjunct is inductive only with the types of the databases
beside it. The first part of the module proves once what each operator of `db.c` does to
the databases: lookups (`LazyOK`), deletion, replacement after a lookup, `db_set_expire`
of a key that was found, the sweep. Each lemma says that the operator keeps
`KeyspaceInv`, loses only expired or named keys (`LosesOnlyExpired`) and keeps the other
deadlines (`KeepsDeadlines`); `Orderly` bundles the three. Then there is one lemma per
command that reduces the command to those operators and types its record, and the
theorems take the cases of `Next`. The action properties follow from the same lemmas
under the invariant: `[Next]_vars` implies each step formula. `NothingRevived` relates
what a command leaves under an expired key to what its record says, so each command is
also shown to be `Straight`: a key it names holds afterwards what its record tells
(`Tells`) of the object before, and every other key is as it was or gone. `TtlSentinels`
is about the one command that answers with a deadline; its truncating division is what
makes the second reading of the clock harmless, and the lemma `TtlAnswer` needs the
second to be longer than the tick that falls inside the command. (`MCTypes` also has
reopening from a snapshot; these theorems are about `Next` alone, and `SavedIsLoaded`
about what reopening adds.)

**AofStore** (the assumptions of the commands). `ReplayExact` compares what the log
gives with what is in memory, and is not inductive: two objects with the same content
need not become the same by the next record (an empty list and an empty hash have the
same content). `SameAt` says more: replay gives the very object that is in memory, or
nothing where memory has an empty container, which a call can leave there without a
record (an LPUSH of nothing). That a record changes memory and log alike is `Straight`
again, and `Tells` asks of it that it makes the same of nothing and of an empty
container.

**RdbStore** (the assumptions of the commands; `RdbStoreAssumption`: databases, keys,
fields and members are finitely many, and what is found is typed and has no deadline
without its key). `rdb_save` lists the keys of the databases, and each hash and sorted
set its pairs, in some order without repetition (`SetToSeqLists`); nothing else is known
of the order, and nothing else is used. Each loop of `rdb_load` then has an invariant of
the same form: what was read so far is there as it was saved, and everything else is
absent (`UpToNext`, `LoadedPartNext`); at the end nothing else is left. For a list the
order is all there is, and each pass adds the next element at the tail
(`ReadElementsOK`). `ObjectSurvives` puts the types together and `DeadlineSurvives` says
what becomes of a deadline. The theorem needs the invariant of the commands along
`RdbSpec`, since a deadline without a key would not be saved.

**StoreLocks** (any clients and savers; `StoreLocksAssumption`). `LocksMatch` is not
inductive: opening a store makes new locks, so nobody may still be in the old one.
`QuietClose` says so: while a client closes, the others are idle, from the join on the
sweeper has exited, and a freed store is behind the sentinel or about to be.
`OneUnlogged` says that at most one command is between its change and its record,
namely the one that holds the GIL; the order of the records follows.

**Durability** (any savers, inodes, configurations and numbers of writes;
`RdbFileAssumption`, `DurabilityAssumption`). `SnapshotWhole` speaks of what
`credish.rdb` names now, but a rename puts there what the temporary name stands for,
and a power loss what the disk still has. So `NamesTended` says of all three that a
file that is not synced has a saver at work on it, and one that is not even whole the
saver that emptied it last; of the temporary name only while somebody is saving,
because a crash may leave anything under it. `broken` ends the promise for good when a
saver stops in the middle of a file in use. For the contents, `Chain` orders the data of an
rdb store in time: what the last save with a synced directory held (`durable`) begins
the snapshot the disk knows, that one begins the snapshot the name stands for, which
also begins with what the last successful save held (`saved`), and that one begins
memory. A kill may leave disk and name apart for sessions, and so may a directory that
cannot be synced; without power `saved` falls back to `durable`. `Fresh` says that
whatever is being written, waits under the temporary name, or is renamed and not yet
synced is memory as it is now.

For the log, `Told(f, i)` says that record *i* of the file *f* is read before anything
torn, and `Tells` what is replayed of it: the write, or, of a record cut behind the `$`
of its last argument, one that nobody made. The writes in memory stand in three places,
one behind the other: the file, stdio's buffer, and the call that has not logged them
yet (`InFile`, `Follows`). While nothing was lost, the file tells of exactly the first
of them (`Exact`), whatever part of the buffer stdio has written out; after a crash of
no more than a beginning, its last write perhaps with an empty argument (`Weak`); and
after a kill with "always" of at least what returned calls had written, since a call
returns with an empty buffer (`AtLeast`). The parts that ask for completeness hold
as long as no record stands behind a torn one (`NoneBehind`). Any cut tells of less
(`KilledTells`, `ShortenedTells`), and whatever `aof_load` makes of the bytes behind a
torn record, it begins with what is told (`Replays`, by induction over the records). This
is why the invariant survives a session that appends behind a torn record and a power
loss that takes all of that away again.

**BufPool** (any threads, slot sizes, page size and header; `BufPoolAssumption`). The
slots handed out are live, on the free list or in a thread's hand; they are apart,
inside a page and below the bump pointer. The links are in the slots' own memory, so
that they still form a list is a statement about everything written there. The
invariant names the list: there is a sequence *q* of slots without repetition, from the
head, each linked to the next and the last to `NULL` (`Pool(F, q)`). Every action
changes *q* at its head or not at all. That following the links gives *q*
(`FreeListIs`) is an induction along the recursive function `Along`. `NothingLost`
needs to know that slots lie at multiples of their size from the header of their page
(`Aligned`), so that a page has no slot between those that were cut.

**SkipList** (any members, scores, number of levels and heights drawn;
`ObjectsAssumption`, `SkipListAssumption`). The invariant names the order of the list:
there is a sequence *q* of the *n* members with a score, sorted by score and member,
such that the list is of `Shape` *q*. Place *p* is the node of *q[p]*, place 0 the
header and place *n* + 1 the end; the link of place *p* at level *i* leads to the first
place after it that has level *i* (`Follows`), and its span is the difference of the two
(`Links`). `WellLinked` is the same without *q*, so that it can be checked. The height of
a node is nowhere restricted, so nothing depends on the random draws.

A search whose condition is true up to place *k* and false behind it ends, on each
level, at the last place up to *k* that has the level, with that place as its rank
(`PathOK`, by induction over the levels and, along each, over the places). All four
searches have such conditions: that the nodes before a score and member form a
beginning of the list is `SplitOK`, that the ranks up to a given one do is plain. An
insertion then changes one link per level, at places that are known (`Inserts`), and
the lemmas for order, places, links and nodes say that the result is of the shape with
the member behind place *k*; a deletion likewise (`Deletes`). They are about any list of
some shape, not about the state, because a change of score is a deletion followed by an
insertion. The levels that `zsl_insert` takes into use again are where the spans could
go wrong: a header whose level was dropped keeps an old span, and `RaisedOK` shows that it
is replaced before it is read.

For the answers, `RankedIs` shows that the sorted sequence is unique, so that the *q* of
the invariant is the `Ranked(dict)` of the properties; the ranks are then those of
`PathOK`, and a range is a walk along the lowest level or along the backward links that
follows *q* up or down (`WalkOK`). `CountIs` turns the numbers of members with lower
scores, of which `RangesExact` speaks, into places.

Induction. The induction theorems of the proof library take an operator as parameter,
which the provers used here cannot instantiate. The inductions of these proofs (along a
chain of links, over the levels of a skiplist, over the records of the log, over the
doublings of a table) go by the least counterexample instead (`LeastElement`). A
recursive function is what its definition says because a function with that first value
and those steps exists (`RunExists`, by `LeastElement` again).

Model-checked only: all liveness, `CallsReturn` and `ExpiredCollected` (TLAPS proves
neither liveness under fairness nor `ENABLED`). Every other property of a passing run is
proved. No module declares a recursive operator, so any of them can be proved about.

## 5. What is not modelled, and why

Memory exhaustion outside the pool (a failed `malloc` leaves commands half done);
`fopen`, `fwrite` and `fflush` of the log that fail, whose results are ignored; the sum
of a clock and a delay that leaves 64 bits (PEXPIRE, SET PX); the early returns of the
handlers one by one, which share one unlock in `StoreLocks`;
Python-level re-entry (garbage collection running a destructor while a handler builds
its answer); encodings of values by the client; the text format of records beyond
where it can be cut; what `rdb_load` makes of a damaged file, beyond "anything"; the
checksum, which nobody reads; the races of overlapping savers on a dict's iterator
counter and on the checksum, which are undefined behaviour in plain C variables; the
realtime clock being set back; `intset.c`, `aof_fsync_bg`, `bufpool_destroy` and the
`adlist` functions without a caller; the links of `adlist.c`, whose two pushes and
one walk are sequences here; the wrapper-only commands of the client, which raise
`AttributeError`; a second close of one handle while the first is still in
`store_close`; Windows' locks (an SRW lock is fairer than the rwlock assumed here).
Replay branches for records nothing writes (DEL, EXPIRE, PERSIST, SELECT, FLUSHDB) are
left out. Strings (`sds.c`) and the option parsers (`server.c`) are pure data.

## 6. Plan

1. `AdList`: links against sequences, and `Slice` against a reference definition of
   inclusive, negative indexes.
2. A failing log: `fwrite` and `fopen` errors in `AofFile`.
3. The early returns of the handlers as steps of their own in `StoreLocks`.
