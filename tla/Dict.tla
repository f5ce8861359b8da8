------------------------------- MODULE Dict --------------------------------
(***************************************************************************)
(* dict.c: the hash table behind every database, its deadlines, every hash *)
(* object and every sorted set.  Two tables; growing starts an incremental *)
(* rehash, and each later lookup or insertion moves one chain from table 0 *)
(* to table 1.                                                             *)
(*                                                                         *)
(* A chain is a set of entries: its order shows only as iteration order,   *)
(* which is left open.  `used' is kept as the counter the code keeps, so   *)
(* an entry linked twice or lost is still visible.  hash(k) & size_mask is *)
(* Hash[k] % size because a size is a power of two.  bufpool_alloc and     *)
(* calloc succeed.                                                         *)
(***************************************************************************)
EXTENDS Integers, FiniteSets, FiniteSetsExt

CONSTANTS Key, Val, NULL,
          Hash,         \* dict_hash_sds, any function of the key
          InitialSize,  \* DICT_INITIAL_SIZE
          Iter          \* the iterators callers may hold at once

Entry == [key : Key, val : Val]

\* The dictIterator of dict.h.  `rest' is what is left of the chain it is in;
\* `seen', `returned' and `done' are history: the keys it returned, how many
\* entries that was, and whether it has reached the end.
Iterator == [table : 0..1, idx : Int, rest : SUBSET Entry,
             seen : SUBSET Key, returned : Nat, done : BOOLEAN]

IsPowerOfTwo(p) == \A d, q \in 1..p : d * q = p => d = 1 \/ d % 2 = 0

ASSUME DictAssumption ==
    /\ IsFiniteSet(Key)
    /\ Hash \in [Key -> Nat]
    /\ InitialSize \in Nat \ {0} /\ IsPowerOfTwo(InitialSize)
    /\ NULL \notin Key \cup Val \cup Iterator

VARIABLES dict,         \* ht[0..1], rehash_idx and the iterators counter
          it,           \* the dictIterator of each iterator, or NULL
          ret           \* result of the last add, replace, find, delete, size

vars == <<dict, it, ret>>

NoTable == [size |-> 0, used |-> 0, buckets |-> [b \in {} |-> {}]]

EmptyTable(n) ==
    [size |-> n, used |-> 0, buckets |-> [b \in 0..(n - 1) |-> {}]]

\* ht[0] and ht[1].
Tables(first, second) == [t \in 0..1 |-> IF t = 0 THEN first ELSE second]

dict_create == [ht |-> Tables(NoTable, NoTable), rehash_idx |-> -1, iterators |-> 0]

Rehashing(d) == d.rehash_idx # -1

dict_size(d) == d.ht[0].used + d.ht[1].used

-----------------------------------------------------------------------------
(* Operations on one table. *)

Chain(table, k) == table.buckets[Hash[k] % table.size]

dict_find_raw(table, k) ==
    IF table.size = 0 THEN {} ELSE {e \in Chain(table, k) : e.key = k}

Insert(table, e) ==
    [table EXCEPT !.buckets[Hash[e.key] % table.size] = @ \cup {e},
                  !.used = @ + 1]

Remove(table, e) ==
    [table EXCEPT !.buckets[Hash[e.key] % table.size] = @ \ {e},
                  !.used = @ - 1]

Overwrite(table, k, v) ==
    [table EXCEPT !.buckets[Hash[k] % table.size] =
        {IF e.key = k THEN [e EXCEPT !.val = v] ELSE e : e \in @}]

-----------------------------------------------------------------------------
(* Growing and rehashing. *)

\* The one power of two from n up to twice n.
next_power(n) == CHOOSE p \in n..(2 * n - 1) : IsPowerOfTwo(p)

dict_expand(d, n) ==
    LET real == next_power(IF n < InitialSize THEN InitialSize ELSE n)
    IN  IF Rehashing(d) THEN d
        ELSE IF d.ht[0].size = 0
          THEN [d EXCEPT !.ht[0] = EmptyTable(real)]
          ELSE [d EXCEPT !.ht[1] = EmptyTable(real), !.rehash_idx = 0]

\* Seeded fault: grows one entry too late.
dict_maybe_expand_late(d) ==
    IF Rehashing(d) THEN d
    ELSE IF d.ht[0].size = 0 THEN dict_expand(d, InitialSize)
    ELSE IF d.ht[0].used > d.ht[0].size
      THEN dict_expand(d, d.ht[0].used * 2)
      ELSE d

dict_maybe_expand(d) ==
    IF Rehashing(d) THEN d
    ELSE IF d.ht[0].size = 0 THEN dict_expand(d, InitialSize)
    ELSE IF d.ht[0].used >= d.ht[0].size
      THEN dict_expand(d, d.ht[0].used * 2)
      ELSE d

\* Bucket b of a table is taken out of it.
Vacate(table, b) ==
    [table EXCEPT !.buckets[b] = {}, !.used = @ - Cardinality(table.buckets[b])]

\* Seeded fault: an entry keeps the bucket number it had in table 0.
ReceiveInPlace(table, moved, b) ==
    [table EXCEPT !.buckets[b] = @ \cup moved, !.used = @ + Cardinality(moved)]

\* Every entry of bucket b of table 0 goes to its bucket of this table.
Receive(table, moved, b) ==
    [table EXCEPT
        !.buckets = [c \in DOMAIN @ |->
                       @[c] \cup {e \in moved : Hash[e.key] % table.size = c}],
        !.used = @ + Cardinality(moved)]

\* The move of one chain.
MoveChain(d, b) ==
    [d EXCEPT !.ht = Tables(Vacate(d.ht[0], b),
                            Receive(d.ht[1], d.ht[0].buckets[b], b)),
              !.rehash_idx = b + 1]

\* Table 1 takes the place of table 0 once nothing is left there.
FinishRehash(d) ==
    IF d.ht[0].used = 0
      THEN [d EXCEPT !.ht = Tables(d.ht[1], NoTable), !.rehash_idx = -1]
      ELSE d

\* Seeded fault: rehashes under a live iterator.
dict_rehash_step_anyway(d) ==
    LET left == {b \in d.rehash_idx..(d.ht[0].size - 1) :
                    d.ht[0].buckets[b] # {}}
    IN  IF ~Rehashing(d) THEN d
        ELSE IF left = {}
          THEN FinishRehash([d EXCEPT !.rehash_idx = d.ht[0].size])
          ELSE FinishRehash(MoveChain(d, Min(left)))

dict_rehash_step(d) ==
    LET left == {b \in d.rehash_idx..(d.ht[0].size - 1) :
                    d.ht[0].buckets[b] # {}}
    IN  IF ~Rehashing(d) \/ d.iterators > 0 THEN d
        ELSE IF left = {}
          THEN FinishRehash([d EXCEPT !.rehash_idx = d.ht[0].size])
          ELSE FinishRehash(MoveChain(d, Min(left)))

-----------------------------------------------------------------------------
(* The calls.  Each has the dict after the call and the entry found.       *)

\* Seeded fault: looks in table 0 only.
FoundInFirst(d, k) == dict_find_raw(d.ht[0], k)

FoundIn(d, k) ==
    LET first == dict_find_raw(d.ht[0], k)
    IN  IF first = {} /\ Rehashing(d) THEN dict_find_raw(d.ht[1], k)
                                      ELSE first

\* dict_find: one rehash step, then the lookup.
dict_find(d, k) == dict_rehash_step(d)

\* dict_add once the key is known to be absent.
LinkNew(d, k, v) ==
    [d EXCEPT !.ht[IF Rehashing(d) THEN 1 ELSE 0] =
        Insert(@, [key |-> k, val |-> v])]

\* dict_add: grow, step, then the step of its dict_find.
AddPrepared(d, k) == dict_find(dict_rehash_step(dict_maybe_expand(d)), k)

dict_add(d, k, v) ==
    LET p == AddPrepared(d, k)
    IN  IF FoundIn(p, k) # {} THEN p ELSE LinkNew(p, k, v)

SetValue(d, k, v) ==
    LET t == IF dict_find_raw(d.ht[0], k) # {} THEN 0 ELSE 1
    IN  [d EXCEPT !.ht[t] = Overwrite(@, k, v)]

dict_replace(d, k, v) ==
    LET p == dict_find(d, k)
    IN  IF FoundIn(p, k) # {} THEN SetValue(p, k, v) ELSE dict_add(p, k, v)

\* Seeded fault: counts every removal against table 0.
dict_delete_miscounted(d, k) ==
    LET t == IF dict_find_raw(d.ht[0], k) # {} THEN 0 ELSE 1
        e == CHOOSE e \in FoundIn(d, k) : TRUE
    IN  [d EXCEPT !.ht[t].buckets[Hash[k] % d.ht[t].size] = @ \ {e},
                  !.ht[0].used = @ - 1]

\* dict_delete takes no rehash step; table 1 is tried only while rehashing.
dict_delete(d, k) ==
    LET t == IF dict_find_raw(d.ht[0], k) # {} THEN 0 ELSE 1
    IN  [d EXCEPT !.ht[t] = Remove(@, CHOOSE e \in FoundIn(d, k) : TRUE)]

-----------------------------------------------------------------------------
(* The state machine.  The callers of dict.c never change a dict they are  *)
(* iterating over (every loop over an iterator in db.c, hash.c, rdb.c and  *)
(* expire.c only reads), but they do look keys up meanwhile.               *)

TypeOK == /\ dict.rehash_idx \in Int
          /\ \A t \in 0..1 :
               LET table == dict.ht[t]
               IN  /\ table.size \in Nat /\ table.used \in Nat
                   /\ table.buckets \in
                        [0..(table.size - 1) -> SUBSET Entry]
          /\ dict.iterators = Cardinality({i \in Iter : it[i] # NULL})
          /\ ret \in Val \cup {NULL, -1} \cup Nat

Init == /\ dict = dict_create
        /\ it = [i \in Iter |-> NULL]
        /\ ret = 0

NoIterator == dict.iterators = 0

Add(k, v) ==
    /\ NoIterator
    /\ dict' = dict_add(dict, k, v)
    /\ ret' = IF FoundIn(AddPrepared(dict, k), k) # {} THEN -1 ELSE 0
    /\ UNCHANGED it

Replace(k, v) ==
    /\ NoIterator
    /\ dict' = dict_replace(dict, k, v)
    /\ ret' = 0
    /\ UNCHANGED it

Find(k) ==
    LET d     == dict_find(dict, k)
        found == FoundIn(d, k)
    IN  /\ dict' = d
        /\ ret' = IF found = {} THEN NULL ELSE (CHOOSE e \in found : TRUE).val
        /\ UNCHANGED it

Delete(k) ==
    /\ NoIterator
    /\ IF FoundIn(dict, k) = {}
         THEN ret' = -1 /\ UNCHANGED dict
         ELSE ret' = 0 /\ dict' = dict_delete(dict, k)
    /\ UNCHANGED it

Size == ret' = dict_size(dict) /\ UNCHANGED <<dict, it>>

-----------------------------------------------------------------------------
(* Iterators. *)

dict_iter_new(i) ==
    /\ it[i] = NULL
    /\ it' = [it EXCEPT ![i] = [table |-> 0, idx |-> -1, rest |-> {},
                                seen |-> {}, returned |-> 0, done |-> FALSE]]
    /\ dict' = [dict EXCEPT !.iterators = @ + 1]
    /\ UNCHANGED ret

\* The first non-empty bucket of table t from bucket n on, as a set of one
\* position, or the empty set.
NextBucket(d, t, n) ==
    LET bs == {b \in n..(d.ht[t].size - 1) : d.ht[t].buckets[b] # {}}
    IN  IF bs = {} THEN {}
        ELSE {[table |-> t, idx |-> Min(bs), chain |-> d.ht[t].buckets[Min(bs)]]}

\* Where the loop of dict_iter_next stops: in the chain it is in, in a later
\* bucket of the table, or, leaving table 0 during a rehash, in table 1.
Ahead(d, pos) ==
    LET here == NextBucket(d, pos.table, pos.idx + 1)
    IN  IF pos.rest # {}
          THEN {[table |-> pos.table, idx |-> pos.idx, chain |-> pos.rest]}
          ELSE IF here = {} /\ pos.table = 0 /\ Rehashing(d)
            THEN NextBucket(d, 1, 0)
            ELSE here

dict_iter_next(i) ==
    /\ it[i] # NULL /\ ~it[i].done
    /\ \/ \E at \in Ahead(dict, it[i]) : \E e \in at.chain :
            it' = [it EXCEPT ![i].table = at.table, ![i].idx = at.idx,
                             ![i].rest = at.chain \ {e},
                             ![i].seen = @ \cup {e.key},
                             ![i].returned = @ + 1]
       \/ /\ Ahead(dict, it[i]) = {}
          /\ it' = [it EXCEPT ![i].done = TRUE]
    /\ UNCHANGED <<dict, ret>>

dict_iter_free(i) ==
    /\ it[i] # NULL
    /\ it' = [it EXCEPT ![i] = NULL]
    /\ dict' = [dict EXCEPT !.iterators = @ - 1]
    /\ UNCHANGED ret

Next == \/ \E k \in Key, v \in Val : Add(k, v) \/ Replace(k, v)
        \/ \E k \in Key : Find(k) \/ Delete(k)
        \/ Size
        \/ \E i \in Iter :
             dict_iter_new(i) \/ dict_iter_next(i) \/ dict_iter_free(i)

Spec == Init /\ [][Next]_vars

-----------------------------------------------------------------------------
(* What must hold. *)

Contents(table) == UNION {table.buckets[b] : b \in DOMAIN table.buckets}

Entries(d, t) == Contents(d.ht[t])

All(d) == Entries(d, 0) \cup Entries(d, 1)

Keys(d) == {e.key : e \in All(d)}

\* The map a dict stands for: the entry of either table, or nothing.
AbstractMap(d) ==
    [k \in Key |-> LET es == {e \in All(d) : e.key = k}
                   IN  IF es = {} THEN NULL ELSE (CHOOSE e \in es : TRUE).val]

Map == INSTANCE KVMap WITH map <- AbstractMap(dict)

\* Every call behaves like the call of an atomic map, whatever the rehash has
\* moved so far: no entry is lost, found twice, or found with an old value,
\* and dict_size is the number of keys.
ImplementsMap == Map!Spec

\* Every entry sits in the one bucket its hash names, no key is linked twice in
\* or across the tables, the used counters are exact, table 1 exists only
\* during a rehash, and everything below rehash_idx has been moved.
WellPlaced ==
    /\ \A t \in 0..1 : \A b \in DOMAIN dict.ht[t].buckets :
         \A e \in dict.ht[t].buckets[b] : Hash[e.key] % dict.ht[t].size = b
    /\ \A t \in 0..1 : dict.ht[t].used = Cardinality(Entries(dict, t))
    /\ dict_size(dict) = Cardinality(Keys(dict))
    /\ Rehashing(dict) <=> dict.ht[1].size > 0
    /\ Rehashing(dict) => \A b \in 0..(dict.rehash_idx - 1) :
                            dict.ht[0].buckets[b] = {}

\* The incremental rehash finishes before table 1 fills up: there are never
\* more entries than buckets in the table insertions go to, so chains stay
\* short although dict_maybe_expand does nothing while rehashing.
LoadBounded ==
    dict_size(dict) <= dict.ht[IF Rehashing(dict) THEN 1 ELSE 0].size

\* An iterator returns no entry twice, and when it ends it has returned every
\* key, though it crosses two tables and lookups go on meanwhile (the rehash
\* must stand still for that: dict_rehash_step checks the iterators counter).
IteratorVisitsAllOnce ==
    \A i \in Iter : it[i] # NULL =>
        /\ it[i].returned = Cardinality(it[i].seen)
        /\ it[i].done => it[i].seen = Keys(dict)
=============================================================================
