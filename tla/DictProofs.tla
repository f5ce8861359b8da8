----------------------------- MODULE DictProofs -----------------------------
(***************************************************************************)
(* dict.c proved for any keys, values, hash function, initial size and     *)
(* iterators: the table layout, the room the incremental rehash leaves,    *)
(* what an iterator returns, and that every call is one step of KVMap.     *)
(*                                                                         *)
(* The lemmas speak of a dict d, not of the variable: each operation of    *)
(* Dict maps a good dict to a good dict and is described by what it does   *)
(* to All(d), the set of entries.                                          *)
(***************************************************************************)
EXTENDS Dict, Induction, FiniteSetTheorems, TLAPS

\* The entries of S belong in bucket b of a table of size n.
HashTo(S, n, b) == S \subseteq {e \in Entry : Hash[e.key] % n = b}

\* A table whose entries sit where their hash says.
Placed(tb) ==
    /\ tb \in [size : Nat, used : Int, buckets : [0..(tb.size - 1) -> SUBSET Entry]]
    /\ \A b \in 0..(tb.size - 1) : HashTo(tb.buckets[b], tb.size, b)

TableOK(tb) == /\ Placed(tb)
               /\ IsFiniteSet(Contents(tb))
               /\ tb.used = Cardinality(Contents(tb))

\* Table tb with the chain S in bucket b and the counter u.
Rechained(tb, b, S, u) == [tb EXCEPT !.buckets[b] = S, !.used = u]

\* What comes of it.
IsRechained(tc, tb, b, S, u) ==
    /\ Placed(tc) /\ tc.size = tb.size /\ tc.used = u
    /\ tc.buckets[b] = S
    /\ \A c \in 0..(tb.size - 1) : c # b => tc.buckets[c] = tb.buckets[c]
    /\ Contents(tc) = (Contents(tb) \ tb.buckets[b]) \cup S

UniqueKeys(S) == \A e, f \in S : e.key = f.key => e = f

Shape(d) ==
    /\ d \in [ht : {d.ht}, rehash_idx : Int, iterators : Nat]
    /\ d.ht \in [0..1 -> {d.ht[0], d.ht[1]}]

Sound(d) ==
    /\ Shape(d)
    /\ TableOK(d.ht[0]) /\ TableOK(d.ht[1])
    /\ Entries(d, 0) \cap Entries(d, 1) = {}
    /\ UniqueKeys(All(d))

\* All the buckets before idx have been moved.
MovedUpTo(d, idx) ==
    /\ d.rehash_idx = idx
    /\ d.ht[1].size > 0
    /\ \A b \in 0..(idx - 1) : d.ht[0].buckets[b] = {}

DictOK(d) ==
    /\ Sound(d)
    /\ \/ d.rehash_idx = -1 /\ d.ht[1] = NoTable
       \/ \E idx \in 0..(d.ht[0].size - 1) : MovedUpTo(d, idx)

\* How many entries fit.  During a rehash every insertion moves at least one
\* bucket first, so each bucket still to be moved stands for one insertion.
Capacity(d) == IF Rehashing(d) THEN d.ht[1].size - (d.ht[0].size - d.rehash_idx)
               ELSE d.ht[0].size

-----------------------------------------------------------------------------
(* Numbers. *)

\* The minimum of a set of numbers is its least.
LEMMA MinOK ==
    ASSUME NEW S \in SUBSET Nat, S # {}
    PROVE  Min(S) \in S /\ \A m \in S : Min(S) <= m
BY LeastElement DEF Min

\* A table that is doubled keeps a size that is a power of two (dict_expand).
LEMMA DoubledPower ==
    ASSUME NEW p \in Nat \ {0}, IsPowerOfTwo(p)
    PROVE  IsPowerOfTwo(2 * p)
<1> SUFFICES ASSUME NEW d \in 1..(2 * p), NEW q \in 1..(2 * p), d * q = 2 * p, d % 2 # 0
             PROVE  d = 1
  BY DEF IsPowerOfTwo
<1>1. PICK e \in Int : d = 2 * e + 1
  OBVIOUS
<1> DEFINE r == p - e * q
<1>2. r \in Int /\ q = 2 * r
  BY <1>1
<1> HIDE DEF r
<1>3. r \in Nat \ {0} /\ d * r = p
  BY <1>2
<1>4. d \in 1..p /\ r \in 1..p
  BY <1>3
<1> QED
  BY <1>3, <1>4 DEF IsPowerOfTwo

\* next_power finds a power of two: there is one between n and twice n.
LEMMA NextPowerOK ==
    ASSUME NEW n \in Nat \ {0}
    PROVE  next_power(n) \in Nat /\ n <= next_power(n)
<1> DEFINE Has(m) == \E p \in m..(2 * m - 1) : IsPowerOfTwo(p)
<1>1. Has(n)
  <2> SUFFICES ASSUME {m \in Nat \ {0} : ~Has(m)} # {} PROVE FALSE
    OBVIOUS
  <2>1. PICK m \in Nat \ {0} : ~Has(m) /\ \A k \in Nat \ {0} : ~Has(k) => m <= k
    <3> HIDE DEF Has
    <3> QED
      BY LeastElement
  <2>2. m # 1
    BY <2>1 DEF IsPowerOfTwo
  <2>3. PICK p \in (m - 1)..(2 * (m - 1) - 1) : IsPowerOfTwo(p)
    BY <2>1, <2>2
  <2>4. CASE p >= m
    BY <2>1, <2>3, <2>4
  <2>5. CASE p = m - 1
    <3>1. IsPowerOfTwo(2 * p) /\ 2 * p \in m..(2 * m - 1)
      BY <2>2, <2>3, <2>5, DoubledPower
    <3> QED
      BY <2>1, <3>1
  <2> QED
    BY <2>3, <2>4, <2>5
<1> QED
  BY <1>1 DEF next_power

\* The bucket of a key is in the table.
LEMMA BucketOK ==
    ASSUME NEW k \in Key, NEW n \in Nat, n > 0
    PROVE  Hash[k] % n \in 0..(n - 1)
BY DictAssumption

-----------------------------------------------------------------------------
(* Tables. *)

\* An entry of a table is in the bucket of its hash.
LEMMA InContents ==
    ASSUME NEW tb, Placed(tb), NEW e
    PROVE  e \in Contents(tb) <=>
             /\ e \in Entry
             /\ tb.size > 0
             /\ e \in tb.buckets[Hash[e.key] % tb.size]
<1>1. ASSUME e \in Contents(tb)
      PROVE  e \in Entry /\ tb.size > 0 /\ e \in tb.buckets[Hash[e.key] % tb.size]
  BY <1>1 DEF Contents, Placed, HashTo
<1>2. ASSUME e \in Entry, tb.size > 0, e \in tb.buckets[Hash[e.key] % tb.size]
      PROVE  e \in Contents(tb)
  <2>1. Hash[e.key] % tb.size \in 0..(tb.size - 1)
    BY <1>2, BucketOK DEF Placed, Entry
  <2> QED
    BY <1>2, <2>1 DEF Contents, Placed
<1> QED
  BY <1>1, <1>2

\* The empty table of a dict that is not being rehashed is sound.
LEMMA NoTableOK == TableOK(NoTable) /\ Contents(NoTable) = {}
<1>1. Contents(NoTable) = {}
  BY DEF Contents, NoTable
<1>2. Placed(NoTable)
  BY DEF Placed, NoTable
<1> QED
  BY <1>1, <1>2, FS_EmptySet DEF TableOK, NoTable

\* So is a new table of any size.
LEMMA EmptyTableOK ==
    ASSUME NEW n \in Nat
    PROVE  TableOK(EmptyTable(n)) /\ Contents(EmptyTable(n)) = {}
<1>1. Contents(EmptyTable(n)) = {}
  BY DEF Contents, EmptyTable
<1>2. Placed(EmptyTable(n))
  BY DEF Placed, EmptyTable, HashTo
<1> QED
  BY <1>1, <1>2, FS_EmptySet DEF TableOK, EmptyTable

\* What a new chain in one bucket does to a table.
LEMMA RechainedOK ==
    ASSUME NEW tb, Placed(tb), NEW b \in 0..(tb.size - 1), NEW S, HashTo(S, tb.size, b),
           NEW u \in Int
    PROVE  IsRechained(Rechained(tb, b, S, u), tb, b, S, u)
<1> DEFINE tc == Rechained(tb, b, S, u)
<1>1. tc.size = tb.size
  BY DEF Rechained, Placed
<1>2. tc.used = u
  BY DEF Rechained, Placed
<1>3. tc.buckets = [tb.buckets EXCEPT ![b] = S]
  BY DEF Rechained, Placed
<1>4. /\ tc.buckets \in [0..(tb.size - 1) -> SUBSET Entry]
      /\ tc.buckets[b] = S
      /\ \A c \in 0..(tb.size - 1) : c # b => tc.buckets[c] = tb.buckets[c]
  BY <1>3 DEF Placed, HashTo
<1>5. Placed(tc)
  <2>1. tc \in [size : Nat, used : Int, buckets : [0..(tc.size - 1) -> SUBSET Entry]]
    BY <1>1, <1>2, <1>4 DEF Rechained, Placed
  <2> QED
    BY <1>1, <1>4, <2>1 DEF Placed
<1>6. ASSUME NEW e
      PROVE  e \in Contents(tc) <=> e \in (Contents(tb) \ tb.buckets[b]) \cup S
  <2>1. \A c \in 0..(tb.size - 1) : e \in tb.buckets[c] => Hash[e.key] % tb.size = c
    BY DEF Placed, HashTo
  <2>2. e \in Contents(tb) <=> \E c \in 0..(tb.size - 1) : e \in tb.buckets[c]
    BY DEF Contents, Placed
  <2>3. e \in Contents(tc) <=> \E c \in 0..(tb.size - 1) : e \in tc.buckets[c]
    BY <1>1, <1>4 DEF Contents
  <2> QED
    BY <1>4, <2>1, <2>2, <2>3
<1> QED
  BY <1>1, <1>2, <1>4, <1>5, <1>6 DEF IsRechained

\* The chain a key belongs to.
LEMMA FindRaw ==
    ASSUME NEW tb, Placed(tb), NEW k \in Key
    PROVE  dict_find_raw(tb, k) = {e \in Contents(tb) : e.key = k}
<1>1. CASE tb.size = 0
  BY <1>1, InContents DEF dict_find_raw
<1>2. CASE tb.size # 0
  <2>1. tb.size > 0
    BY <1>2 DEF Placed
  <2>2. \A e \in Chain(tb, k) : e \in Entry
    BY <2>1, BucketOK DEF Chain, Placed
  <2> QED
    BY <1>2, <2>1, <2>2, InContents DEF dict_find_raw, Chain
<1> QED
  BY <1>1, <1>2

\* An entry put into its chain is in the table, and is counted (dict_add).
LEMMA InsertOK ==
    ASSUME NEW tb, TableOK(tb), tb.size > 0, NEW e \in Entry, e \notin Contents(tb)
    PROVE  /\ TableOK(Insert(tb, e))
           /\ Contents(Insert(tb, e)) = Contents(tb) \cup {e}
           /\ Insert(tb, e).size = tb.size
           /\ Insert(tb, e).used = tb.used + 1
<1> DEFINE b == Hash[e.key] % tb.size
           S == tb.buckets[b] \cup {e}
<1>1. b \in 0..(tb.size - 1) /\ tb.used \in Int /\ Placed(tb)
  <2>1. Placed(tb) /\ tb.used \in Int /\ tb.size \in Nat
    BY DEF TableOK, Placed
  <2> QED
    BY <2>1, BucketOK DEF Entry
<1>2. HashTo(S, tb.size, b)
  BY <1>1 DEF TableOK, Placed, HashTo
<1>3. Insert(tb, e) = Rechained(tb, b, S, tb.used + 1)
  BY DEF Insert, Rechained
<1>4. tb.buckets[b] \subseteq Contents(tb)
  BY <1>1 DEF Contents, TableOK, Placed
<1> HIDE DEF b, S
<1>5. IsRechained(Insert(tb, e), tb, b, S, tb.used + 1)
  BY <1>1, <1>2, <1>3, RechainedOK
<1>6. Contents(Insert(tb, e)) = Contents(tb) \cup {e}
  BY <1>4, <1>5 DEF S, IsRechained
<1>7. /\ IsFiniteSet(Contents(tb) \cup {e})
      /\ Cardinality(Contents(tb) \cup {e}) = tb.used + 1
  BY FS_AddElement DEF TableOK
<1>8. TableOK(Insert(tb, e))
  BY <1>5, <1>6, <1>7 DEF TableOK, IsRechained
<1> QED
  BY <1>5, <1>6, <1>8 DEF IsRechained

\* An entry taken out of its chain is gone and is counted off; empty chains stay empty.
LEMMA RemoveOK ==
    ASSUME NEW tb, TableOK(tb), NEW e \in Contents(tb)
    PROVE  /\ TableOK(Remove(tb, e))
           /\ Contents(Remove(tb, e)) = Contents(tb) \ {e}
           /\ Remove(tb, e).size = tb.size
           /\ Remove(tb, e).used = tb.used - 1
           /\ \A c \in 0..(tb.size - 1) : tb.buckets[c] = {} => Remove(tb, e).buckets[c] = {}
<1> DEFINE b == Hash[e.key] % tb.size
           S == tb.buckets[b] \ {e}
<1>1. b \in 0..(tb.size - 1) /\ e \in tb.buckets[b] /\ tb.used \in Int /\ Placed(tb)
  <2>1. Placed(tb) /\ tb.used \in Int /\ tb.size \in Nat
    BY DEF TableOK, Placed
  <2>2. e \in Entry /\ tb.size > 0 /\ e \in tb.buckets[b]
    BY <2>1, InContents
  <2> QED
    BY <2>1, <2>2, BucketOK DEF Entry
<1>2. HashTo(S, tb.size, b)
  BY <1>1 DEF TableOK, Placed, HashTo
<1>3. Remove(tb, e) = Rechained(tb, b, S, tb.used - 1)
  BY DEF Remove, Rechained
<1>4. tb.buckets[b] \subseteq Contents(tb)
  BY <1>1 DEF Contents, TableOK, Placed
<1> HIDE DEF b, S
<1>5. IsRechained(Remove(tb, e), tb, b, S, tb.used - 1)
  BY <1>1, <1>2, <1>3, RechainedOK
<1>6. Contents(Remove(tb, e)) = Contents(tb) \ {e}
  BY <1>1, <1>4, <1>5 DEF S, IsRechained
<1>7. /\ IsFiniteSet(Contents(tb) \ {e})
      /\ Cardinality(Contents(tb) \ {e}) = tb.used - 1
  BY FS_RemoveElement DEF TableOK
<1>8. TableOK(Remove(tb, e))
  BY <1>5, <1>6, <1>7 DEF TableOK, IsRechained
<1>9. \A c \in 0..(tb.size - 1) : tb.buckets[c] = {} => Remove(tb, e).buckets[c] = {}
  BY <1>1, <1>5 DEF IsRechained
<1> QED
  BY <1>5, <1>6, <1>8, <1>9 DEF IsRechained

-----------------------------------------------------------------------------
(* Two tables. *)

\* Dict c is d with other tables and another position of the rehash.
IsDict(c, d, first, second, idx) ==
    /\ Shape(c)
    /\ c.ht[0] = first /\ c.ht[1] = second
    /\ c.rehash_idx = idx
    /\ c.iterators = d.iterators

Renewed(d, first, second, idx) ==
    [d EXCEPT !.ht = Tables(first, second), !.rehash_idx = idx]

\* A dict with other tables and another place of the rehash is that record.
LEMMA RenewedOK ==
    ASSUME NEW d, Shape(d), NEW first, NEW second, NEW idx \in Int
    PROVE  IsDict(Renewed(d, first, second, idx), d, first, second, idx)
<1> DEFINE c    == Renewed(d, first, second, idx)
           both == Tables(first, second)
<1>1. both \in [0..1 -> {first, second}] /\ both[0] = first /\ both[1] = second
  BY DEF Tables
<1> HIDE DEF both
<1>2. c.ht = both
  BY DEF Renewed, Shape, both
<1>3. c.rehash_idx = idx
  BY DEF Renewed, Shape
<1>4. c.iterators = d.iterators
  BY DEF Renewed, Shape
<1>5. c \in [ht : {c.ht}, rehash_idx : Int, iterators : Nat]
  BY <1>2, <1>3, <1>4 DEF Renewed, Shape
<1> HIDE DEF c
<1>6. IsDict(c, d, first, second, idx)
  BY <1>1, <1>2, <1>3, <1>4, <1>5 DEF IsDict, Shape
<1> QED
  BY <1>6 DEF c

\* The entries of both tables are finitely many, and dict_size is their number.
LEMMA EntriesOK ==
    ASSUME NEW d, Sound(d)
    PROVE  /\ IsFiniteSet(All(d)) /\ All(d) \subseteq Entry
           /\ dict_size(d) = Cardinality(All(d))
           /\ dict_size(d) \in Nat
<1>1. /\ IsFiniteSet(Entries(d, 0)) /\ d.ht[0].used = Cardinality(Entries(d, 0))
      /\ IsFiniteSet(Entries(d, 1)) /\ d.ht[1].used = Cardinality(Entries(d, 1))
      /\ Entries(d, 0) \cap Entries(d, 1) = {}
  BY DEF Sound, TableOK, Entries
<1>2. IsFiniteSet(All(d))
  BY <1>1, FS_Union DEF All
<1>3. Cardinality(All(d)) = Cardinality(Entries(d, 0)) + Cardinality(Entries(d, 1))
  <2>1. Cardinality(All(d)) = Cardinality(Entries(d, 0)) + Cardinality(Entries(d, 1))
                                - Cardinality(Entries(d, 0) \cap Entries(d, 1))
    BY <1>1, FS_Union DEF All
  <2>2. Cardinality(Entries(d, 0) \cap Entries(d, 1)) = 0
    BY <1>1, FS_EmptySet
  <2> QED
    BY <1>1, <2>1, <2>2, FS_CardinalityType
<1>4. All(d) \subseteq Entry
  BY InContents DEF Sound, TableOK, All, Entries
<1> QED
  BY <1>1, <1>2, <1>3, <1>4, FS_CardinalityType DEF dict_size

\* Taking the chain of bucket b out of table 0, and putting it into table 1.
LEMMA VacateOK ==
    ASSUME NEW tb, TableOK(tb), NEW b \in 0..(tb.size - 1)
    PROVE  /\ TableOK(Vacate(tb, b))
           /\ IsRechained(Vacate(tb, b), tb, b, {}, tb.used - Cardinality(tb.buckets[b]))
           /\ IsFiniteSet(tb.buckets[b])
           /\ tb.buckets[b] \subseteq Contents(tb)
<1> DEFINE n == Cardinality(tb.buckets[b])
<1>1. tb.buckets[b] \subseteq Contents(tb)
  BY DEF Contents, TableOK, Placed
<1>2. IsFiniteSet(tb.buckets[b]) /\ n \in Nat /\ tb.used \in Int /\ Placed(tb)
  BY <1>1, FS_Subset, FS_CardinalityType DEF TableOK, Placed
<1>3. HashTo({}, tb.size, b)
  BY DEF HashTo
<1>4. Vacate(tb, b) = Rechained(tb, b, {}, tb.used - n)
  BY DEF Vacate, Rechained
<1> HIDE DEF n
<1>5. IsRechained(Vacate(tb, b), tb, b, {}, tb.used - n)
  BY <1>2, <1>3, <1>4, RechainedOK
<1>6. Contents(Vacate(tb, b)) = Contents(tb) \ tb.buckets[b]
  BY <1>5 DEF IsRechained
<1>7. /\ IsFiniteSet(Contents(tb) \ tb.buckets[b])
      /\ Cardinality(Contents(tb) \ tb.buckets[b]) = tb.used - n
  <2>1. Contents(tb) \cap tb.buckets[b] = tb.buckets[b]
    BY <1>1
  <2>2. /\ IsFiniteSet(Contents(tb) \ tb.buckets[b])
        /\ Cardinality(Contents(tb) \ tb.buckets[b])
             = Cardinality(Contents(tb)) - Cardinality(Contents(tb) \cap tb.buckets[b])
    BY FS_Difference DEF TableOK
  <2> QED
    BY <2>1, <2>2 DEF TableOK, n
<1>8. TableOK(Vacate(tb, b))
  BY <1>5, <1>6, <1>7 DEF IsRechained, TableOK
<1> QED
  BY <1>1, <1>2, <1>5, <1>8 DEF n

\* A chain from table 0, dealt out over table 1 by the hash, is then in table 1.
LEMMA ReceiveOK ==
    ASSUME NEW tb, TableOK(tb), tb.size > 0, NEW b,
           NEW S \in SUBSET Entry, IsFiniteSet(S), S \cap Contents(tb) = {}
    PROVE  /\ TableOK(Receive(tb, S, b))
           /\ Contents(Receive(tb, S, b)) = Contents(tb) \cup S
           /\ Receive(tb, S, b).size = tb.size
<1> DEFINE tc   == Receive(tb, S, b)
           n    == Cardinality(S)
           To(c) == {e \in S : Hash[e.key] % tb.size = c}
           B    == [c \in DOMAIN tb.buckets |-> tb.buckets[c] \cup To(c)]
<1>1. n \in Nat /\ tb.used \in Int
  BY FS_CardinalityType DEF TableOK, Placed
<1>2. tc = [tb EXCEPT !.buckets = B, !.used = tb.used + n]
  BY DEF Receive
<1> HIDE DEF tc, n, To, B
<1>3. tc.size = tb.size
  BY <1>2 DEF TableOK, Placed
<1>4. tc.used = tb.used + n
  BY <1>2 DEF TableOK, Placed
<1>5. /\ tc.buckets = B
      /\ B = [c \in 0..(tb.size - 1) |-> tb.buckets[c] \cup To(c)]
  BY <1>2 DEF TableOK, Placed, B
<1>6. \A c \in 0..(tb.size - 1) : HashTo(To(c), tb.size, c) /\ HashTo(tb.buckets[c], tb.size, c)
  BY DEF HashTo, To, TableOK, Placed
<1>7. Placed(tc)
  <2>1. \A c \in 0..(tb.size - 1) : HashTo(tc.buckets[c], tc.size, c)
    BY <1>3, <1>5, <1>6 DEF HashTo
  <2>2. tc.buckets \in [0..(tc.size - 1) -> SUBSET Entry]
    BY <1>3, <1>5, <2>1 DEF HashTo
  <2>3. tc \in [size : Nat, used : Int, buckets : [0..(tc.size - 1) -> SUBSET Entry]]
    <3>1. tc \in [size : {tb.size}, used : {tb.used + n}, buckets : {B}]
      BY <1>2 DEF TableOK, Placed
    <3> QED
      BY <1>1, <1>3, <1>5, <2>2, <3>1 DEF TableOK, Placed
  <2> QED
    BY <1>3, <2>1, <2>3 DEF Placed
<1>8. Contents(tc) = Contents(tb) \cup S
  <2>1. ASSUME NEW e PROVE e \in Contents(tc) <=> \E c \in 0..(tb.size - 1) : e \in tb.buckets[c] \/ e \in To(c)
    BY <1>5 DEF Contents
  <2>2. ASSUME NEW e PROVE e \in Contents(tb) <=> \E c \in 0..(tb.size - 1) : e \in tb.buckets[c]
    BY DEF Contents, TableOK, Placed
  <2>3. ASSUME NEW e \in S PROVE \E c \in 0..(tb.size - 1) : e \in To(c)
    BY BucketOK DEF To, Entry, TableOK, Placed
  <2>4. \A c : To(c) \subseteq S
    BY DEF To
  <2> QED
    BY <2>1, <2>2, <2>3, <2>4
<1>9. IsFiniteSet(Contents(tb) \cup S) /\ Cardinality(Contents(tb) \cup S) = tb.used + n
  <2>1. Cardinality(S \cap Contents(tb)) = 0
    BY FS_EmptySet
  <2>2. Contents(tb) \cap S = S \cap Contents(tb)
    OBVIOUS
  <2>3. /\ IsFiniteSet(Contents(tb) \cup S)
        /\ Cardinality(Contents(tb) \cup S)
             = Cardinality(Contents(tb)) + Cardinality(S) - Cardinality(Contents(tb) \cap S)
    BY FS_Union DEF TableOK
  <2> QED
    BY <1>1, <2>1, <2>2, <2>3 DEF TableOK, n
<1>10. TableOK(tc)
  BY <1>4, <1>7, <1>8, <1>9 DEF TableOK
<1> QED
  BY <1>3, <1>8, <1>10 DEF tc

-----------------------------------------------------------------------------
(* The rehash. *)

\* Dict c has the entries of d, and room for `more' further ones.
Continues(c, d, more) ==
    /\ All(c) = All(d)
    /\ c.iterators = d.iterators
    /\ Capacity(c) >= Capacity(d) + more

\* A dict whose rehash may be at the end of table 0.
Unfinished(d) == Sound(d) /\ \E idx \in 0..(d.ht[0].size) : MovedUpTo(d, idx)

\* Sizes and counters of a sound dict are numbers.
LEMMA Sizes ==
    ASSUME NEW d, Sound(d)
    PROVE  d.ht[0].size \in Nat /\ d.ht[1].size \in Nat /\ d.ht[0].used \in Nat
<1>1. d.ht[0].used \in Nat
  BY FS_CardinalityType DEF Sound, TableOK
<1> QED
  BY <1>1 DEF Sound, TableOK, Placed

\* So is the room it has.
LEMMA CapacityInt ==
    ASSUME NEW d, Sound(d)
    PROVE  Capacity(d) \in Int
<1>1. d.rehash_idx \in Int
  BY DEF Sound, Shape
<1> QED
  BY <1>1, Sizes DEF Capacity

\* A rehash step that may have emptied table 0 leaves a good dict with the same entries,
\* whether it ends the rehash or not (the end of dict_rehash_step).
LEMMA FinishOK ==
    ASSUME NEW d, Unfinished(d)
    PROVE  DictOK(FinishRehash(d)) /\ Continues(FinishRehash(d), d, 0)
<1>1. PICK idx \in 0..(d.ht[0].size) : MovedUpTo(d, idx)
  BY DEF Unfinished
<1>2. d.ht[0].size \in Nat /\ d.ht[1].size \in Nat /\ Sound(d) /\ Rehashing(d)
  BY <1>1, Sizes DEF Unfinished, MovedUpTo, Rehashing
<1>3. CASE d.ht[0].used # 0
  <2>1. Contents(d.ht[0]) # {}
    BY <1>2, <1>3, FS_EmptySet DEF Sound, TableOK
  <2>2. idx # d.ht[0].size
    BY <1>1, <1>2, <2>1 DEF MovedUpTo, Contents, Sound, TableOK, Placed
  <2>3. FinishRehash(d) = d
    BY <1>3 DEF FinishRehash
  <2>4. idx \in 0..(d.ht[0].size - 1)
    BY <1>2, <2>2
  <2>5. DictOK(d)
    BY <1>1, <1>2, <2>4 DEF DictOK
  <2>6. Continues(d, d, 0)
    BY <1>1, <1>2 DEF Continues, Capacity, MovedUpTo
  <2> QED
    BY <2>3, <2>5, <2>6
<1>4. CASE d.ht[0].used = 0
  <2> DEFINE c == FinishRehash(d)
  <2>1. c = Renewed(d, d.ht[1], NoTable, -1)
    BY <1>4 DEF FinishRehash, Renewed
  <2> HIDE DEF c
  <2>2. IsDict(c, d, d.ht[1], NoTable, -1)
    BY <1>2, <2>1, RenewedOK DEF Sound
  <2>3. Contents(d.ht[0]) = {}
    BY <1>2, <1>4, FS_EmptySet DEF Sound, TableOK
  <2>4. /\ Entries(c, 0) = Entries(d, 1) /\ Entries(c, 1) = {}
        /\ Entries(d, 0) = {}
    BY <2>2, <2>3, NoTableOK DEF Entries, IsDict
  <2>5. All(c) = All(d)
    BY <2>4 DEF All
  <2>6. DictOK(c)
    BY <1>2, <2>2, <2>4, <2>5, NoTableOK DEF IsDict, DictOK, Sound
  <2>7. Continues(c, d, 0)
    BY <1>1, <1>2, <2>2, <2>5 DEF Continues, Capacity, IsDict, Rehashing, MovedUpTo
  <2> QED
    BY <2>6, <2>7 DEF c
<1> QED
  BY <1>3, <1>4

\* Moving a chain keeps all entries and leaves nothing behind it (dict_rehash_step).
LEMMA MoveChainOK ==
    ASSUME NEW d, Sound(d), d.ht[1].size > 0, NEW b \in 0..(d.ht[0].size - 1),
           \A c \in 0..(b - 1) : d.ht[0].buckets[c] = {}
    PROVE  /\ Unfinished(MoveChain(d, b))
           /\ IsDict(MoveChain(d, b), d, Vacate(d.ht[0], b),
                     Receive(d.ht[1], d.ht[0].buckets[b], b), b + 1)
           /\ All(MoveChain(d, b)) = All(d)
           /\ MoveChain(d, b).ht[0].size = d.ht[0].size
           /\ MoveChain(d, b).ht[1].size = d.ht[1].size
<1> DEFINE m     == MoveChain(d, b)
           moved == d.ht[0].buckets[b]
           one   == Vacate(d.ht[0], b)
           two   == Receive(d.ht[1], moved, b)
<1>1. IsDict(m, d, one, two, b + 1)
  <2>1. m = Renewed(d, one, two, b + 1)
    BY DEF MoveChain, Renewed
  <2>2. b + 1 \in Int
    BY Sizes
  <2> HIDE DEF m, one, two
  <2> QED
    BY <2>1, <2>2, RenewedOK DEF Sound
<1>2. /\ TableOK(one)
      /\ IsRechained(one, d.ht[0], b, {}, d.ht[0].used - Cardinality(moved))
      /\ IsFiniteSet(moved)
      /\ moved \subseteq Contents(d.ht[0])
  BY VacateOK DEF Sound
<1>3. moved \subseteq Entry /\ moved \cap Contents(d.ht[1]) = {}
  BY <1>2, InContents DEF Sound, Entries, TableOK
<1>4. /\ TableOK(two)
      /\ Contents(two) = Contents(d.ht[1]) \cup moved
      /\ two.size = d.ht[1].size
  BY <1>2, <1>3, ReceiveOK DEF Sound
<1>5. /\ one.size = d.ht[0].size
      /\ Contents(one) = Contents(d.ht[0]) \ moved
      /\ \A c \in 0..b : one.buckets[c] = {}
  BY <1>2, Sizes DEF IsRechained
<1> HIDE DEF m, moved, one, two
<1>6. Entries(m, 0) = Entries(d, 0) \ moved /\ Entries(m, 1) = Entries(d, 1) \cup moved
  BY <1>1, <1>4, <1>5 DEF IsDict, Entries
<1>7. All(m) = All(d)
  BY <1>2, <1>6 DEF All, Entries
<1>8. Sound(m)
  BY <1>1, <1>2, <1>4, <1>6, <1>7 DEF IsDict, Sound, Entries
<1>9. MovedUpTo(m, b + 1) /\ b + 1 \in 0..(m.ht[0].size)
  BY <1>1, <1>4, <1>5, Sizes DEF IsDict, MovedUpTo
<1>10. Unfinished(m)
  BY <1>8, <1>9 DEF Unfinished
<1>11. m.ht[0].size = d.ht[0].size /\ m.ht[1].size = d.ht[1].size
  BY <1>1, <1>4, <1>5 DEF IsDict
<1> QED
  BY <1>1, <1>7, <1>10, <1>11 DEF m, moved, one, two

\* What a call of dict_rehash_step may do.
Stepped(c, d) ==
    /\ DictOK(c)
    /\ Continues(c, d, IF Rehashing(d) /\ d.iterators = 0 THEN 1 ELSE 0)
    /\ d.iterators > 0 => c = d

\* A rehash step keeps the layout and every entry, takes the rehash at least one
\* bucket further, and does nothing while there are iterators.
LEMMA StepOK ==
    ASSUME NEW d, DictOK(d)
    PROVE  Stepped(dict_rehash_step(d), d)
<1>1. d.iterators \in Nat
  BY DEF DictOK, Sound, Shape
<1>2. CASE ~Rehashing(d) \/ d.iterators > 0
  <2>1. dict_rehash_step(d) = d
    BY <1>2 DEF dict_rehash_step
  <2>2. Capacity(d) \in Int
    BY CapacityInt DEF DictOK
  <2> QED
    BY <1>1, <1>2, <2>1, <2>2 DEF Stepped, Continues
<1>3. CASE Rehashing(d) /\ d.iterators = 0
  <2> DEFINE left == {b \in d.rehash_idx..(d.ht[0].size - 1) : d.ht[0].buckets[b] # {}}
  <2>1. PICK idx \in 0..(d.ht[0].size - 1) : MovedUpTo(d, idx)
    BY <1>3 DEF DictOK, Rehashing
  <2>2. Sound(d) /\ d.ht[0].size \in Nat /\ d.ht[1].size \in Nat
    BY Sizes DEF DictOK
  <2>3. SUFFICES ASSUME NEW m, Unfinished(m), dict_rehash_step(d) = FinishRehash(m),
                        Continues(m, d, 1)
                 PROVE  Stepped(dict_rehash_step(d), d)
    <3>1. CASE left = {}
      <4> DEFINE m == [d EXCEPT !.rehash_idx = d.ht[0].size]
      <4>1. dict_rehash_step(d) = FinishRehash(m)
        BY <1>3, <3>1 DEF dict_rehash_step
      <4>2. IsDict(m, d, d.ht[0], d.ht[1], d.ht[0].size)
        BY <2>2 DEF IsDict, Sound, Shape
      <4> HIDE DEF m
      <4>3. All(m) = All(d) /\ Entries(m, 0) = Entries(d, 0) /\ Entries(m, 1) = Entries(d, 1)
        BY <4>2 DEF IsDict, All, Entries
      <4>4. Sound(m)
        BY <2>2, <4>2, <4>3 DEF IsDict, Sound
      <4>5. \A b \in 0..(d.ht[0].size - 1) : d.ht[0].buckets[b] = {}
        BY <2>1, <2>2, <3>1 DEF MovedUpTo
      <4>6. Unfinished(m)
        BY <2>1, <2>2, <4>2, <4>4, <4>5 DEF Unfinished, MovedUpTo, IsDict
      <4>7. Continues(m, d, 1)
        BY <1>3, <2>1, <2>2, <4>2, <4>3 DEF Continues, Capacity, IsDict, Rehashing, MovedUpTo
      <4> QED
        BY <4>1, <4>6, <4>7, <2>3
    <3>2. CASE left # {}
      <4> DEFINE b == Min(left)
                 m == MoveChain(d, b)
      <4>1. dict_rehash_step(d) = FinishRehash(m)
        BY <1>3, <3>2 DEF dict_rehash_step
      <4>2. b \in left /\ \A c \in left : b <= c
        <5>1. left \in SUBSET Nat
          BY <2>1, <2>2 DEF MovedUpTo
        <5> HIDE DEF left
        <5> QED
          BY <3>2, <5>1, MinOK
      <4> HIDE DEF b
      <4>3. b \in 0..(d.ht[0].size - 1) /\ b >= idx
        BY <2>1, <2>2, <4>2 DEF MovedUpTo
      <4>4. \A c \in 0..(b - 1) : d.ht[0].buckets[c] = {}
        BY <2>1, <2>2, <4>2, <4>3 DEF MovedUpTo
      <4>5. /\ Unfinished(m) /\ All(m) = All(d)
            /\ IsDict(m, d, Vacate(d.ht[0], b),
                     Receive(d.ht[1], d.ht[0].buckets[b], b), b + 1)
        BY <2>1, <2>2, <4>3, <4>4, MoveChainOK DEF MovedUpTo
      <4>6. m.ht[0].size = d.ht[0].size /\ m.ht[1].size = d.ht[1].size
        BY <2>1, <2>2, <4>3, <4>4, MoveChainOK DEF MovedUpTo
      <4> HIDE DEF m
      <4>7. Continues(m, d, 1)
        BY <1>3, <2>1, <2>2, <4>3, <4>5, <4>6 DEF Continues, Capacity, IsDict, Rehashing, MovedUpTo
      <4> QED
        BY <4>1, <4>5, <4>7, <2>3
    <3> QED
      BY <3>1, <3>2
  <2>4. DictOK(FinishRehash(m)) /\ Continues(FinishRehash(m), m, 0)
    BY <2>3, FinishOK
  <2>5. Capacity(d) \in Int /\ Capacity(m) \in Int
    BY <2>2, <2>3, CapacityInt DEF Unfinished
  <2>6. Capacity(FinishRehash(m)) \in Int
    BY <2>4, CapacityInt DEF DictOK
  <2> QED
    BY <1>3, <2>3, <2>4, <2>5, <2>6 DEF Stepped, Continues
<1> QED
  BY <1>1, <1>2, <1>3

-----------------------------------------------------------------------------
(* Growing. *)

\* Dict d with another table t.
Updated(d, t, tb) == [d EXCEPT !.ht[t] = tb]

\* A dict with table t changed has the other one as before.
LEMMA UpdatedOK ==
    ASSUME NEW d, Shape(d), NEW t \in 0..1, NEW tb
    PROVE  IsDict(Updated(d, t, tb), d, IF t = 0 THEN tb ELSE d.ht[0],
                  IF t = 1 THEN tb ELSE d.ht[1], d.rehash_idx)
<1> DEFINE c    == Updated(d, t, tb)
           both == [d.ht EXCEPT ![t] = tb]
<1>1. /\ both[0] = (IF t = 0 THEN tb ELSE d.ht[0])
      /\ both[1] = (IF t = 1 THEN tb ELSE d.ht[1])
      /\ both \in [0..1 -> {both[0], both[1]}]
  BY DEF Shape
<1> HIDE DEF both
<1>2. c.ht = both
  BY DEF Updated, Shape, both
<1>3. c.rehash_idx = d.rehash_idx
  BY DEF Updated, Shape
<1>4. c.iterators = d.iterators
  BY DEF Updated, Shape
<1>5. c \in [ht : {c.ht}, rehash_idx : Int, iterators : Nat]
  BY <1>2, <1>3, <1>4 DEF Updated, Shape
<1> HIDE DEF c
<1>6. Shape(c)
  BY <1>1, <1>2, <1>5 DEF Shape
<1>7. IsDict(c, d, both[0], both[1], d.rehash_idx)
  BY <1>2, <1>3, <1>4, <1>6 DEF IsDict
<1> QED
  BY <1>1, <1>7 DEF c

\* What dict_maybe_expand leaves: a table to insert into, and room in it, or
\* a rehash whose next step makes the room.
Expanded(c, d) ==
    /\ DictOK(c)
    /\ All(c) = All(d)
    /\ c.iterators = d.iterators
    /\ dict_size(d) <= Capacity(d) =>
         dict_size(c) + (IF Rehashing(c) THEN 0 ELSE 1) <= Capacity(c)

\* dict_maybe_expand leaves that, whether it grows the dict or not.
LEMMA ExpandOK ==
    ASSUME NEW d, DictOK(d)
    PROVE  Expanded(dict_maybe_expand(d), d)
<1> DEFINE c == dict_maybe_expand(d)
<1>1. /\ Sound(d) /\ Shape(d) /\ d.ht[0].size \in Nat /\ d.ht[0].used \in Nat
      /\ InitialSize \in Nat \ {0} /\ Capacity(d) \in Int /\ dict_size(d) \in Nat
  BY Sizes, CapacityInt, EntriesOK, DictAssumption DEF DictOK, Sound
<1>2. CASE Rehashing(d)
  BY <1>1, <1>2 DEF Expanded, dict_maybe_expand
<1>3. ASSUME ~Rehashing(d)
      PROVE  /\ d.rehash_idx = -1 /\ d.ht[1] = NoTable
             /\ Entries(d, 1) = {} /\ All(d) = Entries(d, 0)
             /\ dict_size(d) = d.ht[0].used
  <2>1. d.rehash_idx = -1 /\ d.ht[1] = NoTable
    BY <1>1, <1>3 DEF DictOK, MovedUpTo, Rehashing
  <2>2. Entries(d, 1) = {} /\ All(d) = Entries(d, 0)
    BY <2>1, NoTableOK DEF Entries, All
  <2>3. dict_size(d) = d.ht[0].used
    BY <1>1, <2>1 DEF dict_size, NoTable
  <2> QED
    BY <2>1, <2>2, <2>3
<1>4. CASE ~Rehashing(d) /\ d.ht[0].size = 0
  <2> DEFINE real == next_power(InitialSize)
             new  == EmptyTable(real)
  <2>1. real \in Nat /\ InitialSize <= real
    BY <1>1, NextPowerOK
  <2>2. c = Updated(d, 0, new)
    BY <1>4, <1>1 DEF dict_maybe_expand, dict_expand, Updated
  <2>3. new.size = real
    BY DEF EmptyTable
  <2>4. TableOK(new) /\ Contents(new) = {}
    BY <2>1, EmptyTableOK
  <2> HIDE DEF c, new
  <2>5. IsDict(c, d, new, NoTable, -1)
    <3>1. IsDict(c, d, new, d.ht[1], d.rehash_idx)
      BY <1>1, <2>2, UpdatedOK
    <3> QED
      BY <3>1, <1>3, <1>4
  <2>6. Entries(d, 0) = {}
    BY <1>1, <1>4 DEF Entries, Contents, Sound, TableOK, Placed
  <2>7. Entries(c, 0) = {} /\ Entries(c, 1) = {} /\ All(c) = All(d)
    BY <1>3, <1>4, <2>4, <2>5, <2>6, NoTableOK DEF IsDict, Entries, All
  <2>8. DictOK(c)
    BY <1>1, <2>4, <2>5, <2>7, NoTableOK DEF IsDict, DictOK, Sound, UniqueKeys
  <2>9. dict_size(c) = 0
    BY <2>7, <2>8, EntriesOK, FS_EmptySet DEF All, DictOK
  <2>10. Capacity(c) = real /\ ~Rehashing(c)
    BY <2>3, <2>5 DEF IsDict, Capacity, Rehashing
  <2>11. 1 <= Capacity(c)
    BY <1>1, <2>1, <2>10
  <2>12. c.iterators = d.iterators
    BY <2>5 DEF IsDict
  <2>13. Expanded(c, d)
    BY <2>7, <2>8, <2>9, <2>10, <2>11, <2>12 DEF Expanded
  <2> QED
    BY <2>13 DEF c
<1>5. CASE ~Rehashing(d) /\ d.ht[0].size # 0 /\ d.ht[0].used >= d.ht[0].size
  <2> DEFINE n    == d.ht[0].used * 2
             real == next_power(IF n < InitialSize THEN InitialSize ELSE n)
             new  == EmptyTable(real)
  <2>1. real \in Nat /\ n <= real /\ real > 0
    <3>1. n \in Nat \ {0}
      BY <1>1, <1>5
    <3> QED
      BY <1>1, <3>1, NextPowerOK
  <2>2. c = [d EXCEPT !.ht[1] = new, !.rehash_idx = 0]
    BY <1>5, <1>1 DEF dict_maybe_expand, dict_expand
  <2>3. new.size = real
    BY DEF EmptyTable
  <2>4. TableOK(new) /\ Contents(new) = {}
    BY <2>1, EmptyTableOK
  <2> HIDE DEF c, new, real
  <2>5. IsDict(c, d, d.ht[0], new, 0)
    <3> DEFINE u == Updated(d, 1, new)
    <3>1. IsDict(u, d, d.ht[0], new, d.rehash_idx)
      BY <1>1, UpdatedOK
    <3>2. c = [u EXCEPT !.rehash_idx = 0]
      BY <2>2 DEF Updated
    <3> HIDE DEF u
    <3> QED
      BY <3>1, <3>2 DEF IsDict, Shape
  <2>6. Entries(c, 0) = Entries(d, 0) /\ Entries(c, 1) = {} /\ All(c) = All(d)
    BY <1>3, <1>5, <2>4, <2>5 DEF IsDict, Entries, All
  <2>7. Sound(c)
    BY <1>1, <2>4, <2>5, <2>6 DEF IsDict, Sound
  <2>8. MovedUpTo(c, 0) /\ 0 \in 0..(c.ht[0].size - 1)
    BY <1>1, <1>5, <2>1, <2>3, <2>5 DEF IsDict, MovedUpTo
  <2>9. DictOK(c)
    BY <2>7, <2>8 DEF DictOK
  <2>10. dict_size(c) = d.ht[0].used
    BY <1>1, <1>3, <1>5, <2>6, <2>7, EntriesOK
  <2>11. Capacity(c) = real - d.ht[0].size /\ Rehashing(c)
    BY <1>1, <2>1, <2>3, <2>5 DEF IsDict, Capacity, Rehashing
  <2>12. d.ht[0].used <= real - d.ht[0].size
    BY <1>1, <1>5, <2>1
  <2>13. c.iterators = d.iterators
    BY <2>5 DEF IsDict
  <2>14. Expanded(c, d)
    BY <1>1, <2>6, <2>9, <2>10, <2>11, <2>12, <2>13 DEF Expanded
  <2> QED
    BY <2>14 DEF c
<1>6. CASE ~Rehashing(d) /\ d.ht[0].size # 0 /\ d.ht[0].used < d.ht[0].size
  <2>1. c = d
    BY <1>1, <1>6 DEF dict_maybe_expand
  <2>2. dict_size(d) + 1 <= Capacity(d)
    BY <1>1, <1>3, <1>6 DEF Capacity
  <2> QED
    BY <1>6, <2>1, <2>2 DEF Expanded
<1> QED
  BY <1>1, <1>2, <1>4, <1>5, <1>6

\* dict_add has a table with room for its entry by the time it links it.
Prepared(p, d) ==
    /\ DictOK(p)
    /\ All(p) = All(d)
    /\ p.iterators = 0
    /\ dict_size(p) + 1 <= Capacity(p)

\* What dict_add does before it looks the key up leaves room for one entry more, also in
\* the middle of a rehash.
LEMMA PreparedOK ==
    ASSUME NEW d, DictOK(d), d.iterators = 0, dict_size(d) <= Capacity(d), NEW k
    PROVE  Prepared(AddPrepared(d, k), d)
<1> DEFINE c == dict_maybe_expand(d)
           s == dict_rehash_step(c)
           p == dict_rehash_step(s)
<1>1. Expanded(c, d)
  BY ExpandOK
<1>2. DictOK(c) /\ All(c) = All(d) /\ c.iterators = 0
  BY <1>1 DEF Expanded
<1> HIDE DEF c
<1>3. Stepped(s, c)
  BY <1>2, StepOK
<1>4. DictOK(s) /\ All(s) = All(d) /\ s.iterators = 0
  BY <1>2, <1>3 DEF Stepped, Continues
<1> HIDE DEF s
<1>5. Stepped(p, s)
  BY <1>4, StepOK
<1>6. DictOK(p) /\ All(p) = All(d) /\ p.iterators = 0
  BY <1>4, <1>5 DEF Stepped, Continues
<1>7. AddPrepared(d, k) = p
  BY DEF AddPrepared, dict_find, s, c
<1> HIDE DEF p
<1>8. /\ dict_size(c) = dict_size(p) /\ dict_size(c) \in Nat
      /\ Capacity(c) \in Int /\ Capacity(s) \in Int /\ Capacity(p) \in Int
  BY <1>2, <1>4, <1>6, EntriesOK, CapacityInt DEF DictOK
<1>9. Capacity(s) >= Capacity(c) + (IF Rehashing(c) THEN 1 ELSE 0)
  BY <1>2, <1>3 DEF Stepped, Continues
<1>10. Capacity(p) >= Capacity(s)
  BY <1>5, <1>8 DEF Stepped, Continues
<1>11. dict_size(c) + (IF Rehashing(c) THEN 0 ELSE 1) <= Capacity(c)
  BY <1>1 DEF Expanded
<1>12. dict_size(p) + 1 <= Capacity(p)
  BY <1>8, <1>9, <1>10, <1>11
<1> QED
  BY <1>6, <1>7, <1>12 DEF Prepared

-----------------------------------------------------------------------------
(* The calls. *)

\* A dict as callers may find it: whole, and with no more entries than fit.
Roomy(d) == DictOK(d) /\ dict_size(d) <= Capacity(d)

\* Dict c has the entries S, and otherwise follows d.
Becomes(c, d, S) ==
    /\ Roomy(c)
    /\ All(c) = S
    /\ c.iterators = d.iterators

\* A search of the one or two chains a key can be in finds every entry that has it.
LEMMA FoundInOK ==
    ASSUME NEW d, DictOK(d), NEW k \in Key
    PROVE  FoundIn(d, k) = {e \in All(d) : e.key = k}
<1>1. /\ Placed(d.ht[0]) /\ Placed(d.ht[1]) /\ UniqueKeys(All(d))
      /\ Entries(d, 0) \cap Entries(d, 1) = {}
  BY DEF DictOK, Sound, TableOK
<1>2. /\ dict_find_raw(d.ht[0], k) = {e \in Entries(d, 0) : e.key = k}
      /\ dict_find_raw(d.ht[1], k) = {e \in Entries(d, 1) : e.key = k}
  BY <1>1, FindRaw DEF Entries
<1>3. ~Rehashing(d) => Entries(d, 1) = {}
  BY NoTableOK DEF DictOK, MovedUpTo, Rehashing, Entries
<1>4. All(d) = Entries(d, 0) \cup Entries(d, 1)
  BY DEF All
<1>5. CASE dict_find_raw(d.ht[0], k) = {}
  BY <1>2, <1>3, <1>4, <1>5 DEF FoundIn
<1>6. CASE dict_find_raw(d.ht[0], k) # {}
  <2>1. FoundIn(d, k) = {e \in Entries(d, 0) : e.key = k}
    BY <1>2, <1>6 DEF FoundIn
  <2>2. PICK f \in Entries(d, 0) : f.key = k
    BY <1>2, <1>6
  <2>3. \A e \in Entries(d, 1) : e.key # k
    BY <1>1, <1>4, <2>2 DEF UniqueKeys
  <2> QED
    BY <1>4, <2>1, <2>3
<1> QED
  BY <1>5, <1>6

\* There is at most one entry of a key.
LEMMA TheEntry ==
    ASSUME NEW d, DictOK(d), NEW k \in Key, FoundIn(d, k) # {}, NEW e,
           e = CHOOSE f \in FoundIn(d, k) : TRUE
    PROVE  e \in All(d) /\ e.key = k /\ FoundIn(d, k) = {e}
<1>1. e \in FoundIn(d, k)
  OBVIOUS
<1> QED
  BY <1>1, FoundInOK DEF DictOK, Sound, UniqueKeys

\* Lookups and iterator calls change no entry; a rehash step never costs room.
LEMMA FindOK ==
    ASSUME NEW d, Roomy(d), NEW k
    PROVE  Becomes(dict_find(d, k), d, All(d)) /\ (d.iterators > 0 => dict_find(d, k) = d)
<1> DEFINE s == dict_rehash_step(d)
<1>1. Stepped(s, d)
  BY StepOK DEF Roomy
<1>2. dict_find(d, k) = s
  BY DEF dict_find
<1> HIDE DEF s
<1>3. DictOK(s) /\ All(s) = All(d) /\ s.iterators = d.iterators
  BY <1>1 DEF Stepped, Continues
<1>4. dict_size(s) = dict_size(d) /\ dict_size(d) \in Nat /\ Capacity(s) \in Int /\ Capacity(d) \in Int
  BY <1>3, EntriesOK, CapacityInt DEF Roomy, DictOK
<1>5. Capacity(s) >= Capacity(d)
  BY <1>1, <1>4 DEF Stepped, Continues
<1>6. dict_size(s) <= Capacity(s)
  BY <1>4, <1>5 DEF Roomy
<1> QED
  BY <1>1, <1>2, <1>3, <1>6 DEF Becomes, Roomy, Stepped

\* A new entry goes to the table that is being filled, which has room for it.
LEMMA LinkNewOK ==
    ASSUME NEW d, DictOK(d), dict_size(d) + 1 <= Capacity(d),
           NEW k \in Key, NEW v \in Val, FoundIn(d, k) = {}
    PROVE  Becomes(LinkNew(d, k, v), d, All(d) \cup {[key |-> k, val |-> v]})
<1> DEFINE e  == [key |-> k, val |-> v]
           t  == IF Rehashing(d) THEN 1 ELSE 0
           tb == Insert(d.ht[t], e)
           c  == LinkNew(d, k, v)
<1>1. e \in Entry /\ e.key = k
  BY DEF Entry
<1> HIDE DEF e
<1>2. \A f \in All(d) : f.key # k
  BY FoundInOK
<1>3. e \notin Entries(d, 0) /\ e \notin Entries(d, 1)
  BY <1>1, <1>2 DEF All
<1>4. /\ Sound(d) /\ Shape(d) /\ d.ht[0].size \in Nat /\ d.ht[1].size \in Nat
      /\ dict_size(d) \in Nat /\ IsFiniteSet(All(d)) /\ All(d) \subseteq Entry
      /\ dict_size(d) = Cardinality(All(d))
  BY EntriesOK, Sizes DEF DictOK, Sound
<1>5. t \in 0..1 /\ TableOK(d.ht[t])
  BY <1>4 DEF Sound
<1>6. d.ht[t].size > 0
  <2>1. CASE Rehashing(d)
    BY <2>1 DEF DictOK, MovedUpTo, Rehashing
  <2>2. CASE ~Rehashing(d)
    BY <1>4, <2>2 DEF Capacity
  <2> QED
    BY <2>1, <2>2
<1>7. e \notin Contents(d.ht[t])
  BY <1>3 DEF Entries
<1>8. TableOK(tb) /\ Contents(tb) = Contents(d.ht[t]) \cup {e} /\ tb.size = d.ht[t].size
  BY <1>1, <1>5, <1>6, <1>7, InsertOK
<1>9. c = Updated(d, t, tb)
  BY DEF LinkNew, Updated, e
<1> HIDE DEF c, tb
<1>10. IsDict(c, d, IF t = 0 THEN tb ELSE d.ht[0], IF t = 1 THEN tb ELSE d.ht[1], d.rehash_idx)
  BY <1>4, <1>5, <1>9, UpdatedOK
<1>11. /\ Entries(c, 0) = (IF t = 0 THEN Entries(d, 0) \cup {e} ELSE Entries(d, 0))
       /\ Entries(c, 1) = (IF t = 1 THEN Entries(d, 1) \cup {e} ELSE Entries(d, 1))
  BY <1>8, <1>10 DEF Entries, IsDict
<1>12. All(c) = All(d) \cup {e}
  BY <1>11 DEF All
<1>13. Sound(c)
  <2>1. UniqueKeys(All(c))
    BY <1>1, <1>2, <1>4, <1>12 DEF Sound, UniqueKeys
  <2>2. Entries(c, 0) \cap Entries(c, 1) = {}
    BY <1>3, <1>4, <1>11 DEF Sound
  <2>3. TableOK(c.ht[0]) /\ TableOK(c.ht[1])
    BY <1>4, <1>8, <1>10 DEF Sound, IsDict
  <2> QED
    BY <1>10, <2>1, <2>2, <2>3 DEF Sound, IsDict
<1>14. c.ht[0].size = d.ht[0].size /\ c.ht[1].size = d.ht[1].size
  BY <1>8, <1>10 DEF IsDict
<1>15. DictOK(c)
  <2>1. CASE Rehashing(d)
    <3>1. PICK idx \in 0..(d.ht[0].size - 1) : MovedUpTo(d, idx)
      BY <2>1 DEF DictOK, Rehashing
    <3>2. MovedUpTo(c, idx)
      BY <2>1, <3>1, <1>10, <1>14 DEF MovedUpTo, IsDict
    <3> QED
      BY <1>13, <1>14, <3>1, <3>2 DEF DictOK
  <2>2. CASE ~Rehashing(d)
    BY <1>10, <1>13, <2>2 DEF DictOK, MovedUpTo, IsDict, Rehashing
  <2> QED
    BY <2>1, <2>2
<1>16. Capacity(c) = Capacity(d)
  BY <1>10, <1>14 DEF Capacity, Rehashing, IsDict
<1>17. dict_size(c) = dict_size(d) + 1
  <2>1. dict_size(c) = Cardinality(All(d) \cup {e})
    BY <1>12, <1>13, EntriesOK
  <2>2. Cardinality(All(d) \cup {e}) = Cardinality(All(d)) + 1
    BY <1>1, <1>2, <1>4, FS_AddElement
  <2> QED
    BY <1>4, <2>1, <2>2
<1>18. Becomes(c, d, All(d) \cup {e})
  BY <1>10, <1>12, <1>15, <1>16, <1>17 DEF Becomes, Roomy, IsDict
<1> QED
  BY <1>18 DEF c, e

\* A table with X, at most one entry of e's key, where e was.
Exchanged(tb, tab, e, X) ==
    /\ TableOK(tb)
    /\ tb.size = tab.size
    /\ Contents(tb) = (Contents(tab) \ {e}) \cup X
    /\ \A b \in 0..(tab.size - 1) : tab.buckets[b] = {} => tb.buckets[b] = {}

\* An entry that is replaced by at most one of the same key, in the table where it is,
\* changes the entries by that and leaves as much room.
LEMMA ExchangeOK ==
    ASSUME NEW d, Roomy(d), NEW t \in 0..1, NEW e \in Entries(d, t),
           NEW X \in SUBSET Entry, \A f \in X : X = {f} /\ f.key = e.key,
           NEW tb, Exchanged(tb, d.ht[t], e, X)
    PROVE  Becomes(Updated(d, t, tb), d, (All(d) \ {e}) \cup X)
<1> DEFINE c == Updated(d, t, tb)
<1>1. /\ Sound(d) /\ Shape(d) /\ d.ht[0].size \in Nat /\ d.ht[1].size \in Nat
      /\ dict_size(d) \in Nat /\ IsFiniteSet(All(d)) /\ All(d) \subseteq Entry
      /\ dict_size(d) = Cardinality(All(d)) /\ Capacity(d) \in Int
      /\ dict_size(d) <= Capacity(d)
  BY EntriesOK, Sizes, CapacityInt DEF Roomy, DictOK, Sound
<1>2. IsDict(c, d, IF t = 0 THEN tb ELSE d.ht[0], IF t = 1 THEN tb ELSE d.ht[1], d.rehash_idx)
  BY <1>1, UpdatedOK
<1> HIDE DEF c
<1>3. /\ Entries(c, 0) = (IF t = 0 THEN (Entries(d, 0) \ {e}) \cup X ELSE Entries(d, 0))
      /\ Entries(c, 1) = (IF t = 1 THEN (Entries(d, 1) \ {e}) \cup X ELSE Entries(d, 1))
  BY <1>2 DEF Entries, IsDict, Exchanged
<1>4. e \in All(d) /\ \A f \in All(d) : f.key = e.key => f = e
  BY <1>1 DEF All, Sound, UniqueKeys
<1>5. Entries(d, 0) \cap Entries(d, 1) = {}
  BY <1>1 DEF Sound
<1>6. \A f \in X : f \in All(d) => f = e
  BY <1>4
<1>7. All(c) = (All(d) \ {e}) \cup X
  BY <1>3, <1>5 DEF All
<1>8. Sound(c)
  <2>1. UniqueKeys(All(c))
    BY <1>1, <1>4, <1>7 DEF Sound, UniqueKeys
  <2>2. Entries(c, 0) \cap Entries(c, 1) = {}
    BY <1>3, <1>5, <1>6 DEF All
  <2>3. TableOK(c.ht[0]) /\ TableOK(c.ht[1])
    BY <1>1, <1>2 DEF Sound, IsDict, Exchanged
  <2> QED
    BY <1>2, <2>1, <2>2, <2>3 DEF Sound, IsDict
<1>9. c.ht[0].size = d.ht[0].size /\ c.ht[1].size = d.ht[1].size
  BY <1>2 DEF IsDict, Exchanged
<1>10. DictOK(c)
  <2>1. CASE Rehashing(d)
    <3>1. PICK idx \in 0..(d.ht[0].size - 1) : MovedUpTo(d, idx)
      BY <2>1 DEF Roomy, DictOK, Rehashing
    <3>2. \A b \in 0..(idx - 1) : c.ht[0].buckets[b] = {}
      BY <1>1, <1>2, <3>1 DEF MovedUpTo, IsDict, Exchanged
    <3>3. MovedUpTo(c, idx)
      BY <1>2, <1>9, <3>1, <3>2 DEF MovedUpTo, IsDict
    <3> QED
      BY <1>8, <1>9, <3>1, <3>3 DEF DictOK
  <2>2. CASE ~Rehashing(d)
    <3>1. d.rehash_idx = -1 /\ d.ht[1] = NoTable
      BY <2>2 DEF Roomy, DictOK, MovedUpTo, Rehashing
    <3>2. t = 0
      BY <3>1, NoTableOK DEF Entries
    <3> QED
      BY <1>2, <1>8, <3>1, <3>2 DEF DictOK, IsDict
  <2> QED
    BY <2>1, <2>2
<1>11. Capacity(c) = Capacity(d)
  BY <1>2, <1>9 DEF Capacity, Rehashing, IsDict
<1>12. dict_size(c) <= dict_size(d)
  <2>1. IsFiniteSet(All(d) \ {e}) /\ Cardinality(All(d) \ {e}) = Cardinality(All(d)) - 1
    BY <1>1, <1>4, FS_RemoveElement
  <2>2. dict_size(c) = Cardinality((All(d) \ {e}) \cup X) /\ dict_size(c) \in Nat
    BY <1>7, <1>8, EntriesOK
  <2>3. CASE X = {}
    BY <1>1, <2>1, <2>2, <2>3
  <2>4. CASE X # {}
    <3>1. PICK f \in X : X = {f}
      BY <2>4
    <3>2. Cardinality((All(d) \ {e}) \cup {f}) =
             IF f \in All(d) \ {e} THEN Cardinality(All(d) \ {e}) ELSE Cardinality(All(d) \ {e}) + 1
      BY <2>1, FS_AddElement
    <3> QED
      BY <1>1, <2>1, <2>2, <3>1, <3>2
  <2> QED
    BY <2>3, <2>4
<1>13. dict_size(c) <= Capacity(c)
  <2>1. dict_size(c) \in Nat
    BY <1>8, EntriesOK
  <2> QED
    BY <1>1, <1>11, <1>12, <2>1
<1>14. Becomes(c, d, (All(d) \ {e}) \cup X)
  BY <1>2, <1>7, <1>10, <1>13 DEF Becomes, Roomy, IsDict
<1> QED
  BY <1>14 DEF c

\* Where dict_replace and dict_delete look for the entry they found.
LEMMA WhereItIs ==
    ASSUME NEW d, DictOK(d), NEW k \in Key, FoundIn(d, k) # {}, NEW e,
           e = CHOOSE f \in FoundIn(d, k) : TRUE, NEW t,
           t = IF dict_find_raw(d.ht[0], k) # {} THEN 0 ELSE 1
    PROVE  t \in 0..1 /\ e \in Entries(d, t)
<1>1. e \in FoundIn(d, k)
  OBVIOUS
<1>2. Placed(d.ht[0]) /\ Placed(d.ht[1])
  BY DEF DictOK, Sound, TableOK
<1>3. e \in dict_find_raw(d.ht[t], k)
  BY <1>1 DEF FoundIn
<1> QED
  BY <1>2, <1>3, FindRaw DEF Entries

\* dict_delete takes away the entry of the key, wherever the rehash has put it.
LEMMA DeleteOK ==
    ASSUME NEW d, Roomy(d), NEW k \in Key, FoundIn(d, k) # {}, NEW e,
           e = CHOOSE f \in FoundIn(d, k) : TRUE
    PROVE  Becomes(dict_delete(d, k), d, All(d) \ {e})
<1> DEFINE t  == IF dict_find_raw(d.ht[0], k) # {} THEN 0 ELSE 1
           tb == Remove(d.ht[t], e)
<1>1. dict_delete(d, k) = Updated(d, t, tb)
  BY DEF dict_delete, Updated
<1>2. t \in 0..1 /\ e \in Entries(d, t) /\ DictOK(d)
  BY WhereItIs DEF Roomy
<1> HIDE DEF t
<1>3. TableOK(d.ht[t])
  BY <1>2 DEF DictOK, Sound
<1>4. /\ TableOK(tb) /\ tb.size = d.ht[t].size
      /\ Contents(tb) = Contents(d.ht[t]) \ {e}
      /\ \A b \in 0..(d.ht[t].size - 1) : d.ht[t].buckets[b] = {} => tb.buckets[b] = {}
  <2>1. e \in Contents(d.ht[t])
    BY <1>2 DEF Entries
  <2> QED
    BY <1>3, <2>1, RemoveOK
<1> HIDE DEF tb
<1>7. Exchanged(tb, d.ht[t], e, {})
  BY <1>4 DEF Exchanged
<1>5. Becomes(Updated(d, t, tb), d, (All(d) \ {e}) \cup {})
  BY <1>2, <1>7, ExchangeOK
<1>6. (All(d) \ {e}) \cup {} = All(d) \ {e}
  OBVIOUS
<1> QED
  BY <1>1, <1>5, <1>6

\* Another value under the key of e, in its place.
LEMMA OverwriteOK ==
    ASSUME NEW tb, TableOK(tb), NEW e \in Contents(tb), NEW v \in Val,
           \A f \in Contents(tb) : f.key = e.key => f = e
    PROVE  Exchanged(Overwrite(tb, e.key, v), tb, e, {[key |-> e.key, val |-> v]})
<1> DEFINE k   == e.key
           new == [key |-> k, val |-> v]
           b   == Hash[k] % tb.size
           old == tb.buckets[b]
           S   == {IF f.key = k THEN [f EXCEPT !.val = v] ELSE f : f \in old}
           tc  == Overwrite(tb, k, v)
<1>1. /\ b \in 0..(tb.size - 1) /\ e \in old /\ e \in Entry /\ k \in Key
      /\ tb.used \in Int /\ tb.size \in Nat /\ Placed(tb)
  <2>1. Placed(tb) /\ tb.used \in Int /\ tb.size \in Nat
    BY DEF TableOK, Placed
  <2>2. e \in Entry /\ tb.size > 0 /\ e \in tb.buckets[b]
    BY <2>1, InContents
  <2> QED
    BY <2>1, <2>2, BucketOK DEF Entry
<1>2. old \subseteq Contents(tb) /\ old \subseteq Entry
  BY <1>1 DEF Contents, Placed
<1>3. new \in Entry /\ new.key = k
  BY <1>1 DEF Entry
<1>4. [e EXCEPT !.val = v] = new
  BY <1>1 DEF Entry
<1>5. S = (old \ {e}) \cup {new}
  <2> HIDE DEF new, old
  <2>1. \A f \in old : (f.key = k) <=> (f = e)
    BY <1>1, <1>2
  <2>2. \A f \in old : (IF f.key = k THEN [f EXCEPT !.val = v] ELSE f) = IF f = e THEN new ELSE f
    BY <1>4, <2>1
  <2>3. S = {IF f = e THEN new ELSE f : f \in old}
    BY <2>2
  <2> QED
    BY <1>1, <2>3
<1>6. HashTo(S, tb.size, b)
  BY <1>1, <1>3, <1>5 DEF HashTo, Placed
<1>7. tc = [tb EXCEPT !.buckets[b] = S]
  BY DEF Overwrite
<1> HIDE DEF S, tc, new
<1>8. tc.size = tb.size
  BY <1>1, <1>7 DEF Placed
<1>9. tc.used = tb.used
  BY <1>1, <1>7 DEF Placed
<1>10. tc = Rechained(tb, b, S, tb.used)
  <2>1. tc \in [size : {tb.size}, used : {tb.used}, buckets : {[tb.buckets EXCEPT ![b] = S]}]
    BY <1>1, <1>7 DEF Placed
  <2>2. Rechained(tb, b, S, tb.used)
          \in [size : {tb.size}, used : {tb.used}, buckets : {[tb.buckets EXCEPT ![b] = S]}]
    BY <1>1 DEF Placed, Rechained
  <2> QED
    BY <2>1, <2>2
<1> HIDE DEF b
<1>11. IsRechained(tc, tb, b, S, tb.used)
  BY <1>1, <1>6, <1>10, RechainedOK
<1>12. Contents(tc) = (Contents(tb) \ {e}) \cup {new}
  BY <1>1, <1>2, <1>5, <1>11 DEF IsRechained
<1>13. IsFiniteSet(Contents(tc)) /\ Cardinality(Contents(tc)) = Cardinality(Contents(tb))
  <2>1. new \notin Contents(tb) \ {e}
    BY <1>3
  <2>2. /\ IsFiniteSet(Contents(tb) \ {e})
        /\ Cardinality(Contents(tb) \ {e}) = Cardinality(Contents(tb)) - 1
    BY FS_RemoveElement DEF TableOK
  <2>3. /\ IsFiniteSet((Contents(tb) \ {e}) \cup {new})
        /\ Cardinality((Contents(tb) \ {e}) \cup {new}) = Cardinality(Contents(tb) \ {e}) + 1
    BY <2>1, <2>2, FS_AddElement
  <2>4. Cardinality(Contents(tb)) \in Nat
    BY FS_CardinalityType DEF TableOK
  <2> QED
    BY <1>12, <2>2, <2>3, <2>4
<1>14. TableOK(tc)
  BY <1>1, <1>11, <1>13 DEF TableOK, IsRechained
<1>15. \A c \in 0..(tb.size - 1) : tb.buckets[c] = {} => tc.buckets[c] = {}
  BY <1>1, <1>11 DEF IsRechained
<1>16. Exchanged(tc, tb, e, {new})
  BY <1>8, <1>12, <1>14, <1>15 DEF Exchanged
<1> QED
  BY <1>16 DEF tc, new

\* dict_replace of a key that is there changes the value of its entry.
LEMMA SetValueOK ==
    ASSUME NEW d, Roomy(d), NEW k \in Key, FoundIn(d, k) # {}, NEW v \in Val, NEW e,
           e = CHOOSE f \in FoundIn(d, k) : TRUE
    PROVE  Becomes(SetValue(d, k, v), d, (All(d) \ {e}) \cup {[key |-> k, val |-> v]})
<1> DEFINE t   == IF dict_find_raw(d.ht[0], k) # {} THEN 0 ELSE 1
           tb  == Overwrite(d.ht[t], k, v)
           new == [key |-> k, val |-> v]
<1>1. SetValue(d, k, v) = Updated(d, t, tb)
  BY DEF SetValue, Updated
<1>2. t \in 0..1 /\ e \in Entries(d, t) /\ DictOK(d)
  BY WhereItIs DEF Roomy
<1> HIDE DEF t
<1>3. e.key = k /\ UniqueKeys(All(d)) /\ Entries(d, t) \subseteq All(d)
  BY <1>2, TheEntry DEF DictOK, Sound, All
<1>4. TableOK(d.ht[t]) /\ e \in Contents(d.ht[t])
  BY <1>2 DEF DictOK, Sound, Entries
<1>5. \A f \in Contents(d.ht[t]) : f.key = e.key => f = e
  BY <1>2, <1>3 DEF UniqueKeys, Entries
<1>6. Exchanged(tb, d.ht[t], e, {new})
  BY <1>3, <1>4, <1>5, OverwriteOK
<1>7. new \in Entry /\ new.key = e.key
  BY <1>3 DEF Entry
<1> HIDE DEF tb, new
<1>8. \A f \in {new} : {new} = {f} /\ f.key = e.key
  BY <1>7
<1>9. {new} \in SUBSET Entry
  BY <1>7
<1>10. Becomes(Updated(d, t, tb), d, (All(d) \ {e}) \cup {new})
  BY <1>2, <1>6, <1>8, <1>9, ExchangeOK
<1> QED
  BY <1>1, <1>10 DEF new

\* Whether some entry of S has key k.
Holds(S, k) == \E e \in S : e.key = k

\* What dict_add and dict_replace do with an absent and with a present key.
AddResult(c, d, k, v) ==
    /\ Holds(All(d), k) => Becomes(c, d, All(d))
    /\ ~Holds(All(d), k) => Becomes(c, d, All(d) \cup {[key |-> k, val |-> v]})

ReplaceResult(c, d, k, v) ==
    Becomes(c, d, {e \in All(d) : e.key # k} \cup {[key |-> k, val |-> v]})

\* dict_add adds a key that was not there and leaves one that was.
LEMMA AddOK ==
    ASSUME NEW d, Roomy(d), d.iterators = 0, NEW k \in Key, NEW v \in Val
    PROVE  /\ AddResult(dict_add(d, k, v), d, k, v)
           /\ FoundIn(AddPrepared(d, k), k) = {} <=> ~Holds(All(d), k)
<1> DEFINE p == AddPrepared(d, k)
<1>1. Prepared(p, d)
  BY PreparedOK DEF Roomy
<1>2. dict_add(d, k, v) = IF FoundIn(p, k) # {} THEN p ELSE LinkNew(p, k, v)
  BY DEF dict_add
<1> HIDE DEF p
<1>3. /\ DictOK(p) /\ All(p) = All(d) /\ p.iterators = d.iterators
      /\ dict_size(p) + 1 <= Capacity(p)
  BY <1>1 DEF Prepared
<1>4. FoundIn(p, k) = {} <=> ~Holds(All(d), k)
  BY <1>3, FoundInOK DEF Holds
<1>5. ASSUME FoundIn(p, k) # {} PROVE AddResult(dict_add(d, k, v), d, k, v)
  <2>1. dict_size(p) \in Nat /\ Capacity(p) \in Int
    BY <1>3, EntriesOK, CapacityInt DEF DictOK
  <2>2. Becomes(p, d, All(d))
    BY <1>3, <2>1 DEF Becomes, Roomy
  <2>3. dict_add(d, k, v) = p
    BY <1>2, <1>5
  <2> QED
    BY <1>4, <1>5, <2>2, <2>3 DEF AddResult
<1>6. ASSUME FoundIn(p, k) = {} PROVE AddResult(dict_add(d, k, v), d, k, v)
  <2>1. Becomes(LinkNew(p, k, v), p, All(p) \cup {[key |-> k, val |-> v]})
    BY <1>3, <1>6, LinkNewOK
  <2>2. Becomes(LinkNew(p, k, v), d, All(d) \cup {[key |-> k, val |-> v]})
    BY <1>3, <2>1 DEF Becomes
  <2>3. dict_add(d, k, v) = LinkNew(p, k, v)
    BY <1>2, <1>6
  <2> QED
    BY <1>4, <1>6, <2>2, <2>3 DEF AddResult
<1>7. AddResult(dict_add(d, k, v), d, k, v)
  BY <1>5, <1>6
<1> QED
  BY <1>4, <1>7 DEF p

\* dict_replace gives the key its value in either case.
LEMMA ReplaceOK ==
    ASSUME NEW d, Roomy(d), d.iterators = 0, NEW k \in Key, NEW v \in Val
    PROVE  ReplaceResult(dict_replace(d, k, v), d, k, v)
<1> DEFINE p   == dict_find(d, k)
           new == [key |-> k, val |-> v]
<1>1. Becomes(p, d, All(d))
  BY FindOK
<1>2. dict_replace(d, k, v) = IF FoundIn(p, k) # {} THEN SetValue(p, k, v) ELSE dict_add(p, k, v)
  BY DEF dict_replace
<1> HIDE DEF p
<1>3. Roomy(p) /\ DictOK(p) /\ All(p) = All(d) /\ p.iterators = d.iterators
  BY <1>1 DEF Becomes, Roomy
<1>4. FoundIn(p, k) = {e \in All(d) : e.key = k}
  BY <1>3, FoundInOK
<1>5. CASE FoundIn(p, k) # {}
  <2> DEFINE e == CHOOSE f \in FoundIn(p, k) : TRUE
  <2>1. FoundIn(p, k) = {e}
    BY <1>3, <1>5, TheEntry
  <2>2. Becomes(SetValue(p, k, v), p, (All(p) \ {e}) \cup {new})
    BY <1>3, <1>5, SetValueOK
  <2> HIDE DEF e
  <2>3. All(p) \ {e} = {f \in All(d) : f.key # k}
    BY <1>3, <1>4, <2>1
  <2>4. ReplaceResult(SetValue(p, k, v), d, k, v)
    BY <1>3, <2>2, <2>3 DEF ReplaceResult, Becomes
  <2> QED
    BY <1>2, <1>5, <2>4
<1>6. CASE FoundIn(p, k) = {}
  <2>1. ~Holds(All(p), k)
    BY <1>3, <1>4, <1>6 DEF Holds
  <2>2. AddResult(dict_add(p, k, v), p, k, v)
    BY <1>3, AddOK
  <2>3. Becomes(dict_add(p, k, v), p, All(p) \cup {new})
    BY <2>1, <2>2 DEF AddResult
  <2>4. All(p) = {f \in All(d) : f.key # k}
    BY <1>3, <2>1 DEF Holds
  <2>5. ReplaceResult(dict_add(p, k, v), d, k, v)
    BY <1>3, <2>3, <2>4 DEF ReplaceResult, Becomes
  <2> QED
    BY <1>2, <1>6, <2>5
<1> QED
  BY <1>5, <1>6

-----------------------------------------------------------------------------
(* Iterators. *)

Iterating == {i \in Iter : it[i] # NULL}

\* Where entry e sits in table t.
Bucket(d, t, e) == Hash[e.key] % d.ht[t].size

\* The entries an iterator at pos has returned: what lies in the table before
\* its own, in the buckets before its own, and in its own but not in `rest'.
Passed(d, pos) ==
    {e \in All(d) \ pos.rest :
        \/ e \in Entries(d, 0) /\ (pos.table = 1 \/ Bucket(d, 0, e) <= pos.idx)
        \/ e \in Entries(d, 1) /\ pos.table = 1 /\ Bucket(d, 1, e) <= pos.idx}

KeysOf(S) == {e.key : e \in S}

IterOK(d, pos) ==
    /\ pos \in Iterator
    /\ pos.idx \in -1..(d.ht[pos.table].size - 1)
    /\ pos.rest # {} => pos.idx >= 0 /\ pos.rest \subseteq d.ht[pos.table].buckets[pos.idx]
    /\ pos.seen = KeysOf(Passed(d, pos))
    /\ pos.returned = Cardinality(pos.seen)
    /\ pos.done => pos.seen = Keys(d)

IInv ==
    /\ Roomy(dict)
    /\ it \in [Iter -> Iterator \cup {NULL}]
    /\ IsFiniteSet(Iterating) /\ dict.iterators = Cardinality(Iterating)
    /\ \A i \in Iterating : IterOK(dict, it[i])
    /\ ret \in Val \cup {NULL, -1} \cup Nat

\* Where dict_iter_next goes: at the chain of a bucket, all of it unless it is
\* the one the iterator is in, with every entry before that chain returned.
Stop(d, pos, at) ==
    /\ at.table \in 0..1
    /\ at.idx \in 0..(d.ht[at.table].size - 1)
    /\ at.chain \subseteq d.ht[at.table].buckets[at.idx]
    /\ \A e \in All(d) : e \in Passed(d, pos) <=>
          /\ e \notin at.chain
          /\ \/ e \in Entries(d, 0) /\ (at.table = 1 \/ Bucket(d, 0, e) <= at.idx)
             \/ e \in Entries(d, 1) /\ at.table = 1 /\ Bucket(d, 1, e) <= at.idx

\* An entry of a table is in its own bucket and in no other.
LEMMA WhichBucket ==
    ASSUME NEW d, Sound(d), NEW t \in 0..1, NEW e, NEW b \in 0..(d.ht[t].size - 1)
    PROVE  e \in d.ht[t].buckets[b] <=> e \in Entries(d, t) /\ b = Bucket(d, t, e)
<1>1. Placed(d.ht[t])
  BY DEF Sound, TableOK
<1>2. ASSUME e \in d.ht[t].buckets[b]
      PROVE  e \in Entries(d, t) /\ b = Bucket(d, t, e)
  BY <1>1, <1>2 DEF Entries, Contents, Placed, HashTo, Bucket
<1>3. ASSUME e \in Entries(d, t), b = Bucket(d, t, e)
      PROVE  e \in d.ht[t].buckets[b]
  BY <1>1, <1>3, InContents DEF Entries, Bucket
<1> QED
  BY <1>2, <1>3

\* That bucket is in the table.
LEMMA BucketType ==
    ASSUME NEW d, Sound(d), NEW t \in 0..1, NEW e \in Entries(d, t)
    PROVE  Bucket(d, t, e) \in 0..(d.ht[t].size - 1) /\ e.key \in Key /\ d.ht[t].size \in Nat
<1>1. Placed(d.ht[t]) /\ d.ht[t].size \in Nat
  BY DEF Sound, TableOK, Placed
<1>2. e \in Entry /\ d.ht[t].size > 0
  BY <1>1, InContents DEF Entries
<1> QED
  BY <1>1, <1>2, BucketOK DEF Bucket, Entry

\* Where a scan of table t from bucket n stops: every entry of the table is in a
\* bucket before n, in the chain it stops at, or in a later bucket.
LEMMA NextBucketOK ==
    ASSUME NEW d, Sound(d), NEW t \in 0..1, NEW n \in Nat
    PROVE  /\ \A at \in NextBucket(d, t, n) :
                /\ at.table = t /\ at.idx \in n..(d.ht[t].size - 1)
                /\ at.chain = d.ht[t].buckets[at.idx]
                /\ \A e \in Entries(d, t) : Bucket(d, t, e) >= n => Bucket(d, t, e) >= at.idx
           /\ NextBucket(d, t, n) = {} => \A e \in Entries(d, t) : Bucket(d, t, e) < n
<1> DEFINE bs == {b \in n..(d.ht[t].size - 1) : d.ht[t].buckets[b] # {}}
<1>1. d.ht[t].size \in Nat
  BY DEF Sound, TableOK, Placed
<1>2. ASSUME NEW e \in Entries(d, t), Bucket(d, t, e) >= n
      PROVE  Bucket(d, t, e) \in bs
  <2>1. Bucket(d, t, e) \in 0..(d.ht[t].size - 1)
    BY BucketType
  <2>2. e \in d.ht[t].buckets[Bucket(d, t, e)]
    BY <2>1, WhichBucket
  <2> QED
    BY <1>1, <1>2, <2>1, <2>2
<1>3. ASSUME NEW at \in NextBucket(d, t, n)
      PROVE  /\ at.table = t /\ at.idx \in n..(d.ht[t].size - 1)
             /\ at.chain = d.ht[t].buckets[at.idx]
             /\ \A e \in Entries(d, t) : Bucket(d, t, e) >= n => Bucket(d, t, e) >= at.idx
  <2>1. bs # {} /\ at = [table |-> t, idx |-> Min(bs), chain |-> d.ht[t].buckets[Min(bs)]]
    BY <1>3 DEF NextBucket
  <2>2. bs \in SUBSET Nat
    BY <1>1
  <2>3. Min(bs) \in bs /\ \A b \in bs : Min(bs) <= b
    <3> HIDE DEF bs
    <3> QED
      BY <2>1, <2>2, MinOK
  <2>4. at.table = t /\ at.idx = Min(bs) /\ at.chain = d.ht[t].buckets[Min(bs)]
    BY <2>1
  <2>5. \A e \in Entries(d, t) : Bucket(d, t, e) >= n => Bucket(d, t, e) >= at.idx
    <3> HIDE DEF bs
    <3>1. \A e \in Entries(d, t) : Bucket(d, t, e) >= n => Min(bs) <= Bucket(d, t, e)
      BY <1>2, <2>3
    <3>2. Min(bs) \in Nat
      BY <2>2, <2>3
    <3>3. \A e \in Entries(d, t) : Bucket(d, t, e) \in Int
      BY <1>1, BucketType
    <3> QED
      BY <2>4, <3>1, <3>2, <3>3
  <2> QED
    BY <2>3, <2>4, <2>5
<1>4. ASSUME NextBucket(d, t, n) = {}, NEW e \in Entries(d, t)
      PROVE  Bucket(d, t, e) < n
  <2>1. bs = {}
    BY <1>4 DEF NextBucket
  <2>2. Bucket(d, t, e) \in Int
    BY <1>1, BucketType
  <2> QED
    BY <1>2, <2>1, <2>2
<1> QED
  BY <1>3, <1>4

\* Every chain that is ahead of an iterator's place is such a stop.
LEMMA StopOK ==
    ASSUME NEW d, Sound(d), NEW pos, IterOK(d, pos), NEW at \in Ahead(d, pos)
    PROVE  Stop(d, pos, at)
<1> DEFINE here == NextBucket(d, pos.table, pos.idx + 1)
<1>1. /\ pos.table \in 0..1 /\ pos.idx \in Int /\ pos.idx + 1 \in Nat
      /\ d.ht[0].size \in Nat /\ d.ht[1].size \in Nat
      /\ pos.rest # {} => pos.idx >= 0 /\ pos.rest \subseteq d.ht[pos.table].buckets[pos.idx]
      /\ pos.idx \in -1..(d.ht[pos.table].size - 1)
  BY Sizes DEF IterOK, Iterator
<1>2. /\ Entries(d, 0) \cap Entries(d, 1) = {}
      /\ All(d) = Entries(d, 0) \cup Entries(d, 1)
  BY DEF Sound, All
<1>3. /\ \A e \in Entries(d, 0) : Bucket(d, 0, e) \in Int
      /\ \A e \in Entries(d, 1) : Bucket(d, 1, e) \in Int
  BY <1>1, BucketType
<1> HIDE DEF here
<1>4. CASE pos.rest # {}
  <2>1. at = [table |-> pos.table, idx |-> pos.idx, chain |-> pos.rest]
    BY <1>4 DEF Ahead
  <2> QED
    BY <1>1, <1>4, <2>1 DEF Stop, Passed
<1>5. CASE pos.rest = {} /\ at \in here
  <2>1. /\ at.table = pos.table /\ at.idx \in (pos.idx + 1)..(d.ht[pos.table].size - 1)
        /\ at.chain = d.ht[pos.table].buckets[at.idx]
        /\ \A e \in Entries(d, pos.table) :
             Bucket(d, pos.table, e) >= pos.idx + 1 => Bucket(d, pos.table, e) >= at.idx
    BY <1>1, <1>5, NextBucketOK DEF here
  <2>2. at.idx \in 0..(d.ht[pos.table].size - 1)
    BY <1>1, <2>1
  <2>3. \A e : e \in at.chain <=> e \in Entries(d, pos.table) /\ at.idx = Bucket(d, pos.table, e)
    BY <1>1, <2>1, <2>2, WhichBucket
  <2>4. ASSUME NEW e \in All(d)
        PROVE  e \in Passed(d, pos) <=>
                 /\ e \notin at.chain
                 /\ \/ e \in Entries(d, 0) /\ (at.table = 1 \/ Bucket(d, 0, e) <= at.idx)
                    \/ e \in Entries(d, 1) /\ at.table = 1 /\ Bucket(d, 1, e) <= at.idx
    <3>1. CASE pos.table = 0
      BY <1>1, <1>2, <1>3, <1>5, <2>1, <2>2, <2>3, <3>1 DEF Passed
    <3>2. CASE pos.table = 1
      BY <1>1, <1>2, <1>3, <1>5, <2>1, <2>2, <2>3, <3>2 DEF Passed
    <3> QED
      BY <1>1, <3>1, <3>2
  <2> QED
    BY <1>1, <2>1, <2>2, <2>4 DEF Stop
<1>6. CASE pos.rest = {} /\ here = {} /\ pos.table = 0 /\ at \in NextBucket(d, 1, 0)
  <2>1. /\ at.table = 1 /\ at.idx \in 0..(d.ht[1].size - 1)
        /\ at.chain = d.ht[1].buckets[at.idx]
        /\ \A e \in Entries(d, 1) : Bucket(d, 1, e) >= 0 => Bucket(d, 1, e) >= at.idx
    BY <1>6, NextBucketOK
  <2>2. \A e \in Entries(d, 0) : Bucket(d, 0, e) < pos.idx + 1
    BY <1>1, <1>6, NextBucketOK DEF here
  <2>3. \A e : e \in at.chain <=> e \in Entries(d, 1) /\ at.idx = Bucket(d, 1, e)
    BY <2>1, WhichBucket
  <2>4. \A e \in Entries(d, 1) : Bucket(d, 1, e) >= 0
    BY <1>1, BucketType
  <2>5. ASSUME NEW e \in All(d)
        PROVE  e \in Passed(d, pos) <=>
                 /\ e \notin at.chain
                 /\ \/ e \in Entries(d, 0) /\ (at.table = 1 \/ Bucket(d, 0, e) <= at.idx)
                    \/ e \in Entries(d, 1) /\ at.table = 1 /\ Bucket(d, 1, e) <= at.idx
    BY <1>1, <1>2, <1>3, <1>6, <2>1, <2>2, <2>3, <2>4 DEF Passed
  <2> QED
    BY <1>1, <2>1, <2>5 DEF Stop
<1>7. pos.rest = {} => at \in here \/ (here = {} /\ pos.table = 0 /\ at \in NextBucket(d, 1, 0))
  BY DEF Ahead, here
<1> QED
  BY <1>4, <1>5, <1>6, <1>7

\* The iterator after it returned e, and after it found no more entries.
Advanced(q, pos, at, e) ==
    q \in [table : {at.table}, idx : {at.idx}, rest : {at.chain \ {e}},
           seen : {pos.seen \cup {e.key}}, returned : {pos.returned + 1}, done : {pos.done}]

Ended(q, pos) ==
    q \in [table : {pos.table}, idx : {pos.idx}, rest : {pos.rest},
           seen : {pos.seen}, returned : {pos.returned}, done : {TRUE}]

\* When it returns an entry of that chain, it has returned all before its new place.
LEMMA AdvanceOK ==
    ASSUME NEW d, Sound(d), NEW pos, IterOK(d, pos), ~pos.done,
           NEW at \in Ahead(d, pos), NEW e \in at.chain, NEW q, Advanced(q, pos, at, e)
    PROVE  IterOK(d, q)
<1>1. Stop(d, pos, at)
  BY StopOK
<1>2. /\ at.table \in 0..1 /\ at.idx \in 0..(d.ht[at.table].size - 1)
      /\ at.chain \subseteq d.ht[at.table].buckets[at.idx]
  BY <1>1 DEF Stop
<1>3. /\ q.table = at.table /\ q.idx = at.idx /\ q.rest = at.chain \ {e}
      /\ q.seen = pos.seen \cup {e.key} /\ q.returned = pos.returned + 1 /\ ~q.done
      /\ q.done \in BOOLEAN
  BY DEF Advanced, IterOK, Iterator
<1>4. \A f \in at.chain : f \in Entries(d, at.table) /\ at.idx = Bucket(d, at.table, f)
  BY <1>2, WhichBucket
<1>5. e \in All(d) /\ e \notin Passed(d, pos)
  BY <1>1, <1>2, <1>4 DEF Stop, All
<1>6. \A f \in at.chain : f \in Passed(d, q) <=> f = e
  <2>1. \A f \in at.chain : f \in All(d)
    BY <1>2, <1>4 DEF All
  <2>2. at.idx \in Int
    BY <1>2
  <2> QED
    BY <1>2, <1>3, <1>4, <2>1, <2>2 DEF Passed
<1>7. \A f \in All(d) \ at.chain : f \in Passed(d, q) <=> f \in Passed(d, pos)
  BY <1>1, <1>3 DEF Stop, Passed
<1>8. \A f \in at.chain : f \notin Passed(d, pos)
  <2>1. \A f \in at.chain : f \in All(d)
    BY <1>2, <1>4 DEF All
  <2> QED
    BY <1>1, <2>1 DEF Stop
<1>9. Passed(d, q) = Passed(d, pos) \cup {e}
  BY <1>5, <1>6, <1>7, <1>8 DEF Passed
<1>10. q.seen = KeysOf(Passed(d, q))
  BY <1>3, <1>9 DEF IterOK, KeysOf
<1>11. e.key \notin pos.seen
  BY <1>5 DEF IterOK, KeysOf, Passed, Sound, UniqueKeys
<1>12. q.returned = Cardinality(q.seen) /\ q.returned \in Nat /\ q.seen \subseteq Key
  <2>1. /\ IsFiniteSet(pos.seen) /\ pos.seen \subseteq Key /\ pos.returned = Cardinality(pos.seen)
        /\ pos.returned \in Nat
    BY DictAssumption, FS_Subset DEF IterOK, Iterator
  <2>2. Cardinality(pos.seen \cup {e.key}) = Cardinality(pos.seen) + 1
    BY <1>11, <2>1, FS_AddElement
  <2>3. e.key \in Key
    BY <1>2, <1>4, BucketType
  <2> QED
    BY <1>3, <2>1, <2>2, <2>3
<1>13. q.rest # {} => q.idx >= 0 /\ q.rest \subseteq d.ht[q.table].buckets[q.idx]
  BY <1>2, <1>3
<1>14. q.idx \in -1..(d.ht[q.table].size - 1)
  <2>1. d.ht[at.table].size \in Nat
    BY <1>2 DEF Sound, TableOK, Placed
  <2> QED
    BY <1>2, <1>3, <2>1
<1>15. q \in Iterator
  <2>1. q.rest \subseteq Entry
    BY <1>2, <1>3 DEF Sound, TableOK, Placed
  <2> QED
    BY <1>2, <1>3, <1>12, <1>14, <2>1 DEF Advanced, Iterator, IterOK
<1> QED
  BY <1>3, <1>10, <1>12, <1>13, <1>14, <1>15 DEF IterOK

\* When no chain is ahead, it has returned everything.
LEMMA EndOK ==
    ASSUME NEW d, DictOK(d), NEW pos, IterOK(d, pos), Ahead(d, pos) = {}, NEW q, Ended(q, pos)
    PROVE  IterOK(d, q)
<1> DEFINE here == NextBucket(d, pos.table, pos.idx + 1)
<1>1. /\ Sound(d) /\ pos.table \in 0..1 /\ pos.idx + 1 \in Nat /\ pos.idx \in Int
      /\ d.ht[0].size \in Nat /\ d.ht[1].size \in Nat
  BY Sizes DEF DictOK, IterOK, Iterator
<1>2. pos.rest = {} /\ here = {} /\ (pos.table = 0 /\ Rehashing(d) => NextBucket(d, 1, 0) = {})
  <2>1. pos.rest = {}
    BY DEF Ahead
  <2>2. CASE pos.table = 0 /\ Rehashing(d) /\ here = {}
    BY <2>1, <2>2 DEF Ahead, here
  <2>3. CASE ~(pos.table = 0 /\ Rehashing(d) /\ here = {})
    BY <2>1, <2>3 DEF Ahead, here
  <2> QED
    BY <2>1, <2>2, <2>3
<1>3. \A e \in Entries(d, pos.table) : Bucket(d, pos.table, e) < pos.idx + 1
  BY <1>1, <1>2, NextBucketOK DEF here
<1>4. pos.table = 0 => Entries(d, 1) = {}
  <2>1. CASE ~Rehashing(d)
    BY <2>1, NoTableOK DEF DictOK, MovedUpTo, Rehashing, Entries
  <2>2. CASE pos.table = 0 /\ Rehashing(d)
    <3>1. \A e \in Entries(d, 1) : Bucket(d, 1, e) < 0
      BY <1>1, <1>2, <2>2, NextBucketOK
    <3> QED
      BY <1>1, <3>1, BucketType
  <2> QED
    BY <2>1, <2>2
<1>5. /\ \A e \in Entries(d, 0) : Bucket(d, 0, e) \in Int
      /\ \A e \in Entries(d, 1) : Bucket(d, 1, e) \in Int
  BY <1>1, BucketType
<1>6. Passed(d, pos) = All(d)
  BY <1>1, <1>2, <1>3, <1>4, <1>5 DEF Passed, All
<1>7. /\ q.table = pos.table /\ q.idx = pos.idx /\ q.rest = pos.rest /\ q.seen = pos.seen
      /\ q.returned = pos.returned /\ q.done = TRUE
  BY DEF Ended
<1>8. Passed(d, q) = Passed(d, pos)
  BY <1>7 DEF Passed
<1>9. q.seen = Keys(d)
  BY <1>6, <1>7 DEF IterOK, KeysOf, Keys
<1>10. q \in Iterator
  BY DEF Ended, IterOK, Iterator
<1> QED
  BY <1>7, <1>8, <1>9, <1>10 DEF IterOK

\* A new iterator, before every bucket of table 0.
LEMMA StartOK ==
    ASSUME NEW d, Sound(d), NEW pos,
           pos = [table |-> 0, idx |-> -1, rest |-> {}, seen |-> {}, returned |-> 0, done |-> FALSE]
    PROVE  IterOK(d, pos)
<1>1. pos \in Iterator
  BY DEF Iterator
<1>2. Passed(d, pos) = {}
  <2>1. \A e \in Entries(d, 0) : Bucket(d, 0, e) >= 0
    BY BucketType, Sizes
  <2>2. \A e \in Entries(d, 0) : Bucket(d, 0, e) \in Int
    BY BucketType, Sizes
  <2> QED
    BY <2>1, <2>2 DEF Passed
<1>3. -1 \in -1..(d.ht[0].size - 1)
  BY Sizes
<1> QED
  BY <1>1, <1>2, <1>3, FS_EmptySet DEF IterOK, KeysOf

\* What an iterator depends on.
LEMMA SameTables ==
    ASSUME NEW c, NEW d, c.ht = d.ht, c.rehash_idx = d.rehash_idx
    PROVE  /\ All(c) = All(d) /\ Capacity(c) = Capacity(d) /\ dict_size(c) = dict_size(d)
           /\ Sound(d) /\ Shape(c) => Sound(c)
           /\ DictOK(d) /\ Shape(c) => DictOK(c)
           /\ \A pos : IterOK(d, pos) => IterOK(c, pos)
<1>1. \A t : Entries(c, t) = Entries(d, t)
  BY DEF Entries
<1>2. All(c) = All(d) /\ Keys(c) = Keys(d) /\ dict_size(c) = dict_size(d)
  BY <1>1 DEF All, Keys, dict_size
<1>3. Capacity(c) = Capacity(d)
  BY DEF Capacity, Rehashing
<1>4. Sound(d) /\ Shape(c) => Sound(c)
  BY <1>1, <1>2 DEF Sound
<1>5. DictOK(d) /\ Shape(c) => DictOK(c)
  BY <1>4 DEF DictOK, MovedUpTo
<1>6. \A pos : Passed(c, pos) = Passed(d, pos)
  BY <1>1, <1>2 DEF Passed, Bucket
<1>7. ASSUME NEW pos, IterOK(d, pos) PROVE IterOK(c, pos)
  BY <1>2, <1>6, <1>7 DEF IterOK
<1> QED
  BY <1>2, <1>3, <1>4, <1>5, <1>7

-----------------------------------------------------------------------------
(* The map. *)

\* The map the entries S stand for.
MapOf(S) ==
    [k \in Key |-> LET es == {e \in S : e.key = k}
                   IN  IF es = {} THEN NULL ELSE (CHOOSE e \in es : TRUE).val]

\* The value a set of entries gives a key.
LEMMA MapAt ==
    ASSUME NEW S, NEW k \in Key, NEW es, es = {e \in S : e.key = k}
    PROVE  MapOf(S)[k] = IF es = {} THEN NULL ELSE (CHOOSE e \in es : TRUE).val
BY DEF MapOf

\* Entries with different keys are a map.
LEMMA MapOfOK ==
    ASSUME NEW S \in SUBSET Entry, UniqueKeys(S)
    PROVE  /\ MapOf(S) \in [Key -> Val \cup {NULL}]
           /\ \A e \in S : MapOf(S)[e.key] = e.val
           /\ \A k \in Key : ~Holds(S, k) => MapOf(S)[k] = NULL
           /\ \A k \in Key : MapOf(S)[k] # NULL <=> Holds(S, k)
<1>1. ASSUME NEW e \in S PROVE MapOf(S)[e.key] = e.val /\ e.key \in Key /\ e.val \in Val
  <2> DEFINE es == {f \in S : f.key = e.key}
  <2>1. es = {e}
    BY DEF UniqueKeys
  <2>2. (CHOOSE f \in es : TRUE) = e
    BY <2>1
  <2>3. e.key \in Key /\ e.val \in Val
    BY DEF Entry
  <2>4. MapOf(S)[e.key] = IF es = {} THEN NULL ELSE (CHOOSE f \in es : TRUE).val
    BY <2>3 DEF MapOf
  <2> HIDE DEF es
  <2> QED
    BY <2>1, <2>2, <2>3, <2>4
<1>2. ASSUME NEW k \in Key, ~Holds(S, k) PROVE MapOf(S)[k] = NULL
  <2>1. {e \in S : e.key = k} = {}
    BY <1>2 DEF Holds
  <2> QED
    BY <2>1 DEF MapOf
<1>3. ASSUME NEW k \in Key, Holds(S, k) PROVE MapOf(S)[k] \in Val
  BY <1>1, <1>3 DEF Holds
<1>4. MapOf(S) = [k \in Key |-> MapOf(S)[k]]
  BY DEF MapOf
<1>5. MapOf(S) \in [Key -> Val \cup {NULL}]
  BY <1>2, <1>3, <1>4
<1> QED
  BY <1>1, <1>2, <1>3, <1>5, DictAssumption

\* Entry by entry, what the calls do to the entries they do to the map.
LEMMA MapOfAdded ==
    ASSUME NEW S \in SUBSET Entry, UniqueKeys(S), NEW k \in Key, NEW v \in Val
    PROVE  MapOf({e \in S : e.key # k} \cup {[key |-> k, val |-> v]}) = [MapOf(S) EXCEPT ![k] = v]
<1> DEFINE new == [key |-> k, val |-> v]
           T   == {e \in S : e.key # k} \cup {new}
<1>1. new \in Entry /\ new.key = k /\ new.val = v
  BY DEF Entry
<1> HIDE DEF new
<1>2. T \in SUBSET Entry /\ UniqueKeys(T)
  BY <1>1 DEF UniqueKeys
<1>3. ASSUME NEW j \in Key, j # k PROVE MapOf(T)[j] = MapOf(S)[j]
  <2> DEFINE es == {e \in S : e.key = j}
             at == IF es = {} THEN NULL ELSE (CHOOSE f \in es : TRUE).val
  <2>1. es = {e \in T : e.key = j}
    BY <1>1, <1>3
  <2> HIDE DEF T, es
  <2>2. MapOf(T)[j] = at
    BY <2>1, MapAt
  <2>3. es = {e \in S : e.key = j}
    BY DEF es
  <2>4. MapOf(S)[j] = at
    BY <2>3, MapAt
  <2> QED
    BY <2>2, <2>4
<1>4. new \in T
  OBVIOUS
<1> HIDE DEF T
<1>5. MapOf(T)[k] = v
  BY <1>1, <1>2, <1>4, MapOfOK
<1>6. MapOf(T) = [MapOf(S) EXCEPT ![k] = v]
  BY <1>2, <1>3, <1>5, MapOfOK
<1> QED
  BY <1>6 DEF T, new

\* Without one of them the map lacks its key.
LEMMA MapOfRemoved ==
    ASSUME NEW S \in SUBSET Entry, UniqueKeys(S), NEW e \in S
    PROVE  MapOf(S \ {e}) = [MapOf(S) EXCEPT ![e.key] = NULL]
<1> DEFINE T == S \ {e}
<1>1. T \in SUBSET Entry /\ UniqueKeys(T) /\ e.key \in Key
  BY DEF UniqueKeys, Entry
<1>2. ASSUME NEW j \in Key, j # e.key PROVE MapOf(T)[j] = MapOf(S)[j]
  <2> DEFINE es == {f \in S : f.key = j}
             at == IF es = {} THEN NULL ELSE (CHOOSE f \in es : TRUE).val
  <2>1. es = {f \in T : f.key = j}
    BY <1>2
  <2> HIDE DEF T, es
  <2>2. MapOf(T)[j] = at
    BY <2>1, MapAt
  <2>3. es = {f \in S : f.key = j}
    BY DEF es
  <2>4. MapOf(S)[j] = at
    BY <2>3, MapAt
  <2> QED
    BY <2>2, <2>4
<1>3. ~Holds(T, e.key)
  BY DEF Holds, UniqueKeys
<1> HIDE DEF T
<1>4. MapOf(T)[e.key] = NULL
  BY <1>1, <1>3, MapOfOK
<1>5. MapOf(T) = [MapOf(S) EXCEPT ![e.key] = NULL]
  BY <1>1, <1>2, <1>4, MapOfOK
<1> QED
  BY <1>5 DEF T

\* The keys of the map are as many as dict_size says.
LEMMA KeysOK ==
    ASSUME NEW d, Sound(d)
    PROVE  /\ Keys(d) = {k \in Key : Holds(All(d), k)}
           /\ Cardinality(Keys(d)) = dict_size(d)
<1>1. IsFiniteSet(All(d)) /\ All(d) \subseteq Entry /\ dict_size(d) = Cardinality(All(d))
  BY EntriesOK
<1>2. Keys(d) = {k \in Key : Holds(All(d), k)}
  BY <1>1 DEF Keys, Holds, Entry
<1> DEFINE f == [e \in All(d) |-> e.key]
<1>3. f \in Bijection(All(d), Keys(d))
  <2>1. f \in [All(d) -> Keys(d)]
    BY DEF Keys
  <2>2. \A x, y \in All(d) : f[x] = f[y] => x = y
    BY DEF Sound, UniqueKeys
  <2>3. \A k \in Keys(d) : \E x \in All(d) : f[x] = k
    BY DEF Keys
  <2> QED
    BY <2>1, <2>2, <2>3 DEF Bijection, Injection, Surjection, IsInjective
<1>4. ExistsBijection(All(d), Keys(d))
  BY <1>3 DEF ExistsBijection
<1>5. Cardinality(Keys(d)) = Cardinality(All(d))
  BY <1>1, <1>4, FS_Bijection
<1> QED
  BY <1>1, <1>2, <1>5

-----------------------------------------------------------------------------
(* The steps: each keeps IInv and is a step, or a stutter, of the map. *)

\* The part of IInv about the entries, for a call that finds no iterator.
LEMMA ChangeOK ==
    ASSUME IInv, NoIterator, it' = it, NEW S, Becomes(dict', dict, S),
           ret' \in Val \cup {NULL, -1} \cup Nat
    PROVE  IInv'
<1>1. Iterating = {}
  BY FS_EmptySet DEF IInv, NoIterator
<1>2. Iterating' = Iterating
  BY DEF Iterating
<1>3. dict'.iterators = dict.iterators /\ Roomy(dict')
  BY DEF Becomes
<1> QED
  BY <1>1, <1>2, <1>3 DEF IInv

\* Keys present in the map are the keys of the entries.
LEMMA MapNow ==
    ASSUME NEW d, Roomy(d)
    PROVE  /\ AbstractMap(d) = MapOf(All(d))
           /\ All(d) \in SUBSET Entry /\ UniqueKeys(All(d))
           /\ DictOK(d) /\ Sound(d)
           /\ AbstractMap(d) \in [Key -> Val \cup {NULL}]
           /\ \A k \in Key : AbstractMap(d)[k] # NULL <=> Holds(All(d), k)
<1>1. AbstractMap(d) = MapOf(All(d))
  BY DEF AbstractMap, MapOf
<1>2. /\ All(d) \in SUBSET Entry /\ UniqueKeys(All(d))
      /\ DictOK(d) /\ Sound(d)
  BY EntriesOK DEF Roomy, DictOK, Sound
<1> QED
  BY <1>1, <1>2, MapOfOK

\* Every call of dict.c preserves the invariant and is one step of the atomic map: adding,
LEMMA AddStep ==
    ASSUME IInv, NEW k \in Key, NEW v \in Val, Add(k, v)
    PROVE  IInv' /\ Map!Add(k, v)
<1>1. /\ Roomy(dict) /\ dict.iterators = 0
      /\ dict' = dict_add(dict, k, v) /\ it' = it
      /\ ret' = IF FoundIn(AddPrepared(dict, k), k) # {} THEN -1 ELSE 0
  BY DEF IInv, Add, NoIterator
<1>2. /\ AddResult(dict', dict, k, v)
      /\ FoundIn(AddPrepared(dict, k), k) = {} <=> ~Holds(All(dict), k)
  BY <1>1, AddOK
<1>3. CASE Holds(All(dict), k)
  <2>1. Becomes(dict', dict, All(dict)) /\ ret' = -1
    BY <1>1, <1>2, <1>3 DEF AddResult
  <2>2. IInv'
    BY <2>1, ChangeOK DEF Add
  <2>3. AbstractMap(dict') = AbstractMap(dict)
    BY <1>1, <2>1, MapNow DEF Becomes
  <2> QED
    BY <1>1, <1>3, <2>1, <2>2, <2>3, MapNow DEF Map!Add
<1>4. CASE ~Holds(All(dict), k)
  <2> DEFINE S == {e \in All(dict) : e.key # k} \cup {[key |-> k, val |-> v]}
  <2>1. All(dict) = {e \in All(dict) : e.key # k}
    BY <1>4 DEF Holds
  <2>2. Becomes(dict', dict, S) /\ ret' = 0
    BY <1>1, <1>2, <1>4, <2>1 DEF AddResult
  <2>3. MapOf(S) = [MapOf(All(dict)) EXCEPT ![k] = v]
    BY <1>1, MapNow, MapOfAdded
  <2> HIDE DEF S
  <2>4. IInv'
    BY <2>2, ChangeOK DEF Add
  <2>5. AbstractMap(dict') = [AbstractMap(dict) EXCEPT ![k] = v]
    BY <1>1, <2>2, <2>3, MapNow DEF Becomes
  <2> QED
    BY <1>1, <1>4, <2>2, <2>4, <2>5, MapNow DEF Map!Add
<1> QED
  BY <1>3, <1>4

\* replacing,
LEMMA ReplaceStep ==
    ASSUME IInv, NEW k \in Key, NEW v \in Val, Replace(k, v)
    PROVE  IInv' /\ Map!Replace(k, v)
<1> DEFINE S == {e \in All(dict) : e.key # k} \cup {[key |-> k, val |-> v]}
<1>1. /\ Roomy(dict) /\ dict.iterators = 0
      /\ dict' = dict_replace(dict, k, v) /\ it' = it /\ ret' = 0
  BY DEF IInv, Replace, NoIterator
<1>2. Becomes(dict', dict, S)
  BY <1>1, ReplaceOK DEF ReplaceResult
<1>3. MapOf(S) = [MapOf(All(dict)) EXCEPT ![k] = v]
  BY <1>1, MapNow, MapOfAdded
<1> HIDE DEF S
<1>4. IInv'
  BY <1>1, <1>2, ChangeOK DEF Replace
<1>5. AbstractMap(dict') = [AbstractMap(dict) EXCEPT ![k] = v]
  BY <1>1, <1>2, <1>3, MapNow DEF Becomes
<1> QED
  BY <1>1, <1>4, <1>5 DEF Map!Replace

\* looking up, which may move a chain,
LEMMA FindStep ==
    ASSUME IInv, NEW k \in Key, Find(k)
    PROVE  IInv' /\ Map!Find(k)
<1> DEFINE found == FoundIn(dict', k)
<1>1. /\ Roomy(dict) /\ dict' = dict_find(dict, k) /\ it' = it
      /\ ret' = IF found = {} THEN NULL ELSE (CHOOSE e \in found : TRUE).val
      /\ dict.iterators \in Nat
  BY DEF IInv, Find, Roomy, DictOK, Sound, Shape
<1>2. Becomes(dict', dict, All(dict)) /\ (dict.iterators > 0 => dict' = dict)
  BY <1>1, FindOK
<1>3. Roomy(dict') /\ All(dict') = All(dict) /\ DictOK(dict')
  BY <1>2 DEF Becomes, Roomy
<1>4. AbstractMap(dict') = AbstractMap(dict)
  BY <1>1, <1>3, MapNow
<1>5. found = {e \in All(dict) : e.key = k}
  BY <1>3, FoundInOK
<1> HIDE DEF found
<1>6. ret' = AbstractMap(dict)[k]
  <2>1. MapOf(All(dict))[k] = IF found = {} THEN NULL ELSE (CHOOSE e \in found : TRUE).val
    BY <1>5, MapAt
  <2> QED
    BY <1>1, <2>1, MapNow
<1>7. ret' \in Val \cup {NULL, -1} \cup Nat
  BY <1>1, <1>6, MapNow
<1>8. CASE dict.iterators = 0
  <2>1. IInv'
    BY <1>1, <1>2, <1>7, <1>8, ChangeOK DEF NoIterator
  <2> QED
    BY <1>4, <1>6, <2>1 DEF Map!Find
<1>9. CASE dict.iterators > 0
  <2>1. dict' = dict
    BY <1>2, <1>9
  <2>2. IInv'
    BY <1>1, <1>7, <2>1 DEF IInv, Iterating
  <2> QED
    BY <1>4, <1>6, <2>2 DEF Map!Find
<1> QED
  BY <1>1, <1>8, <1>9

\* deleting,
LEMMA DeleteStep ==
    ASSUME IInv, NEW k \in Key, Delete(k)
    PROVE  IInv' /\ Map!Delete(k)
<1>1. /\ Roomy(dict) /\ DictOK(dict) /\ NoIterator /\ it' = it
      /\ AbstractMap(dict) = MapOf(All(dict))
      /\ All(dict) \in SUBSET Entry /\ UniqueKeys(All(dict))
      /\ AbstractMap(dict) \in [Key -> Val \cup {NULL}]
      /\ AbstractMap(dict)[k] # NULL <=> Holds(All(dict), k)
  BY MapNow DEF IInv, Delete
<1>2. FoundIn(dict, k) = {e \in All(dict) : e.key = k}
  BY <1>1, FoundInOK
<1>3. FoundIn(dict, k) = {} <=> AbstractMap(dict)[k] = NULL
  BY <1>1, <1>2 DEF Holds
<1>4. CASE FoundIn(dict, k) = {}
  <2>1. ret' = -1 /\ dict' = dict
    BY <1>4 DEF Delete
  <2>2. IInv'
    BY <1>1, <2>1 DEF IInv, Iterating
  <2>3. AbstractMap(dict') = [AbstractMap(dict) EXCEPT ![k] = NULL]
    BY <1>1, <1>3, <1>4, <2>1
  <2> QED
    BY <1>3, <1>4, <2>1, <2>2, <2>3 DEF Map!Delete
<1>5. CASE FoundIn(dict, k) # {}
  <2> DEFINE e == CHOOSE f \in FoundIn(dict, k) : TRUE
  <2>1. ret' = 0 /\ dict' = dict_delete(dict, k)
    BY <1>5 DEF Delete
  <2>2. e \in All(dict) /\ e.key = k
    BY <1>1, <1>5, TheEntry
  <2>3. Becomes(dict', dict, All(dict) \ {e})
    BY <1>1, <1>5, <2>1, DeleteOK
  <2> HIDE DEF e
  <2>4. IInv'
    BY <1>1, <2>1, <2>3, ChangeOK
  <2>5. MapOf(All(dict) \ {e}) = [MapOf(All(dict)) EXCEPT ![e.key] = NULL]
    BY <1>1, <2>2, MapOfRemoved
  <2>6. AbstractMap(dict') = [AbstractMap(dict) EXCEPT ![k] = NULL]
    BY <1>1, <2>2, <2>3, <2>5, MapNow DEF Becomes
  <2> QED
    BY <1>3, <1>5, <2>1, <2>4, <2>6 DEF Map!Delete
<1> QED
  BY <1>4, <1>5

\* and counting.
LEMMA SizeStep ==
    ASSUME IInv, Size
    PROVE  IInv' /\ Map!Size
<1>1. Roomy(dict) /\ Sound(dict) /\ dict' = dict /\ it' = it /\ ret' = dict_size(dict)
  BY DEF IInv, Size, Roomy, DictOK
<1>2. ret' \in Nat
  BY <1>1, EntriesOK
<1>3. IInv'
  BY <1>1, <1>2 DEF IInv, Iterating
<1>4. Map!Present = Keys(dict)
  BY <1>1, KeysOK, MapNow DEF Map!Present
<1>5. ret' = Map!Cardinality(Map!Present)
  <2>1. Map!Cardinality(Keys(dict)) = Cardinality(Keys(dict))
    BY DEF Map!Cardinality, Cardinality
  <2> QED
    BY <1>1, <1>4, <2>1, KeysOK
<1>6. AbstractMap(dict') = AbstractMap(dict)
  BY <1>1
<1> QED
  BY <1>1, <1>3, <1>5, <1>6 DEF Map!Size

\* The steps of an iterator leave the entries alone.
LEMMA IterNewStep ==
    ASSUME IInv, NEW i \in Iter, dict_iter_new(i)
    PROVE  IInv' /\ All(dict') = All(dict)
<1> DEFINE pos == [table |-> 0, idx |-> -1, rest |-> {}, seen |-> {}, returned |-> 0, done |-> FALSE]
<1>1. /\ it[i] = NULL /\ it' = [it EXCEPT ![i] = pos] /\ ret' = ret
      /\ dict' = [dict EXCEPT !.iterators = @ + 1]
      /\ it \in [Iter -> Iterator \cup {NULL}]
      /\ Roomy(dict) /\ DictOK(dict) /\ Sound(dict) /\ Shape(dict) /\ dict.iterators \in Nat
  BY DEF dict_iter_new, IInv, Roomy, DictOK, Sound, Shape
<1>2. IterOK(dict, pos)
  BY <1>1, StartOK
<1> HIDE DEF pos
<1>3. pos \in Iterator /\ pos # NULL
  BY <1>2, DictAssumption DEF IterOK
<1>4. /\ dict'.ht = dict.ht /\ dict'.rehash_idx = dict.rehash_idx
      /\ dict'.iterators = dict.iterators + 1
      /\ dict' \in [ht : {dict.ht}, rehash_idx : Int, iterators : Nat]
  BY <1>1 DEF Shape
<1>5. Shape(dict')
  BY <1>1, <1>4 DEF Shape
<1>6. /\ All(dict') = All(dict) /\ Roomy(dict')
      /\ \A p : IterOK(dict, p) => IterOK(dict', p)
  BY <1>1, <1>4, <1>5, SameTables DEF Roomy
<1>7. it' \in [Iter -> Iterator \cup {NULL}] /\ it'[i] = pos /\ \A j \in Iter : j # i => it'[j] = it[j]
  BY <1>1, <1>3
<1>8. Iterating' = Iterating \cup {i} /\ i \notin Iterating
  BY <1>1, <1>3, <1>7 DEF Iterating
<1>9. IsFiniteSet(Iterating') /\ dict'.iterators = Cardinality(Iterating')
  <2>1. /\ IsFiniteSet(Iterating \cup {i})
        /\ Cardinality(Iterating \cup {i}) = Cardinality(Iterating) + 1
    BY <1>8, FS_AddElement DEF IInv
  <2> QED
    BY <1>4, <1>8, <2>1 DEF IInv
<1>10. \A j \in Iterating' : IterOK(dict', it'[j])
  BY <1>2, <1>6, <1>7, <1>8 DEF IInv, Iterating
<1>11. ret' \in Val \cup {NULL, -1} \cup Nat
  BY <1>1 DEF IInv
<1> QED
  BY <1>6, <1>7, <1>9, <1>10, <1>11 DEF IInv

\* An iterator's steps move no entry.
LEMMA IterNextStep ==
    ASSUME IInv, NEW i \in Iter, dict_iter_next(i)
    PROVE  IInv' /\ All(dict') = All(dict)
<1> DEFINE pos == it[i]
           q   == it'[i]
<1>1. /\ pos # NULL /\ ~pos.done /\ dict' = dict /\ ret' = ret
      /\ it \in [Iter -> Iterator \cup {NULL}] /\ pos \in Iterator
      /\ DictOK(dict) /\ Sound(dict) /\ IterOK(dict, pos)
  BY DEF dict_iter_next, IInv, Roomy, DictOK, Iterating
<1>2. /\ it' \in [Iter -> {it'[j] : j \in Iter}]
      /\ \A j \in Iter : j # i => it'[j] = it[j]
      /\ IterOK(dict, q)
  <2>1. ASSUME NEW at \in Ahead(dict, pos), NEW e \in at.chain,
               it' = [it EXCEPT ![i].table = at.table, ![i].idx = at.idx,
                                ![i].rest = at.chain \ {e},
                                ![i].seen = @ \cup {e.key},
                                ![i].returned = @ + 1]
        PROVE  /\ it' \in [Iter -> {it'[j] : j \in Iter}]
               /\ \A j \in Iter : j # i => it'[j] = it[j]
               /\ IterOK(dict, q)
    <3>1. it' \in [Iter -> {it'[j] : j \in Iter}] /\ \A j \in Iter : j # i => it'[j] = it[j]
      BY <1>1, <2>1
    <3>2. q = [pos EXCEPT !.table = at.table, !.idx = at.idx, !.rest = at.chain \ {e},
                          !.seen = @ \cup {e.key}, !.returned = @ + 1]
      BY <1>1, <2>1
    <3> HIDE DEF q, pos
    <3>3. Advanced(q, pos, at, e)
      BY <1>1, <3>2 DEF Advanced, Iterator
    <3>4. IterOK(dict, q)
      BY <1>1, <3>3, AdvanceOK
    <3> QED
      BY <3>1, <3>4
  <2>2. ASSUME Ahead(dict, pos) = {}, it' = [it EXCEPT ![i].done = TRUE]
        PROVE  /\ it' \in [Iter -> {it'[j] : j \in Iter}]
               /\ \A j \in Iter : j # i => it'[j] = it[j]
               /\ IterOK(dict, q)
    <3>1. it' \in [Iter -> {it'[j] : j \in Iter}] /\ \A j \in Iter : j # i => it'[j] = it[j]
      BY <1>1, <2>2
    <3>2. q = [pos EXCEPT !.done = TRUE]
      BY <1>1, <2>2
    <3> HIDE DEF q, pos
    <3>3. Ended(q, pos)
      BY <1>1, <3>2 DEF Ended, Iterator
    <3>4. IterOK(dict, q)
      BY <1>1, <2>2, <3>3, EndOK
    <3> QED
      BY <3>1, <3>4
  <2> QED
    BY <2>1, <2>2 DEF dict_iter_next
<1>3. q \in Iterator /\ q # NULL
  BY <1>2, DictAssumption DEF IterOK
<1> HIDE DEF pos, q
<1>4. it' \in [Iter -> Iterator \cup {NULL}]
  BY <1>1, <1>2, <1>3 DEF q
<1>5. Iterating' = Iterating
  BY <1>1, <1>2, <1>3 DEF Iterating, pos, q
<1>6. \A j \in Iterating' : IterOK(dict', it'[j])
  BY <1>1, <1>2, <1>5 DEF IInv, Iterating, q
<1> QED
  BY <1>1, <1>4, <1>5, <1>6 DEF IInv

\* Nor does its end, after which the rehash may go on.
LEMMA IterFreeStep ==
    ASSUME IInv, NEW i \in Iter, dict_iter_free(i)
    PROVE  IInv' /\ All(dict') = All(dict)
<1>1. /\ it[i] # NULL /\ it' = [it EXCEPT ![i] = NULL] /\ ret' = ret
      /\ dict' = [dict EXCEPT !.iterators = @ - 1]
      /\ it \in [Iter -> Iterator \cup {NULL}]
      /\ Roomy(dict) /\ DictOK(dict) /\ Sound(dict) /\ Shape(dict) /\ dict.iterators \in Nat
  BY DEF dict_iter_free, IInv, Roomy, DictOK, Sound, Shape
<1>2. it' \in [Iter -> Iterator \cup {NULL}] /\ it'[i] = NULL /\ \A j \in Iter : j # i => it'[j] = it[j]
  BY <1>1
<1>3. Iterating' = Iterating \ {i} /\ i \in Iterating
  BY <1>1, <1>2 DEF Iterating
<1>4. /\ IsFiniteSet(Iterating') /\ Cardinality(Iterating') = Cardinality(Iterating) - 1
      /\ Cardinality(Iterating') \in Nat
  <2>1. /\ IsFiniteSet(Iterating \ {i})
        /\ Cardinality(Iterating \ {i}) = Cardinality(Iterating) - 1
    BY <1>3, FS_RemoveElement DEF IInv
  <2> QED
    BY <1>3, <2>1, FS_CardinalityType
<1>5. /\ dict'.ht = dict.ht /\ dict'.rehash_idx = dict.rehash_idx
      /\ dict'.iterators = Cardinality(Iterating') /\ dict'.iterators \in Nat
      /\ dict' \in [ht : {dict.ht}, rehash_idx : Int, iterators : Nat]
  BY <1>1, <1>4 DEF Shape, IInv
<1>6. Shape(dict')
  BY <1>1, <1>5 DEF Shape
<1>7. /\ All(dict') = All(dict) /\ Roomy(dict')
      /\ \A p : IterOK(dict, p) => IterOK(dict', p)
  BY <1>1, <1>5, <1>6, SameTables DEF Roomy
<1>8. \A j \in Iterating' : IterOK(dict', it'[j])
  BY <1>2, <1>3, <1>7 DEF IInv, Iterating
<1>9. ret' \in Val \cup {NULL, -1} \cup Nat
  BY <1>1 DEF IInv
<1> QED
  BY <1>2, <1>4, <1>5, <1>7, <1>8, <1>9 DEF IInv

\* So they are no steps of the map.
LEMMA IterStep ==
    ASSUME IInv, NEW i \in Iter, dict_iter_new(i) \/ dict_iter_next(i) \/ dict_iter_free(i)
    PROVE  IInv' /\ UNCHANGED Map!vars
<1>1. IInv' /\ All(dict') = All(dict)
  BY IterNewStep, IterNextStep, IterFreeStep
<1>2. ret' = ret
  BY DEF dict_iter_new, dict_iter_next, dict_iter_free
<1>3. AbstractMap(dict') = AbstractMap(dict)
  BY <1>1, MapNow DEF IInv
<1> QED
  BY <1>1, <1>2, <1>3 DEF Map!vars

\* A new dict satisfies the invariant and is an empty map.
LEMMA InitOK ==
    ASSUME Init
    PROVE  IInv /\ Map!Init
<1>1. /\ dict.ht = Tables(NoTable, NoTable) /\ dict.rehash_idx = -1 /\ dict.iterators = 0
      /\ dict \in [ht : {Tables(NoTable, NoTable)}, rehash_idx : Int, iterators : Nat]
  BY DEF Init, dict_create
<1>2. dict.ht[0] = NoTable /\ dict.ht[1] = NoTable /\ dict.ht \in [0..1 -> {NoTable}]
  BY <1>1 DEF Tables
<1>3. All(dict) = {} /\ Entries(dict, 0) = {} /\ Entries(dict, 1) = {}
  BY <1>2, NoTableOK DEF All, Entries
<1>4. DictOK(dict)
  <2>1. Shape(dict)
    BY <1>1, <1>2 DEF Shape
  <2> QED
    BY <1>1, <1>2, <1>3, <2>1, NoTableOK DEF DictOK, Sound, UniqueKeys
<1>5. Roomy(dict)
  BY <1>1, <1>2, <1>4 DEF Roomy, dict_size, Capacity, Rehashing, NoTable
<1>6. Iterating = {}
  BY DEF Iterating, Init
<1>7. IInv
  BY <1>1, <1>5, <1>6, FS_EmptySet DEF IInv, Init
<1>8. AbstractMap(dict) = [k \in Key |-> NULL]
  <2>1. \A k \in Key : AbstractMap(dict)[k] = NULL
    BY <1>3, <1>5, MapNow DEF Holds
  <2> QED
    BY <1>5, <2>1, MapNow
<1> QED
  BY <1>7, <1>8 DEF Map!Init, Init

\* What the refinement is made of: each step is one of the map, or none.
LEMMA StepIsMapStep ==
    ASSUME IInv, [Next]_vars
    PROVE  IInv' /\ [Map!Next]_(Map!vars)
<1>1. ASSUME NEW k \in Key, NEW v \in Val, Add(k, v)
      PROVE  IInv' /\ Map!Next
  BY <1>1, AddStep DEF Map!Next
<1>2. ASSUME NEW k \in Key, NEW v \in Val, Replace(k, v)
      PROVE  IInv' /\ Map!Next
  BY <1>2, ReplaceStep DEF Map!Next
<1>3. ASSUME NEW k \in Key, Find(k)
      PROVE  IInv' /\ Map!Next
  BY <1>3, FindStep DEF Map!Next
<1>4. ASSUME NEW k \in Key, Delete(k)
      PROVE  IInv' /\ Map!Next
  BY <1>4, DeleteStep DEF Map!Next
<1>5. CASE Size
  BY <1>5, SizeStep DEF Map!Next
<1>6. ASSUME NEW i \in Iter, dict_iter_new(i) \/ dict_iter_next(i) \/ dict_iter_free(i)
      PROVE  IInv' /\ UNCHANGED Map!vars
  BY <1>6, IterStep
<1>7. CASE UNCHANGED vars
  <2>1. dict' = dict /\ it' = it /\ ret' = ret
    BY <1>7 DEF vars
  <2>2. IInv'
    BY <2>1 DEF IInv, Iterating
  <2>3. AbstractMap(dict') = AbstractMap(dict)
    BY <2>1
  <2> QED
    BY <2>1, <2>2, <2>3 DEF Map!vars
<1> QED
  BY <1>1, <1>2, <1>3, <1>4, <1>5, <1>6, <1>7 DEF Next

\* The invariant implies the properties.
LEMMA IInvMeans ==
    ASSUME IInv
    PROVE  TypeOK /\ WellPlaced /\ LoadBounded /\ IteratorVisitsAllOnce
<1>1. /\ Roomy(dict) /\ DictOK(dict) /\ Sound(dict)
      /\ TableOK(dict.ht[0]) /\ TableOK(dict.ht[1])
      /\ dict.rehash_idx \in Int /\ dict_size(dict) \in Nat
  BY EntriesOK DEF IInv, Roomy, DictOK, Sound, Shape
<1>2. \A t \in 0..1 : /\ Placed(dict.ht[t]) /\ dict.ht[t].used = Cardinality(Entries(dict, t))
                      /\ dict.ht[t].used \in Nat /\ dict.ht[t].size \in Nat
                      /\ dict.ht[t].buckets \in [0..(dict.ht[t].size - 1) -> SUBSET Entry]
  <2>1. \A tb : TableOK(tb) =>
          /\ Placed(tb) /\ tb.used = Cardinality(Contents(tb)) /\ tb.used \in Nat
          /\ tb.size \in Nat /\ tb.buckets \in [0..(tb.size - 1) -> SUBSET Entry]
    BY FS_CardinalityType DEF TableOK, Placed
  <2> QED
    BY <1>1, <2>1 DEF Entries
<1>3. Rehashing(dict) => \E idx \in 0..(dict.ht[0].size - 1) : MovedUpTo(dict, idx)
  BY <1>1 DEF DictOK, Rehashing
<1>4. ~Rehashing(dict) => dict.ht[1] = NoTable
  BY <1>1 DEF DictOK, MovedUpTo, Rehashing
<1>5. TypeOK
  BY <1>1, <1>2 DEF TypeOK, IInv, Iterating
<1>6. WellPlaced
  <2>1. \A t \in 0..1 : \A b \in DOMAIN dict.ht[t].buckets :
          \A e \in dict.ht[t].buckets[b] : Hash[e.key] % dict.ht[t].size = b
    BY <1>2 DEF Placed, HashTo
  <2>2. dict_size(dict) = Cardinality(Keys(dict))
    BY <1>1, KeysOK
  <2>3. Rehashing(dict) <=> dict.ht[1].size > 0
    BY <1>3, <1>4 DEF MovedUpTo, NoTable
  <2>4. Rehashing(dict) => \A b \in 0..(dict.rehash_idx - 1) : dict.ht[0].buckets[b] = {}
    BY <1>3 DEF MovedUpTo
  <2> QED
    BY <1>2, <2>1, <2>2, <2>3, <2>4 DEF WellPlaced
<1>7. LoadBounded
  <2>1. dict_size(dict) <= Capacity(dict)
    BY <1>1 DEF Roomy
  <2>2. CASE Rehashing(dict)
    <3>1. dict.rehash_idx <= dict.ht[0].size /\ dict.ht[0].size \in Nat /\ dict.ht[1].size \in Nat
      BY <1>2, <1>3, <2>2 DEF MovedUpTo
    <3> QED
      BY <1>1, <2>1, <2>2, <3>1 DEF LoadBounded, Capacity
  <2>3. CASE ~Rehashing(dict)
    BY <2>1, <2>3 DEF LoadBounded, Capacity
  <2> QED
    BY <2>2, <2>3
<1>8. IteratorVisitsAllOnce
  BY DEF IteratorVisitsAllOnce, IInv, Iterating, IterOK
<1> QED
  BY <1>5, <1>6, <1>7, <1>8

-----------------------------------------------------------------------------
(* The results. *)

\* The invariant of any dict, with its iterators, holds at every moment.
THEOREM Invariance == Spec => []IInv
<1>1. Init => IInv
  BY InitOK
<1>2. IInv /\ [Next]_vars => IInv'
  BY StepIsMapStep
<1> QED
  BY <1>1, <1>2, PTL DEF Spec

\* Types: the tables, counters and results of dict.c keep their shape, and the
\* iterators counter is the number of iterators callers hold.
THEOREM TypeCorrect == Spec => []TypeOK
<1>1. IInv => TypeOK
  BY IInvMeans
<1> QED
  BY <1>1, Invariance, PTL

\* Whatever the hash function and the calls, every entry is where its hash says
\* and nowhere else, and dict_size counts the keys.
THEOREM Placement == Spec => []WellPlaced
<1>1. IInv => WellPlaced
  BY IInvMeans
<1> QED
  BY <1>1, Invariance, PTL

\* The rehash, one chain per call, always ends before table 1 is full.
THEOREM LoadIsBounded == Spec => []LoadBounded
<1>1. IInv => LoadBounded
  BY IInvMeans
<1> QED
  BY <1>1, Invariance, PTL

\* Any number of iterators, at any moment of a rehash, return each key once.
THEOREM Iteration == Spec => []IteratorVisitsAllOnce
<1>1. IInv => IteratorVisitsAllOnce
  BY IInvMeans
<1> QED
  BY <1>1, Invariance, PTL

\* dict.c implements the atomic map KVMap: each call is one of its steps with
\* its result, and the steps of the rehash and of iterators are not seen.
THEOREM Refinement == Spec => ImplementsMap
<1>1. Init => Map!Init
  BY InitOK
<1>2. IInv /\ [Next]_vars => [Map!Next]_(Map!vars)
  BY StepIsMapStep
<1> QED
  BY <1>1, <1>2, Invariance, PTL DEF Spec, ImplementsMap, Map!Spec
=============================================================================
