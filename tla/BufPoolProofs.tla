---------------------------- MODULE BufPoolProofs ----------------------------
(***************************************************************************)
(* The pool gives no byte to two owners, its list of recycled slots is     *)
(* sound, and it loses no slot: for any threads, slot sizes and page       *)
(* sizes.                                                                  *)
(*                                                                         *)
(* The invariant names the sequence q of slots that the links form.  That  *)
(* FreeList computes this q is shown once (FreeListIs), for any list.      *)
(***************************************************************************)
EXTENDS BufPool, Induction, FiniteSetTheorems, SequenceTheorems

Label == {"idle", "alloc", "unlink", "advance", "alloc_unlock", "link", "head"}

TypeOK == /\ sz \in SlotSize
          /\ free \in Address \cup {NULL}
          /\ bump \in Nat /\ end \in Nat
          /\ pages \in 0..MaxPages
          /\ next \in [Address -> Address \cup {NULL, Written}]
          /\ lock \in Thread \cup {NULL}
          /\ pc \in [Thread -> Label]
          /\ slot \in [Thread -> Address \cup {NULL}]
          /\ live \subseteq Address

\* Only the holder of the mutex is inside a function of the pool.
Guarded ==
    \A t \in Thread :
        /\ pc[t] # "idle" <=> lock = t
        /\ slot[t] # NULL <=> pc[t] \notin {"idle", "alloc"}

\* A slot that is in nobody's list: on its way to or from its owner.
Loose == {slot[t] : t \in {u \in Thread : pc[u] \in {"alloc_unlock", "link", "head"}}}

\* Sequence q is the list that begins at `free'.
List(q) ==
    /\ q \in Seq(Address)
    /\ free = IF q = <<>> THEN NULL ELSE q[1]
    /\ \A i \in 1..Len(q) : next[q[i]] = IF i = Len(q) THEN NULL ELSE q[i + 1]
    /\ \A i, j \in 1..Len(q) : q[i] = q[j] => i = j

\* Every slot handed out so far is in one of three places.
Apart(F) ==
    /\ live \cap F = {} /\ live \cap Loose = {} /\ F \cap Loose = {}
    /\ \A r, s \in live \cup F \cup Loose : r = s \/ r + sz <= s \/ s + sz <= r

\* And below the bump pointer, inside one page.
Placed(S) ==
    \A s \in S :
        /\ s + sz <= bump
        /\ \E n \in 0..(pages - 1) : Base(n) + Header <= s /\ s + sz <= Base(n + 1)

Current ==
    /\ bump <= end
    /\ IF pages = 0 THEN end = 0
       ELSE end = Base(pages) /\ Base(pages - 1) + Header <= bump

\* What a thread is about to take, and what it is about to put on the list.
InStep ==
    \A t \in Thread :
        /\ pc[t] = "unlink"  => slot[t] = free
        /\ pc[t] = "advance" => slot[t] = bump /\ bump + sz <= end
        /\ pc[t] = "head"    => next[slot[t]] = free

\* The bump pointer is at a cut of the current page, and every cut below it has
\* been handed out and is accounted for.
Aligned == pages # 0 => \E k \in Nat : bump = Base(pages - 1) + Header + k * sz

Complete(F) ==
    \A n \in 0..(pages - 1) : \A s \in Cut(n) : s < bump => s \in live \cup F \cup Loose

Pool(F, q) ==
    /\ List(q) /\ F = ToSet(q)
    /\ Apart(F) /\ Placed(live \cup F \cup Loose) /\ Complete(F)

Inv == /\ TypeOK /\ Guarded /\ Current /\ InStep /\ Aligned
       /\ \E F, q : Pool(F, q)

-----------------------------------------------------------------------------
(* Pages. *)

\* Pages follow one another without a gap.
LEMMA BaseNext ==
    ASSUME NEW n \in Nat
    PROVE  Base(n) \in Nat /\ Base(n + 1) = Base(n) + PageBytes
BY BufPoolAssumption DEF Base

\* Later pages begin no earlier.
LEMMA BaseMonotone ==
    ASSUME NEW m \in Nat, NEW n \in Nat, m <= n
    PROVE  Base(m) <= Base(n)
<1>1. n - m \in Nat /\ (n - m) * PageBytes >= 0
  BY BufPoolAssumption
<1>2. Base(n) = Base(m) + (n - m) * PageBytes
  BY BufPoolAssumption DEF Base
<1>3. Base(m) \in Int /\ (n - m) * PageBytes \in Int
  BY BufPoolAssumption DEF Base
<1> QED
  BY <1>1, <1>2, <1>3

\* A slot has a size, and what ends inside the pool's pages is an address.
LEMMA SlotAddress ==
    ASSUME TypeOK, NEW s \in Nat, s + sz <= Base(pages)
    PROVE  sz \in Nat \ {0} /\ Header + sz <= PageBytes /\ s \in Address
<1>1. sz \in Nat \ {0} /\ Header + sz <= PageBytes
  BY BufPoolAssumption DEF TypeOK
<1>2. pages \in Nat /\ MaxPages \in Nat /\ pages <= MaxPages
  BY BufPoolAssumption DEF TypeOK
<1>3. Base(pages) <= Base(MaxPages) /\ Base(pages) \in Nat /\ Base(MaxPages) \in Nat
  BY <1>2, BaseMonotone, BaseNext
<1> QED
  BY <1>1, <1>3 DEF Address

\* NULL and Written are no addresses.
LEMMA AddressInt == Address \subseteq Nat /\ NULL \notin Address /\ NULL \notin Thread
BY BufPoolAssumption DEF Address

-----------------------------------------------------------------------------
(* The list of recycled slots. *)

Dom == Address \cup {NULL, Written}

\* The i-th row of the table the recursion builds, from the one before.
Row(g, i) == [a \in Dom |-> IF a \notin Address \/ i = 0 THEN <<>> ELSE <<a>> \o g[i - 1][next[a]]]

\* The recursive function Along is what its definition says.
LEMMA AlongOK ==
    ASSUME Cardinality(Address) \in Nat
    PROVE  Along = [i \in 0..Cardinality(Address) |-> Row(Along, i)]
<1> DEFINE N == Cardinality(Address)
           Builds(g, m) == g = [i \in 0..m |-> Row(g, i)]
<1>1. Along = CHOOSE g : Builds(g, N)
  BY DEF Along, Row, Dom
<1>2. \E g : Builds(g, N)
  <2> DEFINE Bad == {m \in 0..N : ~ \E g : Builds(g, m)}
  <2> SUFFICES ASSUME Bad # {} PROVE FALSE
    OBVIOUS
  <2>1. PICK m \in Bad : \A k \in Bad : m <= k
    <3>1. Bad \in SUBSET Nat
      OBVIOUS
    <3> HIDE DEF Bad
    <3> QED
      BY <3>1, LeastElement
  <2>2. CASE m = 0
    <3> DEFINE g == [i \in 0..0 |-> [a \in Dom |-> <<>>]]
    <3>1. Builds(g, 0)
      BY DEF Row
    <3> QED
      BY <2>1, <2>2, <3>1
  <2>3. CASE m # 0
    <3>1. PICK g : Builds(g, m - 1)
      BY <2>1, <2>3
    <3> DEFINE h == [i \in 0..m |-> IF i = m THEN Row(g, m) ELSE g[i]]
    <3>2. \A i \in 0..m : h[i] = Row(h, i)
      <4>1. \A i \in 0..(m - 1) : g[i] = Row(g, i)
        BY <3>1
      <4>2. \A i \in 1..m : h[i - 1] = g[i - 1]
        OBVIOUS
      <4>3. \A i \in 0..m : i = 0 \/ i \in 1..m
        OBVIOUS
      <4>4. \A i \in 0..m : Row(h, i) = Row(g, i)
        <5> HIDE DEF h
        <5> QED
          BY <4>2, <4>3 DEF Row
      <4> QED
        BY <4>1, <4>4
    <3>3. Builds(h, m)
      <4> HIDE DEF h
      <4> QED
        BY <3>2 DEF h
    <3> QED
      BY <2>1, <3>3
  <2> QED
    BY <2>2, <2>3
<1>3. Builds(Along, N)
  <2> HIDE DEF Builds
  <2> QED
    BY <1>1, <1>2
<1> QED
  BY <1>3

\* The pool has finitely many addresses.
LEMMA AddressFinite == IsFiniteSet(Address) /\ Cardinality(Address) \in Nat
<1>1. Base(MaxPages) \in Int
  BY BufPoolAssumption DEF Base
<1>2. IsFiniteSet(Address)
  BY <1>1, FS_Interval DEF Address
<1> QED
  BY <1>2, FS_CardinalityType

\* A list without repetition is no longer than the pool.
LEMMA ListFits ==
    ASSUME NEW q, List(q)
    PROVE  Len(q) \in Nat /\ Len(q) <= Cardinality(Address)
<1>1. Len(q) \in Nat /\ q \in [1..Len(q) -> Address]
  BY LenProperties DEF List
<1>2. q \in Injection(1..Len(q), Address)
  BY <1>1 DEF List, Injection, IsInjective
<1>3. Cardinality(1..Len(q)) <= Cardinality(Address)
  BY <1>2, AddressFinite, FS_Injection
<1>4. Cardinality(1..Len(q)) = Len(q)
  <2>1. Cardinality(1..Len(q)) = IF 1 > Len(q) THEN 0 ELSE Len(q) - 1 + 1
    BY <1>1, FS_Interval
  <2> QED
    BY <1>1, <2>1
<1> QED
  BY <1>1, <1>3, <1>4

\* Following the links from `free' gives the list.
LEMMA FreeListIs ==
    ASSUME NEW q, List(q)
    PROVE  FreeList = q
<1> DEFINE N     == Cardinality(Address)
           L     == Len(q)
           At(j) == IF j <= L THEN q[j] ELSE NULL
           Bad   == {i \in 0..N : \E j \in 1..(L + 1) :
                        i >= L + 1 - j /\ Along[i][At(j)] # SubSeq(q, j, L)}
<1>1. L \in Nat /\ L <= N /\ N \in Nat /\ q \in Seq(Address) /\ q \in [1..L -> Address]
  BY ListFits, AddressFinite, LenProperties DEF List
<1> HIDE DEF L
<1>2. \A j \in 1..L : At(j) \in Address /\ next[At(j)] = At(j + 1)
  <2> SUFFICES ASSUME NEW j \in 1..L PROVE At(j) \in Address /\ next[At(j)] = At(j + 1)
    OBVIOUS
  <2>1. At(j) = q[j] /\ q[j] \in Address
    BY <1>1
  <2>2. next[q[j]] = IF j = L THEN NULL ELSE q[j + 1]
    BY DEF List, L
  <2>3. At(j + 1) = IF j = L THEN NULL ELSE q[j + 1]
    BY <1>1
  <2> QED
    BY <2>1, <2>2, <2>3
<1>3. \A j \in 1..(L + 1) : At(j) \in Dom
  BY <1>2 DEF Dom
<1>4. \A i \in 0..N : \A a \in Dom :
        Along[i][a] = IF a \notin Address \/ i = 0 THEN <<>> ELSE <<a>> \o Along[i - 1][next[a]]
  <2>1. \A i \in 0..N : Along[i] = Row(Along, i)
    BY <1>1, AlongOK
  <2> QED
    BY <2>1 DEF Row
<1>5. At(L + 1) = NULL /\ SubSeq(q, L + 1, L) = <<>>
  BY <1>1, SubSeqEmpty
<1>6. \A j \in 1..L : At(j) = q[j] /\ SubSeq(q, j, L) = <<q[j]>> \o SubSeq(q, j + 1, L)
  BY <1>1, SubSeqRecursiveFirst DEF L
<1> HIDE DEF At
<1>7. Bad = {}
  <2> SUFFICES ASSUME Bad # {} PROVE FALSE
    OBVIOUS
  <2>1. PICK i \in Bad : \A k \in Bad : i <= k
    <3>1. Bad \in SUBSET Nat
      BY <1>1
    <3> HIDE DEF Bad
    <3> QED
      BY <3>1, LeastElement
  <2>2. PICK j \in 1..(L + 1) : i >= L + 1 - j /\ Along[i][At(j)] # SubSeq(q, j, L)
    BY <2>1
  <2>3. i \in 0..N
    BY <2>1
  <2>4. CASE j = L + 1
    <3>1. Along[i][NULL] = <<>>
      BY <1>4, <2>3, AddressInt DEF Dom
    <3> QED
      BY <1>5, <2>2, <2>4, <3>1
  <2>5. CASE j # L + 1
    <3>1. j \in 1..L /\ j + 1 \in 1..(L + 1) /\ i - 1 \in 0..N /\ i # 0
      BY <1>1, <2>2, <2>3, <2>5
    <3>2. Along[i - 1][At(j + 1)] = SubSeq(q, j + 1, L)
      <4>1. i - 1 \notin Bad
        <5> HIDE DEF Bad
        <5> QED
          BY <1>1, <2>1, <2>3
      <4>2. i - 1 >= L + 1 - (j + 1)
        BY <1>1, <2>2, <2>3, <3>1
      <4> QED
        BY <3>1, <4>1, <4>2
    <3>3. Along[i][At(j)] = <<At(j)>> \o Along[i - 1][At(j + 1)]
      BY <1>2, <1>3, <1>4, <2>3, <3>1
    <3> QED
      BY <1>6, <2>2, <3>1, <3>2, <3>3
  <2> QED
    BY <2>4, <2>5
<1>8. Along[N][At(1)] = SubSeq(q, 1, L)
  BY <1>1, <1>7
<1>9. At(1) = free
  <2>1. q = <<>> <=> L = 0
    BY <1>1 DEF L
  <2> QED
    BY <1>1, <2>1 DEF At, List
<1>10. SubSeq(q, 1, L) = q
  BY <1>1, SubSeqFull DEF L
<1> QED
  BY <1>8, <1>9, <1>10 DEF FreeList

\* The head of the free list is the first of its slots, or NULL if there is none.
LEMMA InList ==
    ASSUME NEW F, NEW q, Pool(F, q)
    PROVE  /\ F \subseteq Address
           /\ free # NULL <=> q # <<>>
           /\ free # NULL => free = q[1] /\ free \in F
<1>1. q \in [1..Len(q) -> Address] /\ Len(q) \in Nat /\ DOMAIN q = 1..Len(q)
  BY LenProperties DEF Pool, List
<1>2. F \subseteq Address
  BY <1>1 DEF Pool, ToSet
<1>3. q # <<>> => 1 \in 1..Len(q) /\ q[1] \in F
  <2>1. q # <<>> => Len(q) # 0
    BY EmptySeq DEF Pool, List
  <2> QED
    BY <1>1, <2>1 DEF Pool, ToSet
<1> QED
  BY <1>2, <1>3, AddressInt DEF Pool, List

\* Where a cut lies.
LEMMA CutIs ==
    ASSUME TypeOK, NEW n \in Nat, NEW s \in Cut(n)
    PROVE  /\ s \in Int /\ sz \in Nat \ {0} /\ Base(n) \in Nat
           /\ Base(n) + Header <= s /\ s + sz <= Base(n + 1)
           /\ \E k \in Nat : s = Base(n) + Header + k * sz
<1>1. sz \in Nat \ {0} /\ Header \in Nat /\ PageBytes \in Nat
  BY BufPoolAssumption DEF TypeOK
<1>2. Base(n) \in Nat /\ Base(n + 1) = Base(n) + PageBytes
  BY BaseNext
<1>3. PICK k \in 0..PageBytes : s = Base(n) + Header + k * sz
  BY DEF Cut
<1>4. k \in Nat /\ k * sz \in Nat
  BY <1>1
<1>5. s \in Int /\ Base(n) + Header <= s
  BY <1>1, <1>2, <1>3, <1>4
<1>6. s + sz - 1 \in Page(n)
  <2>1. s + sz - 1 \in Bytes(s)
    BY <1>1, <1>5 DEF Bytes
  <2> QED
    BY <2>1 DEF Cut
<1>7. s + sz - 1 <= Base(n + 1) - 1
  BY <1>1, <1>2, <1>6 DEF Page
<1> QED
  BY <1>1, <1>2, <1>3, <1>4, <1>5, <1>7

\* No cut lies inside the slot that the bump pointer is at.
LEMMA NextCut ==
    ASSUME TypeOK, Current, Aligned, NEW n \in 0..(pages - 1), NEW s \in Cut(n),
           ~ (s < bump), s < bump + sz
    PROVE  s = bump
<1>1. pages \in Nat /\ n \in Nat /\ bump \in Nat /\ Header \in Nat
  BY BufPoolAssumption DEF TypeOK
<1>2. /\ s \in Int /\ sz \in Nat \ {0} /\ Base(n) \in Nat
      /\ Base(n) + Header <= s /\ s + sz <= Base(n + 1)
  BY <1>1, CutIs
<1>3. pages - 1 \in Nat /\ Base(pages - 1) \in Nat /\ Base(pages - 1) + Header <= bump
  BY <1>1, BaseNext DEF Current
<1>4. n = pages - 1
  <2>1. CASE n < pages - 1
    <3>1. Base(n + 1) <= Base(pages - 1) /\ Base(n + 1) \in Nat
      BY <1>1, <1>3, <2>1, BaseMonotone, BaseNext
    <3> QED
      BY <1>1, <1>2, <1>3, <3>1
  <2> QED
    BY <1>1, <2>1
<1>5. PICK k \in Nat : s = Base(n) + Header + k * sz
  BY <1>1, CutIs
<1>6. PICK l \in Nat : bump = Base(n) + Header + l * sz
  BY <1>1, <1>4 DEF Aligned
<1>7. (k - l) * sz >= 0 /\ (k - l) * sz < sz
  <2>1. k * sz \in Int /\ l * sz \in Int /\ (k - l) * sz = k * sz - l * sz
    BY <1>2
  <2> HIDE DEF Base
  <2> QED
    BY <1>1, <1>2, <1>5, <1>6, <2>1
<1>8. k = l
  <2>1. CASE k > l
    <3>1. k - l \in Nat /\ k - l >= 1 /\ (k - l) * sz >= sz
      BY <1>2, <2>1
    <3> QED
      BY <1>2, <1>7, <3>1
  <2>2. CASE k < l
    <3>1. (k - l) * sz <= -sz
      BY <1>2, <2>2
    <3> QED
      BY <1>2, <1>7, <3>1
  <2> QED
    BY <2>1, <2>2
<1> QED
  BY <1>5, <1>6, <1>8

\* A slot that changes hands is still accounted for.
LEMMA CompleteSame ==
    ASSUME NEW F, NEW G, Complete(F), UNCHANGED <<sz, pages, bump>>,
           live \cup F \cup Loose \subseteq (live \cup G \cup Loose)'
    PROVE  Complete(G)'
<1>1. \A n : Cut(n)' = Cut(n)
  BY DEF Cut, Bytes
<1> QED
  BY <1>1 DEF Complete

\* The list without its head.
LEMMA ListTail ==
    ASSUME NEW q, List(q), q # <<>>, free' = next[free], UNCHANGED next
    PROVE  List(Tail(q))' /\ ToSet(Tail(q)) = ToSet(q) \ {free}
<1> DEFINE L == Len(q)
           r == Tail(q)
<1>1. L \in Nat /\ q \in Seq(Address) /\ DOMAIN q = 1..L /\ q \in [1..L -> Address]
  BY LenProperties DEF List
<1>2. L # 0
  BY EmptySeq DEF List
<1>3. r \in Seq(Address) /\ Len(r) = L - 1 /\ \A i \in 1..(L - 1) : r[i] = q[i + 1]
  BY <1>1, HeadTailProperties DEF List
<1>4. DOMAIN r = 1..(L - 1)
  BY <1>3, LenProperties
<1>5. free = q[1]
  BY DEF List
<1>6. /\ \A i \in 1..L : next[q[i]] = IF i = L THEN NULL ELSE q[i + 1]
      /\ \A i, j \in 1..L : q[i] = q[j] => i = j
  BY DEF List
<1>7. r = <<>> <=> L = 1
  <2>1. r = <<>> <=> Len(r) = 0
    BY <1>3, EmptySeq
  <2> QED
    BY <1>1, <1>3, <2>1
<1> HIDE DEF L, r
<1>8. free' = IF r = <<>> THEN NULL ELSE r[1]
  BY <1>1, <1>2, <1>3, <1>5, <1>6, <1>7
<1>9. \A i \in 1..Len(r) : next'[r[i]] = IF i = Len(r) THEN NULL ELSE r[i + 1]
  BY <1>1, <1>2, <1>3, <1>6
<1>10. \A i, j \in 1..Len(r) : r[i] = r[j] => i = j
  BY <1>1, <1>2, <1>3, <1>6
<1>11. ToSet(r) = ToSet(q) \ {free}
  <2>1. \A x : x \in ToSet(q) <=> \E i \in 1..L : x = q[i]
    BY <1>1 DEF ToSet
  <2>2. \A x : x \in ToSet(r) <=> \E i \in 1..(L - 1) : x = q[i + 1]
    BY <1>3, <1>4 DEF ToSet
  <2>3. ASSUME NEW x \in ToSet(q), x # free PROVE x \in ToSet(r)
    <3>1. PICK i \in 1..L : x = q[i]
      BY <2>1
    <3>2. i - 1 \in 1..(L - 1) /\ x = q[(i - 1) + 1]
      BY <1>1, <1>5, <2>3, <3>1
    <3> QED
      BY <2>2, <3>2
  <2>4. ASSUME NEW x \in ToSet(r) PROVE x \in ToSet(q) /\ x # free
    <3>1. PICK i \in 1..(L - 1) : x = q[i + 1]
      BY <2>2
    <3> QED
      BY <1>1, <1>2, <1>5, <1>6, <2>1, <3>1
  <2> QED
    BY <2>3, <2>4
<1> QED
  BY <1>3, <1>8, <1>9, <1>10, <1>11 DEF List, r

\* The list with one slot before it.
LEMMA ListCons ==
    ASSUME NEW q, List(q), NEW s \in Address, s \notin ToSet(q),
           next[s] = free, free' = s, UNCHANGED next
    PROVE  List(<<s>> \o q)' /\ ToSet(<<s>> \o q) = ToSet(q) \cup {s}
<1> DEFINE L == Len(q)
           r == <<s>> \o q
<1>1. L \in Nat /\ q \in Seq(Address) /\ DOMAIN q = 1..L /\ q \in [1..L -> Address]
  BY LenProperties DEF List
<1>2. r \in Seq(Address) /\ Len(r) = L + 1 /\ r[1] = s /\ r # <<>>
  BY <1>1
<1>3. \A i \in 1..L : r[i + 1] = q[i]
  BY <1>1
<1>4. DOMAIN r = 1..(L + 1)
  BY <1>2, LenProperties
<1>5. /\ \A i \in 1..L : next[q[i]] = IF i = L THEN NULL ELSE q[i + 1]
      /\ \A i, j \in 1..L : q[i] = q[j] => i = j
      /\ \A i \in 1..L : q[i] # s
  BY <1>1 DEF List, ToSet
<1>6. next[s] = IF L = 0 THEN NULL ELSE q[1]
  BY <1>1, EmptySeq DEF List
<1> HIDE DEF L, r
<1>7. \A i \in 1..(L + 1) : i = 1 \/ (i - 1 \in 1..L /\ r[i] = q[i - 1])
  <2> SUFFICES ASSUME NEW i \in 1..(L + 1), i # 1 PROVE i - 1 \in 1..L /\ r[i] = q[i - 1]
    OBVIOUS
  <2>1. i - 1 \in 1..L /\ (i - 1) + 1 = i
    BY <1>1
  <2> QED
    BY <1>3, <2>1
<1>8. \A i \in 1..Len(r) : next'[r[i]] = IF i = Len(r) THEN NULL ELSE r[i + 1]
  <2> SUFFICES ASSUME NEW i \in 1..(L + 1)
               PROVE  next[r[i]] = IF i = L + 1 THEN NULL ELSE r[i + 1]
    BY <1>2
  <2>1. CASE i = 1
    <3>1. L # 0 => 1 \in 1..L /\ r[1 + 1] = q[1]
      BY <1>1, <1>3
    <3> QED
      BY <1>1, <1>2, <1>6, <2>1, <3>1
  <2>2. CASE i # 1
    <3>1. i # L + 1 => i \in 1..L /\ r[i + 1] = q[i]
      BY <1>1, <1>3
    <3>2. i - 1 = L <=> i = L + 1
      BY <1>1
    <3> QED
      BY <1>1, <1>5, <1>7, <2>2, <3>1, <3>2
  <2> QED
    BY <2>1, <2>2
<1>9. \A i, j \in 1..Len(r) : r[i] = r[j] => i = j
  <2> SUFFICES ASSUME NEW i \in 1..(L + 1), NEW j \in 1..(L + 1), r[i] = r[j] PROVE i = j
    BY <1>2
  <2>1. CASE i = 1 \/ j = 1
    BY <1>2, <1>5, <1>7, <2>1
  <2>2. CASE i # 1 /\ j # 1
    <3>1. i - 1 \in 1..L /\ j - 1 \in 1..L /\ q[i - 1] = q[j - 1]
      BY <1>7, <2>2
    <3>2. i - 1 = j - 1
      BY <1>5, <3>1
    <3> QED
      BY <3>2
  <2> QED
    BY <2>1, <2>2
<1>10. ToSet(r) = ToSet(q) \cup {s}
  <2>1. \A x : x \in ToSet(q) <=> \E i \in 1..L : x = q[i]
    BY <1>1 DEF ToSet
  <2>2. \A x : x \in ToSet(r) <=> \E i \in 1..(L + 1) : x = r[i]
    BY <1>4 DEF ToSet
  <2>3. ASSUME NEW x \in ToSet(q) \cup {s} PROVE x \in ToSet(r)
    <3>1. 1 \in 1..(L + 1) /\ \A i \in 1..L : i + 1 \in 1..(L + 1)
      BY <1>1
    <3> QED
      BY <1>2, <1>3, <2>1, <2>2, <2>3, <3>1
  <2>4. ASSUME NEW x \in ToSet(r) PROVE x \in ToSet(q) \cup {s}
    BY <1>2, <1>7, <2>1, <2>2, <2>4
  <2> QED
    BY <2>3, <2>4
<1> QED
  BY <1>2, <1>8, <1>9, <1>10 DEF List, r

\* A list none of whose slots is written to.
LEMMA ListSame ==
    ASSUME NEW q, List(q), UNCHANGED free, \A a \in ToSet(q) : next'[a] = next[a]
    PROVE  List(q)'
<1>1. q \in Seq(Address) /\ DOMAIN q = 1..Len(q)
  BY LenProperties DEF List
<1>2. \A i \in 1..Len(q) : next'[q[i]] = next[q[i]]
  BY <1>1 DEF ToSet
<1> QED
  BY <1>1, <1>2 DEF List

-----------------------------------------------------------------------------
(* Steps that leave every slot where it is. *)

\* Steps that touch no slot: taking the mutex, failing, and reading the head.
LEMMA LockStepOK ==
    ASSUME Inv, NEW t \in Thread,
           AllocLock(t) \/ Fail(t) \/ TakeFree(t)
    PROVE  Inv'
<1> USE DEF Inv
<1>1. PICK F, q : Pool(F, q)
  OBVIOUS
<1>2. TypeOK'
  BY DEF TypeOK, Label, AllocLock, Fail, TakeFree, slab, Goto
<1>3. Guarded'
  BY AddressInt DEF Guarded, TypeOK, AllocLock, Fail, TakeFree, slab, Goto
<1>4. Current' /\ InStep' /\ Aligned'
  BY DEF Current, InStep, Aligned, TypeOK, AllocLock, Fail, TakeFree, slab, Goto
<1>5. Loose' = Loose
  BY DEF Loose, TypeOK, AllocLock, Fail, TakeFree, Goto
<1>6. UNCHANGED <<sz, free, bump, pages, next, live>>
  BY DEF AllocLock, Fail, TakeFree, slab
<1>7. Complete(F)' /\ List(q)'
  BY <1>1, <1>5, <1>6, CompleteSame, ListSame DEF Pool
<1>8. Pool(F, q)'
  BY <1>1, <1>5, <1>6, <1>7 DEF Pool, Apart, Placed
<1> QED
  BY <1>2, <1>3, <1>4, <1>8

\* grow_slab: every slot is below the new page.
LEMMA GrowOK ==
    ASSUME Inv, NEW t \in Thread, Grow(t)
    PROVE  Inv'
<1> USE DEF Inv
<1>1. PICK F, q : Pool(F, q)
  OBVIOUS
<1>2. /\ pages \in Nat /\ pages' = pages + 1 /\ pages' \in 0..MaxPages
      /\ Base(pages) \in Nat /\ Base(pages') = Base(pages) + PageBytes
      /\ Header \in Nat /\ Header <= PageBytes /\ PageBytes \in Nat
  BY BufPoolAssumption, BaseNext DEF TypeOK, Grow
<1>3. bump' = Base(pages) + Header /\ end' = Base(pages')
  BY <1>2 DEF Grow
<1>4. bump <= bump' /\ bump' <= end'
  <2>1. end <= Base(pages)
    BY <1>2 DEF Current, TypeOK
  <2> QED
    BY <1>2, <1>3, <2>1 DEF Current, TypeOK
<1>5. TypeOK'
  BY <1>2, <1>3 DEF TypeOK, Grow
<1>6. Guarded' /\ InStep'
  <2>1. pc[t] = "alloc" /\ \A u \in Thread : u # t => pc[u] = "idle"
    BY DEF Guarded, Grow
  <2> QED
    BY <2>1 DEF Guarded, InStep, Grow
<1>7. Current'
  BY <1>2, <1>3, <1>4 DEF Current
<1>8. Loose' = Loose
  BY DEF Loose, Grow
<1>9. Placed(live \cup F \cup Loose)'
  <2> DEFINE Slots == live \cup F \cup Loose
  <2>1. Slots \subseteq Address /\ sz \in Nat
    <3>1. F \subseteq Address
      BY <1>1, InList
    <3> QED
      BY <3>1, BufPoolAssumption DEF TypeOK, Loose, Guarded
  <2>2. \A s \in Slots : s + sz <= bump'
    BY <1>1, <1>4, <1>3, <1>2, <2>1, AddressInt DEF Pool, Placed, TypeOK
  <2> QED
    BY <1>1, <1>2, <1>8, <2>2 DEF Pool, Placed, Grow
<1>10. List(q)' /\ Apart(F)'
  BY <1>1, <1>8, ListSame DEF Pool, Apart, Grow
<1>11. Aligned'
  <2>1. sz \in Nat /\ bump' = Base(pages' - 1) + Header + 0 * sz'
    BY <1>2, <1>3, BufPoolAssumption DEF TypeOK, Grow
  <2> QED
    BY <2>1 DEF Aligned
<1>12. Complete(F)'
  <2> SUFFICES ASSUME NEW n \in 0..(pages' - 1), NEW s \in Cut(n)', s < bump'
               PROVE  s \in live \cup F \cup Loose
    BY <1>8 DEF Complete, Grow
  <2>1. s \in Cut(n)
    BY DEF Cut, Bytes, Grow
  <2>2. s \in Int /\ Base(n) + Header <= s /\ s + sz <= Base(n + 1) /\ Base(n) \in Nat /\ sz \in Nat \ {0}
    BY <1>2, <2>1, CutIs
  <2>3. n < pages
    BY <1>2, <1>3, <2>2
  <2>4. CASE s < bump
    BY <1>1, <1>2, <2>1, <2>3, <2>4 DEF Pool, Complete
  <2>5. CASE ~ (s < bump)
    <3>1. pages # 0 /\ end = Base(pages) /\ Base(pages - 1) + Header <= bump /\ bump \in Nat
      BY <1>2, <2>3 DEF Current, TypeOK
    <3>2. n = pages - 1
      <4>1. CASE n < pages - 1
        <5>1. Base(n + 1) <= Base(pages - 1) /\ Base(n + 1) \in Nat /\ Base(pages - 1) \in Nat
          <6>1. n + 1 \in Nat /\ pages - 1 \in Nat /\ n + 1 <= pages - 1
            BY <1>2, <3>1, <4>1
          <6> QED
            BY <6>1, BaseMonotone, BaseNext
        <5> QED
          BY <1>2, <2>2, <2>5, <3>1, <5>1
      <4> QED
        BY <1>2, <2>3, <4>1
    <3>3. s + sz <= end
      BY <1>2, <2>2, <3>1, <3>2
    <3> QED
      BY <2>2, <2>5, <3>1, <3>3 DEF Grow, Room, TypeOK
  <2> QED
    BY <2>4, <2>5
<1> QED
  BY <1>1, <1>5, <1>6, <1>7, <1>9, <1>10, <1>11, <1>12 DEF Pool

\* Reading the bump pointer, too, gives nothing away yet.
LEMMA TakeVirginOK ==
    ASSUME Inv, NEW t \in Thread, TakeVirgin(t)
    PROVE  Inv'
<1> USE DEF Inv
<1>1. PICK F, q : Pool(F, q)
  OBVIOUS
<1>2. bump \in Address
  <2>1. end = Base(pages)
    BY SlotAddress, BufPoolAssumption DEF Current, TypeOK, TakeVirgin, Room
  <2> QED
    BY <2>1, SlotAddress DEF TypeOK, TakeVirgin, Room
<1>3. TypeOK'
  BY <1>2 DEF TypeOK, Label, TakeVirgin, slab, Goto
<1>4. Guarded'
  BY <1>2, AddressInt DEF Guarded, TypeOK, TakeVirgin, Goto
<1>5. Current' /\ InStep' /\ Aligned'
  BY DEF Current, InStep, Aligned, TypeOK, TakeVirgin, slab, Goto, Room
<1>6. Loose' = Loose /\ UNCHANGED <<sz, free, bump, pages, next, live>>
  BY DEF Loose, TypeOK, TakeVirgin, slab, Goto
<1>7. Pool(F, q)'
  <2>1. Complete(F)' /\ List(q)'
    BY <1>1, <1>6, CompleteSame, ListSame DEF Pool
  <2> QED
    BY <1>1, <1>6, <2>1 DEF Pool, Apart, Placed
<1> QED
  BY <1>3, <1>4, <1>5, <1>7

-----------------------------------------------------------------------------
(* Steps that hand a slot on.  While t is inside, nobody else is.          *)

\* A thread inside the allocator is the only one there, and the only one with a slot in hand.
LEMMA Alone ==
    ASSUME Inv, NEW t \in Thread, pc[t] # "idle"
    PROVE  /\ lock = t
           /\ \A u \in Thread : u # t => pc[u] = "idle" /\ slot[u] = NULL
           /\ Loose = IF pc[t] \in {"alloc_unlock", "link", "head"} THEN {slot[t]} ELSE {}
BY DEF Inv, Guarded, Loose

\* The head of the list passes to t, and what is left of the list is one.
LEMMA UnlinkOK ==
    ASSUME Inv, NEW t \in Thread, Unlink(t)
    PROVE  Inv'
<1> USE DEF Inv
<1>1. PICK F, q : Pool(F, q)
  OBVIOUS
<1>2. /\ slot[t] = free /\ free # NULL /\ pc[t] = "unlink"
      /\ pc' = [pc EXCEPT ![t] = "alloc_unlock"] /\ free' = next[free]
      /\ UNCHANGED <<sz, bump, end, pages, next, lock, slot, live>>
  BY DEF InStep, Guarded, Unlink, Goto
<1>3. F \subseteq Address /\ free \in F /\ q # <<>>
  BY <1>1, <1>2, InList
<1>4. Loose = {} /\ Loose' = {free}
  BY <1>2, Alone DEF Loose, TypeOK
<1>5. PICK G : List(Tail(q))' /\ G = ToSet(Tail(q)) /\ G = F \ {free}
  BY <1>1, <1>2, <1>3, ListTail DEF Pool
<1>6. free' \in Address \cup {NULL}
  <2>1. Tail(q) # <<>> => Tail(q)[1] \in Address
    BY <1>5, EmptySeq, ElementOfSeq, LenProperties DEF List
  <2> QED
    BY <1>5, <2>1 DEF List
<1>7. TypeOK'
  BY <1>2, <1>6 DEF TypeOK, Label
<1>8. Guarded' /\ Current' /\ InStep' /\ Aligned'
  BY <1>2, Alone DEF Guarded, Current, InStep, Aligned, TypeOK
<1>9. live \cup F \cup Loose = (live \cup G \cup Loose)'
  BY <1>2, <1>3, <1>4, <1>5
<1>10. Complete(G)'
  BY <1>1, <1>2, <1>9, CompleteSame DEF Pool
<1>11. Apart(G)' /\ Placed(live \cup G \cup Loose)'
  BY <1>1, <1>2, <1>3, <1>4, <1>5, <1>9 DEF Pool, Apart, Placed
<1> QED
  BY <1>5, <1>7, <1>8, <1>10, <1>11 DEF Pool

\* The slot at the bump pointer passes to t.
LEMMA AdvanceOK ==
    ASSUME Inv, NEW t \in Thread, Advance(t)
    PROVE  Inv'
<1> USE DEF Inv
<1>1. PICK F, q : Pool(F, q)
  OBVIOUS
<1>2. /\ slot[t] = bump /\ bump + sz <= end /\ pc[t] = "advance"
      /\ pc' = [pc EXCEPT ![t] = "alloc_unlock"] /\ bump' = bump + sz
      /\ UNCHANGED <<sz, free, end, pages, next, lock, slot, live>>
  BY DEF InStep, Advance, Goto
<1>3. sz \in Nat \ {0} /\ bump \in Nat /\ end \in Nat
  BY BufPoolAssumption DEF TypeOK
<1>4. Loose = {} /\ Loose' = {bump}
  BY <1>2, Alone DEF Loose, TypeOK
<1>5. live \cup F \subseteq Address
  BY <1>1, InList DEF TypeOK
<1>6. \A s \in live \cup F : s \in Nat /\ s + sz <= bump /\ s # bump
  <2>1. \A s \in live \cup F : s \in Nat /\ s + sz <= bump
    BY <1>1, <1>5, AddressInt DEF Pool, Placed
  <2> QED
    BY <1>3, <2>1
<1>7. TypeOK'
  BY <1>2, <1>3 DEF TypeOK, Label
<1>8. Guarded' /\ Current' /\ InStep'
  <2>1. Current'
    <3>1. pages # 0 /\ Base(pages - 1) \in Nat /\ Header \in Nat
      BY <1>2, <1>3, BufPoolAssumption, BaseNext DEF Current, TypeOK
    <3> QED
      BY <1>2, <1>3, <3>1 DEF Current
  <2>2. Guarded'
    BY <1>2, Alone DEF Guarded, TypeOK
  <2>3. InStep'
    BY <1>2, Alone DEF InStep, TypeOK
  <2> QED
    BY <2>1, <2>2, <2>3
<1>9. Pool(F, q)'
  <2>1. List(q)'
    BY <1>1, <1>2, ListSame DEF Pool
  <2>2. Apart(F)'
    BY <1>1, <1>2, <1>4, <1>6 DEF Pool, Apart
  <2>3. pages \in Nat \ {0} /\ end = Base(pages) /\ Base(pages - 1) + Header <= bump
    BY <1>2, <1>3 DEF Current, TypeOK
  <2>4. \E n \in 0..(pages - 1) : Base(n) + Header <= bump /\ bump + sz <= Base(n + 1)
    <3>1. pages - 1 \in 0..(pages - 1) /\ (pages - 1) + 1 = pages
      BY <2>3
    <3> QED
      BY <1>2, <2>3, <3>1
  <2>5. Placed(live \cup F \cup Loose)'
    BY <1>1, <1>2, <1>3, <1>4, <1>6, <2>4 DEF Pool, Placed
  <2>6. Complete(F)'
    <3> SUFFICES ASSUME NEW n \in 0..(pages - 1), NEW s \in Cut(n), s < bump + sz, s # bump
                 PROVE  s \in live \cup F
      <4>1. \A n : Cut(n)' = Cut(n)
        BY <1>2 DEF Cut, Bytes
      <4> QED
        BY <1>2, <1>4, <4>1 DEF Complete
    <3>1. CASE s < bump
      BY <1>1, <1>4, <3>1 DEF Pool, Complete
    <3>2. CASE ~ (s < bump)
      BY <1>2, <3>2, NextCut
    <3> QED
      BY <3>1, <3>2
  <2> QED
    BY <1>1, <2>1, <2>2, <2>5, <2>6 DEF Pool
<1>10. Aligned'
  <2>1. pages # 0
    BY <1>2, <1>3 DEF Current
  <2>2. PICK k \in Nat : bump = Base(pages - 1) + Header + k * sz
    BY <2>1 DEF Aligned
  <2>3. Base(pages - 1) + Header \in Int
    BY <2>1, BufPoolAssumption DEF Base, TypeOK
  <2>4. k + 1 \in Nat /\ bump + sz = Base(pages - 1) + Header + (k + 1) * sz
    BY <1>3, <2>2, <2>3
  <2> QED
    BY <1>2, <2>4 DEF Aligned
<1> QED
  BY <1>7, <1>8, <1>9, <1>10

\* The caller gets the slot and writes to it; no free slot's link is in it.
LEMMA AllocReturnOK ==
    ASSUME Inv, NEW t \in Thread, AllocReturn(t)
    PROVE  Inv'
<1> USE DEF Inv
<1>1. PICK F, q : Pool(F, q)
  OBVIOUS
<1>2. slot[t] \in Address /\ slot[t] # NULL /\ pc[t] = "alloc_unlock"
  BY DEF TypeOK, Guarded, AllocReturn
<1>3. Loose = {slot[t]} /\ Loose' = {}
  BY <1>2, Alone DEF Loose, TypeOK, AllocReturn, Goto
<1>4. slot[t] \notin F
  BY <1>1, <1>3 DEF Pool, Apart
<1>5. TypeOK'
  BY <1>2, AddressInt DEF TypeOK, Label, AllocReturn, Goto
<1>6. Guarded' /\ Current' /\ InStep' /\ Aligned'
  BY <1>2, Alone, AddressInt DEF Guarded, Current, InStep, Aligned, TypeOK, AllocReturn, Goto
<1>7. List(q)'
  <2>1. \A a \in F : next'[a] = next[a]
    BY <1>1, <1>4, InList DEF TypeOK, AllocReturn
  <2> QED
    BY <1>1, <2>1, ListSame DEF Pool, AllocReturn
<1>8. live \cup F \cup Loose = (live \cup F \cup Loose)'
  BY <1>3 DEF AllocReturn
<1>9. Complete(F)'
  BY <1>1, <1>8, CompleteSame DEF Pool, AllocReturn
<1>10. Apart(F)' /\ Placed(live \cup F \cup Loose)'
  BY <1>1, <1>3, <1>8 DEF Pool, Apart, Placed, AllocReturn
<1> QED
  BY <1>1, <1>5, <1>6, <1>7, <1>9, <1>10 DEF Pool

\* The owner hands its slot back.
LEMMA FreeLockOK ==
    ASSUME Inv, NEW t \in Thread, NEW s \in Address, FreeLock(t, s)
    PROVE  Inv'
<1> USE DEF Inv
<1>1. PICK F, q : Pool(F, q)
  OBVIOUS
<1>2. \A u \in Thread : pc[u] = "idle" /\ slot[u] = NULL
  BY AddressInt DEF Guarded, FreeLock
<1>3. Loose = {} /\ Loose' = {s}
  BY <1>2 DEF Loose, TypeOK, FreeLock, Goto
<1>4. TypeOK'
  BY DEF TypeOK, Label, FreeLock, slab, Goto
<1>5. Guarded' /\ Current' /\ InStep' /\ Aligned'
  BY <1>2, AddressInt DEF Guarded, Current, InStep, Aligned, TypeOK, FreeLock, slab, Goto
<1>6. live \cup F \cup Loose = (live \cup F \cup Loose)'
  BY <1>3 DEF FreeLock
<1>7. Pool(F, q)'
  <2>1. Complete(F)' /\ List(q)'
    BY <1>1, <1>6, CompleteSame, ListSame DEF Pool, FreeLock, slab
  <2> QED
    BY <1>1, <1>3, <1>6, <2>1 DEF Pool, Apart, Placed, FreeLock, slab
<1> QED
  BY <1>4, <1>5, <1>7

\* The slot gets its link, and is still in nobody's list.
LEMMA FreeLinkOK ==
    ASSUME Inv, NEW t \in Thread, FreeLink(t)
    PROVE  Inv'
<1> USE DEF Inv
<1>1. PICK F, q : Pool(F, q)
  OBVIOUS
<1>2. slot[t] \in Address /\ pc[t] = "link"
  BY DEF TypeOK, Guarded, FreeLink
<1>3. Loose = {slot[t]} /\ Loose' = {slot[t]}
  BY <1>2, Alone DEF Loose, TypeOK, FreeLink, Goto
<1>4. slot[t] \notin F
  BY <1>1, <1>3 DEF Pool, Apart
<1>5. TypeOK'
  BY <1>2 DEF TypeOK, Label, FreeLink, Goto
<1>6. Guarded' /\ Current' /\ InStep' /\ Aligned'
  BY <1>2, Alone DEF Guarded, Current, InStep, Aligned, TypeOK, FreeLink, Goto
<1>7. Pool(F, q)'
  <2>1. \A a \in F : next'[a] = next[a]
    BY <1>1, <1>4, InList DEF TypeOK, FreeLink
  <2>2. Complete(F)' /\ List(q)'
    BY <1>1, <1>3, <2>1, CompleteSame, ListSame DEF Pool, FreeLink
  <2> QED
    BY <1>1, <1>3, <2>2 DEF Pool, Apart, Placed, FreeLink
<1> QED
  BY <1>5, <1>6, <1>7

\* The slot becomes the head of the list: it had no predecessor there.
LEMMA FreeHeadOK ==
    ASSUME Inv, NEW t \in Thread, FreeHead(t)
    PROVE  Inv'
<1> USE DEF Inv
<1>1. PICK F, q : Pool(F, q)
  OBVIOUS
<1>2. slot[t] \in Address /\ pc[t] = "head" /\ next[slot[t]] = free
  BY DEF TypeOK, Guarded, InStep, FreeHead
<1>3. Loose = {slot[t]} /\ Loose' = {}
  BY <1>2, Alone DEF Loose, TypeOK, FreeHead, Goto
<1>4. slot[t] \notin F
  BY <1>1, <1>3 DEF Pool, Apart
<1>5. TypeOK'
  BY <1>2, AddressInt DEF TypeOK, Label, FreeHead, Goto
<1>6. Guarded' /\ Current' /\ InStep' /\ Aligned'
  BY <1>2, Alone, AddressInt DEF Guarded, Current, InStep, Aligned, TypeOK, FreeHead, Goto
<1>7. PICK G, r : List(r)' /\ G = ToSet(r) /\ G = F \cup {slot[t]}
  <2>1. PICK s \in Address : s = slot[t]
    BY <1>2
  <2>2. List(<<s>> \o q)' /\ ToSet(<<s>> \o q) = F \cup {s}
    BY <1>1, <1>2, <1>4, <2>1, ListCons DEF Pool, FreeHead
  <2> QED
    BY <2>1, <2>2
<1>8. live \cup F \cup Loose = (live \cup G \cup Loose)'
  BY <1>3, <1>7 DEF FreeHead
<1>9. Complete(G)'
  BY <1>1, <1>8, CompleteSame DEF Pool, FreeHead
<1>10. Apart(G)' /\ Placed(live \cup G \cup Loose)'
  BY <1>1, <1>3, <1>4, <1>7, <1>8 DEF Pool, Apart, Placed, FreeHead
<1>11. \E H, p : Pool(H, p)'
  BY <1>7, <1>9, <1>10 DEF Pool
<1> QED
  BY <1>5, <1>6, <1>11

-----------------------------------------------------------------------------
(* The theorem. *)

\* An empty pool satisfies the invariant.
LEMMA InitOK == Init => Inv
<1> SUFFICES ASSUME Init PROVE Inv
  OBVIOUS
<1>1. TypeOK /\ Guarded /\ Current /\ InStep /\ Aligned
  BY BufPoolAssumption DEF Init, TypeOK, Guarded, Current, InStep, Aligned, Label
<1>2. Loose = {} /\ live = {} /\ pages = 0 /\ free = NULL
  BY DEF Init, Loose
<1>3. List(<<>>) /\ ToSet(<<>>) = {}
  BY <1>2 DEF List, ToSet
<1>4. Pool({}, <<>>)
  BY <1>2, <1>3 DEF Pool, Apart, Placed, Complete
<1> QED
  BY <1>1, <1>4 DEF Inv

\* So does a state in which nothing changed.
LEMMA InvStutter == Inv /\ UNCHANGED vars => Inv'
<1> SUFFICES ASSUME Inv, UNCHANGED vars PROVE Inv'
  OBVIOUS
<1>1. PICK F, q : Pool(F, q)
  BY DEF Inv
<1>2. TypeOK' /\ Guarded' /\ Current' /\ InStep' /\ Aligned'
  BY DEF vars, Inv, TypeOK, Guarded, Current, InStep, Aligned
<1>3. Loose' = Loose
  BY DEF vars, Loose
<1>4. Complete(F)' /\ List(q)'
  BY <1>1, <1>3, CompleteSame, ListSame DEF Pool, vars
<1>5. Pool(F, q)'
  BY <1>1, <1>3, <1>4 DEF Pool, Apart, Placed, vars
<1> QED
  BY <1>2, <1>5 DEF Inv

\* Every step of every thread preserves it.
LEMMA NextOK == Inv /\ Next => Inv'
BY LockStepOK, GrowOK, TakeVirginOK, UnlinkOK, AdvanceOK, AllocReturnOK, FreeLockOK,
   FreeLinkOK, FreeHeadOK DEF Next

\* Who has a slot in hand is alone in that, and its slot is where the invariant says.
LEMMA InvNoOverlap == Inv => NoOverlap
<1> SUFFICES ASSUME Inv PROVE NoOverlap
  OBVIOUS
<1> USE DEF Inv
<1>1. PICK F, q : Pool(F, q)
  OBVIOUS
<1>2. sz \in Nat \ {0} /\ bump \in Nat /\ pages \in Nat /\ live \cup F \subseteq Nat
  <2>1. F \subseteq Address
    BY <1>1, InList
  <2> QED
    BY <2>1, BufPoolAssumption, AddressInt DEF TypeOK
<1>3. ASSUME NEW t \in Thread, slot[t] # NULL
      PROVE  /\ InHand = {slot[t]} /\ slot[t] \in Nat /\ slot[t] \notin live
             /\ slot[t] \in F \cup Loose \/ (slot[t] = bump /\ bump + sz <= end)
             /\ lock # NULL
  <2>1. pc[t] \in {"unlink", "advance", "alloc_unlock", "link", "head"}
    BY <1>3 DEF TypeOK, Guarded, Label
  <2>2. InHand = {slot[t]}
    BY <1>3, <2>1, Alone DEF InHand
  <2>3. slot[t] \in Nat /\ lock # NULL
    BY <1>3, <2>1, Alone, AddressInt DEF TypeOK
  <2>4. slot[t] \in F \cup Loose \/ (slot[t] = bump /\ bump + sz <= end)
    BY <1>1, <1>3, <2>1, InList DEF InStep, Loose
  <2>5. slot[t] \notin live
    <3>1. CASE slot[t] \in F \cup Loose
      BY <1>1, <3>1 DEF Pool, Apart
    <3>2. CASE slot[t] = bump
      BY <1>1, <1>2, <3>2 DEF Pool, Placed
    <3> QED
      BY <2>4, <3>1, <3>2
  <2> QED
    BY <2>2, <2>3, <2>4, <2>5
<1>4. ASSUME NEW s \in live \cup InHand
      PROVE  s \in Nat /\ (s \in live \cup F \cup Loose \/ (s = bump /\ bump + sz <= end))
  BY <1>2, <1>3 DEF InHand
<1>5. ASSUME NEW s \in live \cup InHand
      PROVE  \E n \in 0..(pages - 1) : Base(n) + Header <= s /\ s + sz <= Base(n + 1)
  <2>1. CASE s \in live \cup F \cup Loose
    BY <1>1, <2>1 DEF Pool, Placed
  <2>2. CASE s = bump /\ bump + sz <= end
    <3>1. pages # 0 /\ end = Base(pages) /\ Base(pages - 1) + Header <= bump
      BY <1>2, <2>2 DEF Current, TypeOK
    <3>2. pages - 1 \in 0..(pages - 1) /\ (pages - 1) + 1 = pages
      BY <1>2, <3>1
    <3> QED
      BY <2>2, <3>1, <3>2
  <2> QED
    BY <1>4, <2>1, <2>2
<1>6. \A s \in live \cup InHand : \E n \in 0..(pages - 1) : Bytes(s) \subseteq Page(n)
  <2>1. \A n \in 0..(pages - 1) : Base(n) \in Nat /\ Base(n + 1) \in Nat
    BY <1>2, BaseNext
  <2>2. Header \in Nat
    BY BufPoolAssumption
  <2> QED
    BY <1>2, <1>4, <1>5, <2>1, <2>2 DEF Bytes, Page
<1>7. ASSUME NEW s \in live \cup InHand, NEW r \in live \cup InHand, r # s
      PROVE  r + sz <= s \/ s + sz <= r
  <2>1. CASE {r, s} \subseteq live \cup F \cup Loose
    BY <1>1, <1>7, <2>1 DEF Pool, Apart
  <2>2. ASSUME NEW x \in live, NEW y \in InHand, y = bump
        PROVE  x + sz <= y
    BY <1>1, <2>2 DEF Pool, Placed
  <2>3. r \in live \/ s \in live
    BY <1>3, <1>7 DEF InHand
  <2> QED
    BY <1>4, <1>7, <2>1, <2>2, <2>3
<1>8. \A s, r \in live \cup InHand : s # r => Bytes(s) \cap Bytes(r) = {}
  <2>1. ASSUME NEW s \in live \cup InHand, NEW r \in live \cup InHand, s # r
        PROVE  Bytes(s) \cap Bytes(r) = {}
    <3>1. s \in Nat /\ r \in Nat /\ (r + sz <= s \/ s + sz <= r)
      BY <1>4, <1>7, <2>1
    <3> QED
      BY <1>2, <3>1 DEF Bytes
  <2> QED
    BY <2>1
<1>9. live \cap InHand = {}
  BY <1>3 DEF InHand
<1>10. \A t, u \in Thread : t # u /\ slot[t] # NULL => slot[t] # slot[u]
  <2>1. ASSUME NEW t \in Thread, NEW u \in Thread, t # u, slot[t] # NULL
        PROVE  slot[u] = NULL
    BY <2>1, Alone DEF Guarded, TypeOK
  <2> QED
    BY <2>1
<1>11. \A s \in live : Bytes(s) \cap Untouched = {}
  <2>1. \A s \in live : s \in Nat /\ s + sz <= bump
    BY <1>1, <1>2 DEF Pool, Placed
  <2> QED
    BY <1>2, <2>1 DEF Bytes, Untouched, TypeOK
<1> QED
  BY <1>6, <1>8, <1>9, <1>10, <1>11 DEF NoOverlap

\* Between two calls the links from `free' are those of the invariant's list.
LEMMA InvFreeListSound == Inv => FreeListSound
<1> SUFFICES ASSUME Inv, lock = NULL
             PROVE  /\ IsInjective(FreeList) /\ ToSet(FreeList) \cap live = {}
                    /\ FreeList # <<>> => next[Last(FreeList)] = NULL
  BY DEF FreeListSound
<1>1. PICK F, q : Pool(F, q)
  BY DEF Inv
<1>2. FreeList = q
  BY <1>1, FreeListIs DEF Pool
<1>3. Len(q) \in Nat /\ q \in Seq(Address) /\ DOMAIN q = 1..Len(q)
  BY <1>1, LenProperties DEF Pool, List
<1>4. IsInjective(q)
  BY <1>1, <1>3 DEF Pool, List, IsInjective
<1>5. ToSet(q) \cap live = {}
  BY <1>1 DEF Pool, Apart
<1>6. q # <<>> => next[Last(q)] = NULL
  <2>1. q # <<>> => Len(q) \in 1..Len(q)
    BY <1>3, EmptySeq
  <2> QED
    BY <1>1, <2>1 DEF Pool, List, Last
<1> QED
  BY <1>2, <1>4, <1>5, <1>6

\* Between two calls no slot is on its way, so a cut below the bump pointer is live
\* or on the list.
LEMMA InvNothingLost == Inv => NothingLost
<1> SUFFICES ASSUME Inv, lock = NULL, NEW n \in 0..(pages - 1), NEW s \in Cut(n),
                    s \notin Untouched
             PROVE  s \in live \cup ToSet(FreeList)
  BY DEF NothingLost
<1>1. PICK F, q : Pool(F, q)
  BY DEF Inv
<1>2. FreeList = q
  BY <1>1, FreeListIs DEF Pool
<1>3. Loose = {}
  BY BufPoolAssumption DEF Inv, TypeOK, Guarded, Loose
<1>4. pages \in Nat /\ n \in Nat /\ n + 1 <= pages /\ bump \in Nat /\ end \in Nat
  BY DEF Inv, TypeOK
<1>5. s \in Int /\ sz \in Nat \ {0} /\ s + sz <= Base(n + 1)
  BY <1>4, CutIs DEF Inv
<1>6. Base(n + 1) <= Base(pages) /\ Base(n + 1) \in Nat /\ end = Base(pages)
  <2>1. n + 1 \in Nat /\ pages # 0
    BY <1>4
  <2> QED
    BY <1>4, <2>1, BaseMonotone, BaseNext DEF Inv, Current
<1>7. s < bump
  BY <1>4, <1>5, <1>6 DEF Untouched
<1> QED
  BY <1>1, <1>2, <1>3, <1>7 DEF Pool, Complete

\* The invariant holds at every moment.
LEMMA Invariance == Spec => []Inv
<1>1. Inv /\ [Next]_vars => Inv'
  BY NextOK, InvStutter
<1> QED
  BY <1>1, InitOK, PTL DEF Spec

\* No byte of the pool ever has two owners, whatever threads allocate and free slots
\* of whatever size, and no slot leaves its page.
THEOREM OneOwner == Spec => []NoOverlap
BY Invariance, InvNoOverlap, PTL

\* The recycled slots always form a list without a cycle that ends in NULL and holds
\* no live slot: nothing an owner writes into its slot is ever followed as a link.
THEOREM SoundList == Spec => []FreeListSound
BY Invariance, InvFreeListSound, PTL

\* Every slot handed out once is live or will be handed out again: none is lost by
\* any order of allocations, frees, growth and failure.
THEOREM NoneLost == Spec => []NothingLost
BY Invariance, InvNothingLost, PTL
==============================================================================
