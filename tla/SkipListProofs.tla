--------------------------- MODULE SkipListProofs --------------------------
(***************************************************************************)
(* Theorems about SkipList for any members, scores, levels and history:    *)
(* the list is the members in the order of the dict's scores, and every    *)
(* rank and range read off it is right.                                    *)
(*                                                                         *)
(* The invariant, Shape, names what the list holds by the sequence q of    *)
(* its members: place p is the node q[p], place 0 the header and place     *)
(* n + 1 the end.  Every lemma is about any list of some shape, not about  *)
(* the state: a score changes by a deletion and an insertion.              *)
(***************************************************************************)
EXTENDS SkipList, Induction, FiniteSetTheorems, SequenceTheorems

At(q, n, p) == IF p = 0 THEN Header ELSE IF p <= n THEN q[p] ELSE None

\* The node at place p has level i.
Reaches(list, q, n, i, p) == i \in DOMAIN list.node[At(q, n, p)].level

\* Place r is the first after p that has level i, or the end.
Follows(list, q, n, i, p, r) ==
    /\ r \in (p + 1)..(n + 1)
    /\ r <= n => Reaches(list, q, n, i, r)
    /\ \A s \in (p + 1)..(r - 1) : ~Reaches(list, q, n, i, s)

\* The link from place p to place r; the end is as far as the last node.
LinkTo(q, n, p, r) == Link(At(q, n, r), (IF r > n THEN n ELSE r) - p)

IsRecord(list) ==
    /\ list = [level |-> list.level, length |-> list.length, tail |-> list.tail,
               node |-> list.node]
    /\ "level" \in DOMAIN list.node[Header]

\* q is the members that d has a score for, in the order of the list.
InOrder(d, q, n) ==
    /\ n \in Nat /\ q \in [1..n -> Member]
    /\ d \in [Member -> Score \cup {None}]
    /\ \A j \in 1..n : \A i \in 1..(j - 1) : Precedes(d, q[i], q[j])
    /\ \A m \in Member : d[m] # None <=> \E p \in 1..n : q[p] = m

\* What the nodes hold beside their levels.
Nodes(list, d, q, n) ==
    /\ IsRecord(list)
    /\ DOMAIN list.node = {At(q, n, p) : p \in 0..n}
    /\ list.length = n
    /\ list.tail = IF n = 0 THEN None ELSE q[n]
    /\ \A p \in 1..n : /\ list.node[q[p]].score = d[q[p]]
                       /\ list.node[q[p]].backward = IF p = 1 THEN None ELSE q[p - 1]

Heights(list, q, n) ==
    /\ list.level \in 1..MaxLevel
    /\ DOMAIN list.node[Header].level = 1..MaxLevel
    /\ \A p \in 1..n : \E h \in 1..list.level : DOMAIN list.node[q[p]].level = 1..h
    /\ list.level = 1 \/ \E p \in 1..n : Reaches(list, q, n, list.level, p)

\* The links on the first top levels.
Links(list, q, n, top) ==
    \A i \in 1..top, p \in 0..n : Reaches(list, q, n, i, p) =>
        \E r : /\ Follows(list, q, n, i, p, r)
               /\ list.node[At(q, n, p)].level[i] = LinkTo(q, n, p, r)

Shape(list, d, q, n) ==
    /\ InOrder(d, q, n)
    /\ Nodes(list, d, q, n)
    /\ Heights(list, q, n)
    /\ Links(list, q, n, list.level)
    /\ \A i \in (list.level + 1)..MaxLevel : list.node[Header].level[i].forward = None

Inv == \E n \in Nat : \E q \in [1..n -> Member] : Shape(zsl, dict, q, n)

-----------------------------------------------------------------------------
(* The order of the members. *)

\* Scores are integers, None is no score, and neither it nor the header is a member.
LEMMA Constants ==
    /\ Score \subseteq Int /\ None \notin Score
    /\ Member \subseteq Nat /\ None \notin Member /\ Header \notin Member /\ Header # None
    /\ MaxLevel \in Nat \ {0}
<1>1. Inf \in Nat /\ None \notin Score /\ None \notin Int
  BY ObjectsAssumption
<1>2. Score \subseteq Int
  BY <1>1 DEF Score
<1>3. Member \subseteq Nat /\ Header \notin Member /\ Header # None /\ MaxLevel \in Nat \ {0}
  BY SkipListAssumption
<1>4. None \notin Member
  <2> SUFFICES ASSUME None \in Member PROVE FALSE
    OBVIOUS
  <2>1. None \in Nat
    BY <1>3
  <2>2. None \in Int
    BY <2>1
  <2> QED
    BY <1>1, <2>2
<1> QED
  BY <1>1, <1>2, <1>3, <1>4

\* A sequence in order has no member twice, and every member in it has a score.
LEMMA Distinct ==
    ASSUME NEW d, NEW n, NEW q, InOrder(d, q, n)
    PROVE  /\ \A i, j \in 1..n : q[i] = q[j] => i = j
           /\ \A p \in 1..n : q[p] \in Member /\ d[q[p]] \in Score
           /\ \A i, j \in 1..n : Precedes(d, q[i], q[j]) <=> i < j
<1>1. \A p \in 1..n : q[p] \in Member /\ d[q[p]] \in Score
  BY DEF InOrder
<1>2. \A p \in 1..n : d[q[p]] \in Int /\ q[p] \in Int
  <2>1. Score \subseteq Int /\ Member \subseteq Int
    BY Constants
  <2> QED
    BY <1>1, <2>1
<1>3. \A i, j \in 1..n : i < j => Precedes(d, q[i], q[j])
  BY DEF InOrder
<1>4. ASSUME NEW i \in 1..n, NEW j \in 1..n
      PROVE  ~(Precedes(d, q[i], q[j]) /\ Precedes(d, q[j], q[i])) /\ ~Precedes(d, q[i], q[i])
  BY <1>2 DEF Precedes
<1>5. \A i, j \in 1..n : q[i] = q[j] => i = j
  <2> SUFFICES ASSUME NEW i \in 1..n, NEW j \in 1..n, q[i] = q[j], i # j PROVE FALSE
    OBVIOUS
  <2>1. n \in Nat
    BY DEF InOrder
  <2>2. i < j \/ j < i
    BY <2>1
  <2> QED
    BY <1>3, <1>4, <2>2
<1>6. \A i, j \in 1..n : Precedes(d, q[i], q[j]) <=> i < j
  <2> SUFFICES ASSUME NEW i \in 1..n, NEW j \in 1..n PROVE Precedes(d, q[i], q[j]) <=> i < j
    OBVIOUS
  <2>1. n \in Nat
    BY DEF InOrder
  <2>2. i < j \/ j < i \/ i = j
    BY <2>1
  <2> QED
    BY <1>3, <1>4, <2>1, <2>2
<1> QED
  BY <1>1, <1>5, <1>6

\* Places are nodes, different ones for different places.
LEMMA Places ==
    ASSUME NEW list, NEW d, NEW q, NEW n, Shape(list, d, q, n)
    PROVE  /\ n \in Nat
           /\ \A p \in 0..n : At(q, n, p) \in DOMAIN list.node
           /\ \A p \in 1..n : At(q, n, p) = q[p] /\ q[p] \in Members(list)
           /\ Members(list) = {q[p] : p \in 1..n}
           /\ At(q, n, 0) = Header
           /\ At(q, n, n + 1) = None /\ None \notin DOMAIN list.node
           /\ \A p, r \in 0..(n + 1) : At(q, n, p) = At(q, n, r) => p = r
           /\ \A i \in 1..MaxLevel : Reaches(list, q, n, i, 0)
           /\ \A i \in Int, p \in 1..n : Reaches(list, q, n, i, p) => i \in 1..list.level
           /\ \A p \in 1..n : Reaches(list, q, n, 1, p)
<1>1. n \in Nat /\ q \in [1..n -> Member] /\ InOrder(d, q, n)
  BY DEF Shape, InOrder
<1>2. \A p \in 1..n : At(q, n, p) = q[p] /\ q[p] \in Member
  BY <1>1 DEF At
<1>3. At(q, n, 0) = Header /\ At(q, n, n + 1) = None
  BY <1>1 DEF At
<1>4. DOMAIN list.node = {At(q, n, p) : p \in 0..n}
  BY DEF Shape, Nodes
<1>5. \A p \in 0..n : p = 0 \/ p \in 1..n
  BY <1>1
<1>6. Members(list) = {q[p] : p \in 1..n}
  <2>1. \A x \in Members(list) : \E p \in 1..n : x = q[p]
    BY <1>2, <1>3, <1>4, <1>5 DEF Members
  <2>2. \A p \in 1..n : q[p] \in Members(list)
    <3> TAKE p \in 1..n
    <3>1. p \in 0..n /\ q[p] # Header
      BY <1>2, Constants
    <3> QED
      BY <1>2, <1>4, <3>1 DEF Members
  <2> QED
    BY <2>1, <2>2
<1>7. None \notin DOMAIN list.node
  BY <1>2, <1>3, <1>4, <1>5, Constants
<1>8. \A p, r \in 0..(n + 1) : At(q, n, p) = At(q, n, r) => p = r
  <2> TAKE p, r \in 0..(n + 1)
  <2>1. /\ p = 0 \/ p \in 1..n \/ p = n + 1
        /\ r = 0 \/ r \in 1..n \/ r = n + 1
    BY <1>1
  <2> QED
    BY <1>1, <1>2, <1>3, <2>1, Distinct, Constants
<1>9. \A i \in 1..MaxLevel : Reaches(list, q, n, i, 0)
  BY <1>3 DEF Shape, Heights, Reaches
<1>10. /\ \A i \in Int, p \in 1..n : Reaches(list, q, n, i, p) => i \in 1..list.level
       /\ \A p \in 1..n : Reaches(list, q, n, 1, p)
  <2>1. list.level \in Int /\ \A p \in 1..n : \E h \in 1..list.level : DOMAIN list.node[q[p]].level = 1..h
    BY DEF Shape, Heights
  <2>2. ASSUME NEW p \in 1..n
        PROVE  /\ \A i \in Int : Reaches(list, q, n, i, p) => i \in 1..list.level
               /\ Reaches(list, q, n, 1, p)
    <3>1. PICK h \in 1..list.level : DOMAIN list.node[q[p]].level = 1..h
      BY <2>1
    <3> QED
      BY <1>2, <2>1, <3>1 DEF Reaches
  <2> QED
    BY <2>2
<1> QED
  BY <1>1, <1>2, <1>3, <1>4, <1>6, <1>7, <1>8, <1>9, <1>10

-----------------------------------------------------------------------------
(* Searching. *)

\* The places on are those up to k.
UpTo(list, q, n, on, k) ==
    /\ k \in 0..n
    /\ \A x : \A r : Place(x, r) \in on => x \in Members(list)
    /\ \A p \in 1..n : Place(q[p], p) \in on <=> p <= k

\* Place r is the last up to k that has level i.
LastOf(list, q, n, i, k, r) ==
    /\ r \in 0..k
    /\ Reaches(list, q, n, i, r)
    /\ \A s \in (r + 1)..k : ~Reaches(list, q, n, i, s)

Stand(q, n, p) == Place(At(q, n, p), p)

\* The next place that has a level is the only one, and where the link leads to.
LEMMA LinkOK ==
    ASSUME NEW list, NEW d, NEW q, NEW n, Shape(list, d, q, n),
           NEW i \in 1..list.level, NEW p \in 0..n, Reaches(list, q, n, i, p)
    PROVE  \E r \in (p + 1)..(n + 1) :
              /\ Follows(list, q, n, i, p, r)
              /\ list.node[At(q, n, p)].level[i] = LinkTo(q, n, p, r)
BY DEF Shape, Links, Follows

\* On the lowest level every link leads to the next place.
LEMMA NextIs ==
    ASSUME NEW list, NEW d, NEW q, NEW n, Shape(list, d, q, n), NEW p \in 0..n
    PROVE  list.node[At(q, n, p)].level[1].forward = At(q, n, p + 1)
<1>1. n \in Nat /\ list.level \in 1..MaxLevel /\ MaxLevel \in Nat
  BY Places, Constants DEF Shape, Heights
<1>2. 1 \in 1..list.level /\ Reaches(list, q, n, 1, p)
  <2>1. p = 0 \/ p \in 1..n
    BY <1>1
  <2>2. 1 \in 1..list.level /\ 1 \in 1..MaxLevel
    BY <1>1
  <2> QED
    BY <2>1, <2>2, Places
<1>3. PICK r \in (p + 1)..(n + 1) :
              /\ Follows(list, q, n, 1, p, r)
              /\ list.node[At(q, n, p)].level[1] = LinkTo(q, n, p, r)
  BY <1>1, <1>2, LinkOK
<1>4. r = p + 1
  <2>1. \A s \in 1..n : Reaches(list, q, n, 1, s)
    BY Places
  <2> QED
    BY <1>1, <1>3, <2>1 DEF Follows
<1> QED
  BY <1>3, <1>4 DEF LinkTo, Link

\* One link further: to the next place with the level, if it is not behind k.
LEMMA OnwardOK ==
    ASSUME NEW list, NEW d, NEW q, NEW n, Shape(list, d, q, n),
           NEW on, NEW k, UpTo(list, q, n, on, k),
           NEW i \in 1..list.level, NEW p \in 0..k, Reaches(list, q, n, i, p)
    PROVE  \/ /\ LastOf(list, q, n, i, k, p)
              /\ Onward(list, on, i, Stand(q, n, p)) = Stand(q, n, p)
           \/ \E r \in (p + 1)..k :
                /\ Reaches(list, q, n, i, r)
                /\ Onward(list, on, i, Stand(q, n, p)) = Stand(q, n, r)
<1>1. n \in Nat /\ k \in 0..n /\ p \in 0..n
  BY Places DEF UpTo
<1>2. PICK r \in (p + 1)..(n + 1) :
              /\ Follows(list, q, n, i, p, r)
              /\ list.node[At(q, n, p)].level[i] = LinkTo(q, n, p, r)
  BY <1>1, LinkOK
<1> DEFINE next == Place(At(q, n, r), p + ((IF r > n THEN n ELSE r) - p))
<1>3. Onward(list, on, i, Stand(q, n, p)) = IF next \in on THEN next ELSE Stand(q, n, p)
  BY <1>2 DEF Onward, Stand, Place, LinkTo, Link
<1>4. CASE r = n + 1
  <2>1. At(q, n, r) = None /\ None \notin Members(list)
    BY <1>4, Places DEF Members
  <2>2. next \notin on
    BY <2>1 DEF UpTo
  <2>3. LastOf(list, q, n, i, k, p)
    BY <1>1, <1>2, <1>4 DEF Follows, LastOf
  <2> QED
    BY <1>3, <2>2, <2>3
<1>5. CASE r \in 1..n
  <2>1. next = Stand(q, n, r) /\ At(q, n, r) = q[r]
    BY <1>1, <1>2, <1>5, Places DEF Stand
  <2>2. next \in on <=> r <= k
    BY <1>5, <2>1 DEF UpTo, Stand
  <2>3. Reaches(list, q, n, i, r)
    BY <1>2, <1>5 DEF Follows
  <2>4. r > k => LastOf(list, q, n, i, k, p)
    BY <1>1, <1>2, <1>5 DEF Follows, LastOf
  <2>5. r <= k => r \in (p + 1)..k
    BY <1>1, <1>2
  <2> QED
    BY <1>1, <1>3, <1>5, <2>1, <2>2, <2>3, <2>4, <2>5
<1> QED
  BY <1>1, <1>2, <1>4, <1>5

\* Along a level a search comes to the last place up to k that has the level.
LEMMA AlongOK ==
    ASSUME NEW list, NEW d, NEW q, NEW n, Shape(list, d, q, n),
           NEW on, NEW k, UpTo(list, q, n, on, k),
           NEW i \in 1..list.level, NEW p \in 0..k, Reaches(list, q, n, i, p)
    PROVE  \E r : /\ LastOf(list, q, n, i, k, r)
                  /\ Along(list, on, i, Stand(q, n, p)) = Stand(q, n, r)
<1> DEFINE Level == {s \in 0..k : Reaches(list, q, n, i, s)}
           X == {Stand(q, n, s) : s \in Level}
           onward == [j \in 1..n |-> [x \in X |-> Onward(list, on, i, x)]]
           Builds(g) == g = [j \in 0..n |-> IF j = 0 THEN Stand(q, n, p)
                                            ELSE Onward(list, on, i, g[j - 1])]
           walk == CHOOSE g : Builds(g)
<1>1. n \in Nat /\ k \in 0..n /\ list.length = n
  BY Places DEF UpTo, Shape, Nodes
<1>2. \A s \in Level : /\ Onward(list, on, i, Stand(q, n, s)) \in X
  BY OnwardOK, <1>1
<1>3. onward \in [1..n -> [X -> X]]
  <2>1. ASSUME NEW x \in X PROVE Onward(list, on, i, x) \in X
    BY <1>2
  <2> HIDE DEF X
  <2> QED
    BY <2>1
<1>4. Stand(q, n, p) \in X
  OBVIOUS
<1>5. PICK g : Runs(g, Stand(q, n, p), onward, n, X)
  <2> HIDE DEF X, onward
  <2> QED
    BY <1>1, <1>3, <1>4, RunExists
<1>6. Builds(g)
  <2>1. ASSUME NEW j \in 1..n PROVE g[j] = Onward(list, on, i, g[j - 1])
    <3>1. g[j - 1] \in X
      <4> HIDE DEF X
      <4>1. j - 1 \in 0..n
        BY <1>1
      <4> QED
        BY <1>5, <4>1 DEF Runs
    <3> HIDE DEF X
    <3> QED
      BY <1>5, <3>1 DEF Runs
  <2> HIDE DEF X, onward
  <2> QED
    BY <1>5, <2>1 DEF Runs
<1>7. Builds(walk)
  <2> HIDE DEF Builds
  <2> QED
    BY <1>6
<1>8. /\ walk[0] = Stand(q, n, p)
      /\ \A j \in 1..n : walk[j] = Onward(list, on, i, walk[j - 1])
  <2> HIDE DEF walk
  <2> QED
    BY <1>1, <1>7
<1> HIDE DEF walk
<1> DEFINE Got(j, r) == /\ r \in Level
                        /\ walk[j] = Stand(q, n, r)
                        /\ r >= j \/ LastOf(list, q, n, i, k, r)
           Bad == {j \in 0..n : ~ \E r : Got(j, r)}
<1>9. Bad = {}
  <2> SUFFICES ASSUME Bad # {} PROVE FALSE
    OBVIOUS
  <2>1. PICK j \in Bad : \A j2 \in Bad : j <= j2
    <3>1. Bad \in SUBSET Nat
      OBVIOUS
    <3> HIDE DEF Bad
    <3> QED
      BY <3>1, LeastElement
  <2>2. CASE j = 0
    <3>1. Got(0, p)
      BY <1>8
    <3> QED
      BY <2>1, <2>2, <3>1
  <2>3. CASE j # 0
    <3>1. j \in 1..n /\ j - 1 \in 0..n
      BY <1>1, <2>3
    <3>2. PICK r : Got(j - 1, r)
      BY <2>1, <3>1
    <3>3. walk[j] = Onward(list, on, i, Stand(q, n, r))
      BY <1>8, <3>1, <3>2
    <3>4. CASE /\ LastOf(list, q, n, i, k, r)
               /\ Onward(list, on, i, Stand(q, n, r)) = Stand(q, n, r)
      <4>1. Got(j, r)
        BY <3>2, <3>3, <3>4
      <4> QED
        BY <2>1, <4>1
    <3>5. CASE \E s \in (r + 1)..k : /\ Reaches(list, q, n, i, s)
                                     /\ Onward(list, on, i, Stand(q, n, r)) = Stand(q, n, s)
      <4>1. PICK s \in (r + 1)..k : /\ Reaches(list, q, n, i, s)
                                    /\ Onward(list, on, i, Stand(q, n, r)) = Stand(q, n, s)
        BY <3>5
      <4>2. r >= j - 1
        BY <1>1, <3>1, <3>2, <4>1 DEF LastOf
      <4>3. Got(j, s)
        BY <1>1, <3>1, <3>2, <3>3, <4>1, <4>2
      <4> QED
        BY <2>1, <4>3
    <3> QED
      BY <3>2, <3>4, <3>5, OnwardOK
  <2> QED
    BY <2>2, <2>3
<1>10. PICK r : Got(n, r)
  BY <1>1, <1>9
<1>11. LastOf(list, q, n, i, k, r)
  BY <1>1, <1>10 DEF LastOf
<1>12. Along(list, on, i, Stand(q, n, p)) = walk[n]
  BY <1>1 DEF Along, walk
<1> QED
  BY <1>10, <1>11, <1>12

\* A function on 1..m is a sequence of length m.
LEMMA AsSequence ==
    ASSUME NEW m \in Nat, NEW S, NEW s \in [1..m -> S]
    PROVE  s \in Seq(S) /\ Len(s) = m
<1>1. s \in Seq(S)
  BY SeqDef
<1> QED
  BY <1>1, LenProperties

\* On every level a search ends at the last place up to k that has the level.
LEMMA PathOK ==
    ASSUME NEW list, NEW d, NEW q, NEW n, Shape(list, d, q, n),
           NEW on, NEW k, UpTo(list, q, n, on, k)
    PROVE  \E last \in [1..list.level -> 0..k] :
              /\ \A i \in 1..list.level : LastOf(list, q, n, i, k, last[i])
              /\ last[1] = k
              /\ Path(list, on) = [i \in 1..list.level |-> Stand(q, n, last[i])]
<1> DEFINE L == list.level
           last == [i \in 1..L |-> CHOOSE r : LastOf(list, q, n, i, k, r)]
           F == [i \in 1..L |-> Stand(q, n, last[i])]
           Turn(g, j) == IF j = 0 THEN <<>>
                         ELSE LET above == g[j - 1]
                                  from  == IF j = 1 THEN Place(Header, 0) ELSE Head(above)
                              IN  <<Along(list, on, L + 1 - j, from)>> \o above
           Builds(g) == g = [j \in 0..L |-> Turn(g, j)]
           down == CHOOSE g : Builds(g)
           Part(j) == SubSeq(F, L + 1 - j, L)
<1>1. /\ n \in Nat /\ k \in 0..n
      /\ L \in Nat \ {0} /\ 1..L \subseteq 1..MaxLevel /\ 1..L \subseteq Int
  BY Places, Constants DEF UpTo, Shape, Heights
<1>2. \A i \in 1..L : LastOf(list, q, n, i, k, last[i])
  <2> TAKE i \in 1..L
  <2>1. 0 \in 0..k /\ Reaches(list, q, n, i, 0)
    BY <1>1, Places
  <2>2. \E r : LastOf(list, q, n, i, k, r)
    BY <2>1, AlongOK
  <2> QED
    BY <2>2
<1>3. last \in [1..L -> 0..k]
  <2> HIDE DEF last
  <2>1. \A i \in 1..L : last[i] \in 0..k
    BY <1>2 DEF LastOf
  <2> QED
    BY <2>1 DEF last
<1>4. \A i \in 1..L, p \in 0..k : Reaches(list, q, n, i, p) =>
          Along(list, on, i, Stand(q, n, p)) = F[i]
  <2> HIDE DEF last
  <2> SUFFICES ASSUME NEW i \in 1..L, NEW p \in 0..k, Reaches(list, q, n, i, p)
               PROVE  Along(list, on, i, Stand(q, n, p)) = F[i]
    OBVIOUS
  <2>1. PICK r : LastOf(list, q, n, i, k, r) /\ Along(list, on, i, Stand(q, n, p)) = Stand(q, n, r)
    BY AlongOK
  <2>2. r = last[i]
    BY <1>1, <1>2, <2>1 DEF LastOf
  <2> QED
    BY <2>1, <2>2
<1> HIDE DEF last
<1>5. F \in [1..L -> {F[i] : i \in 1..L}]
  OBVIOUS
<1>6. F \in Seq({F[i] : i \in 1..L}) /\ Len(F) = L
  <2> HIDE DEF F
  <2> QED
    BY <1>1, <1>5, AsSequence
<1>7. Part(0) = <<>>
  <2> HIDE DEF F
  <2> QED
    BY <1>1, SubSeqEmpty
<1>8. ASSUME NEW j \in 1..L
      PROVE  LET from == IF j = 1 THEN Place(Header, 0) ELSE Head(Part(j - 1))
             IN  Part(j) = <<Along(list, on, L + 1 - j, from)>> \o Part(j - 1)
  <2>1. /\ L + 1 - j \in 1..L /\ L + 1 - (j - 1) = (L + 1 - j) + 1
        /\ j # 1 => L + 1 - (j - 1) \in 1..L
    BY <1>1
  <2>2. Part(j) = <<F[L + 1 - j]>> \o Part(j - 1)
    <3> HIDE DEF F
    <3>1. /\ L + 1 - j \in 1..Len(F) /\ L \in (L + 1 - j)..Len(F)
          /\ F \in Seq({F[i] : i \in 1..L})
      BY <1>1, <1>6, <2>1
    <3>2. SubSeq(F, L + 1 - j, L) = <<F[L + 1 - j]>> \o SubSeq(F, (L + 1 - j) + 1, L)
      BY <3>1, SubSeqRecursiveFirst
    <3> QED
      BY <2>1, <3>2
  <2>3. CASE j = 1
    <3>1. Place(Header, 0) = Stand(q, n, 0) /\ Reaches(list, q, n, L + 1 - j, 0) /\ 0 \in 0..k
      BY <1>1, <2>1, Places DEF Stand
    <3> QED
      BY <1>4, <2>1, <2>2, <2>3, <3>1
  <2>4. CASE j # 1
    <3> DEFINE i == L + 1 - (j - 1)
    <3>1. Head(Part(j - 1)) = F[i]
      <4> HIDE DEF F
      <4>1. i \in 1..L /\ L \in i..L
        BY <1>1, <2>1, <2>4
      <4> QED
        BY <1>6, <4>1, HeadTailOfSubSeq
    <3>2. F[i] = Stand(q, n, last[i]) /\ last[i] \in 0..k /\ Reaches(list, q, n, i, last[i])
      BY <1>2, <1>3, <2>1, <2>4 DEF LastOf
    <3>3. Reaches(list, q, n, i - 1, last[i])
      <4>1. last[i] = 0 \/ last[i] \in 1..n
        BY <1>1, <3>2
      <4>2. i - 1 \in 1..L
        BY <2>1, <2>4
      <4>3. CASE last[i] = 0
        BY <1>1, <4>2, <4>3, Places
      <4>4. CASE last[i] \in 1..n
        <5>1. PICK h \in 1..L : DOMAIN list.node[q[last[i]]].level = 1..h
          BY <4>4 DEF Shape, Heights
        <5>2. At(q, n, last[i]) = q[last[i]]
          BY <4>4, Places
        <5>3. i \in 1..h
          BY <3>2, <5>1, <5>2 DEF Reaches
        <5>4. i - 1 \in 1..h
          BY <4>2, <5>3
        <5> QED
          BY <5>1, <5>2, <5>4 DEF Reaches
      <4> QED
        BY <4>1, <4>3, <4>4
    <3>4. i - 1 = L + 1 - j
      BY <2>1
    <3>5. Along(list, on, L + 1 - j, F[i]) = F[L + 1 - j]
      BY <1>4, <2>1, <3>2, <3>3, <3>4
    <3> QED
      BY <2>2, <2>4, <3>1, <3>5
  <2> QED
    BY <2>3, <2>4
<1> DEFINE G == [j \in 0..L |-> Part(j)]
<1>9. Builds(G)
  <2> HIDE DEF F, Part
  <2>1. \A j \in 1..L : G[j - 1] = Part(j - 1) /\ G[j] = Part(j)
    BY <1>1
  <2>2. \A j \in 0..L : G[j] = Turn(G, j)
    <3> HIDE DEF G
    <3> TAKE j \in 0..L
    <3>1. CASE j = 0
      BY <1>7, <3>1 DEF G
    <3>2. CASE j # 0
      <4>1. j \in 1..L
        BY <1>1, <3>2
      <4> QED
        BY <1>8, <2>1, <3>2, <4>1
    <3> QED
      BY <3>1, <3>2
  <2> HIDE DEF Turn
  <2> QED
    BY <2>2
<1>10. Builds(down)
  <2> HIDE DEF Builds, G
  <2> QED
    BY <1>9
<1> HIDE DEF down
<1>11. \A j \in 0..L : down[j] = Turn(down, j)
  <2> HIDE DEF Turn
  <2> QED
    BY <1>10
<1> DEFINE Bad == {j \in 0..L : down[j] # Part(j)}
<1>12. Bad = {}
  <2> SUFFICES ASSUME Bad # {} PROVE FALSE
    OBVIOUS
  <2>1. PICK j \in Bad : \A j2 \in Bad : j <= j2
    <3>1. Bad \in SUBSET Nat
      OBVIOUS
    <3> HIDE DEF Bad
    <3> QED
      BY <3>1, LeastElement
  <2> HIDE DEF F, Part
  <2>2. CASE j = 0
    BY <1>7, <1>11, <2>1, <2>2
  <2>3. CASE j # 0
    <3>1. j \in 1..L /\ j - 1 \in 0..L
      BY <1>1, <2>1, <2>3
    <3>2. down[j - 1] = Part(j - 1)
      BY <2>1, <3>1
    <3>3. down[j] = Turn(down, j)
      BY <1>11, <3>1
    <3> QED
      BY <1>8, <2>1, <2>3, <3>1, <3>2, <3>3
  <2> QED
    BY <2>2, <2>3
<1>13. down[L] = Part(L)
  <2> HIDE DEF F, Part
  <2>1. L \in 0..L
    BY <1>1
  <2> QED
    BY <1>12, <2>1
<1>14. Part(L) = F
  <2> HIDE DEF F
  <2>1. L + 1 - L = 1
    BY <1>1
  <2> QED
    BY <1>6, <2>1, SubSeqFull
<1>15. Path(list, on) = down[L]
  BY DEF Path, down
<1>16. Path(list, on) = F
  <2> HIDE DEF F, Part
  <2> QED
    BY <1>13, <1>14, <1>15
<1>17. last[1] = k
  <2>1. LastOf(list, q, n, 1, k, last[1])
    BY <1>1, <1>2
  <2>2. k = 0 \/ (k \in 1..n /\ Reaches(list, q, n, 1, k))
    BY <1>1, Places
  <2> QED
    BY <1>1, <2>1, <2>2 DEF LastOf
<1> QED
  BY <1>2, <1>3, <1>16, <1>17

\* What holds of a place only if it holds of those before holds up to some place.
LEMMA Prefix ==
    ASSUME NEW n \in Nat, NEW S \in SUBSET (1..n), \A j \in S : \A i \in 1..(j - 1) : i \in S
    PROVE  \E k \in 0..n : S = 1..k
<1> DEFINE Rest == {p \in 1..(n + 1) : p \notin S}
<1>1. PICK b \in Rest : \A c \in Rest : b <= c
  <2>1. Rest \in SUBSET Nat /\ Rest # {}
    <3>1. n + 1 \in Rest
      OBVIOUS
    <3> QED
      BY <3>1
  <2> HIDE DEF Rest
  <2> QED
    BY <2>1, LeastElement
<1>2. ASSUME NEW p \in 1..n PROVE p \in S <=> p <= b - 1
  <2>1. p < b => p \in S
    BY <1>1
  <2>2. p \in S => p < b
    <3>1. b \notin S /\ b \in 1..(n + 1)
      BY <1>1
    <3>2. p > b => b \in 1..(p - 1)
      BY <3>1
    <3> QED
      BY <3>1, <3>2
  <2> QED
    BY <1>1, <2>1, <2>2
<1>3. b - 1 \in 0..n
  BY <1>1
<1>4. S = 1..(b - 1)
  <2>1. \A p \in S : p \in 1..(b - 1)
    BY <1>1, <1>2
  <2>2. \A p \in 1..(b - 1) : p \in S
    BY <1>1, <1>2
  <2> QED
    BY <2>1, <2>2
<1> QED
  BY <1>3, <1>4

\* Where a score and a member belong: behind the first k.
LEMMA SplitOK ==
    ASSUME NEW list, NEW d, NEW q, NEW n, Shape(list, d, q, n),
           NEW score \in Score, NEW m \in Member
    PROVE  \E k \in 0..n : \A p \in 1..n : node_lt(list.node, q[p], score, m) <=> p <= k
<1>1. n \in Nat /\ InOrder(d, q, n)
  BY Places DEF Shape
<1>2. \A p \in 1..n : q[p] \in Int /\ d[q[p]] \in Int
  <2>1. Score \subseteq Int /\ Member \subseteq Int
    BY Constants
  <2> QED
    BY <1>1, <2>1, Distinct
<1>3. score \in Int /\ m \in Int
  <2>1. Score \subseteq Int /\ Member \subseteq Int
    BY Constants
  <2> QED
    BY <2>1
<1> DEFINE Lt(p) == node_lt(list.node, q[p], score, m)
           S == {p \in 1..n : Lt(p)}
<1>4. \A p \in 1..n : Lt(p) <=> d[q[p]] < score \/ (d[q[p]] = score /\ q[p] < m)
  BY DEF node_lt, Shape, Nodes
<1>5. ASSUME NEW p \in S, NEW s \in 1..(p - 1) PROVE s \in S
  <2>1. s \in 1..n
    BY <1>1
  <2>2. Precedes(d, q[s], q[p])
    BY <1>1, <2>1, Distinct
  <2> HIDE DEF Lt
  <2> QED
    BY <1>2, <1>3, <1>4, <2>1, <2>2 DEF Precedes
<1>6. PICK k \in 0..n : S = 1..k
  <2> HIDE DEF S
  <2>1. S \in SUBSET (1..n)
    BY DEF S
  <2> QED
    BY <1>1, <1>5, <2>1, Prefix
<1>7. \A p \in 1..n : Lt(p) <=> p <= k
  <2> HIDE DEF Lt
  <2>1. \A p \in 1..n : Lt(p) <=> p \in 1..k
    BY <1>6
  <2> QED
    BY <1>1, <2>1
<1> QED
  BY <1>7

\* What the search of zsl_insert and zsl_delete finds on every level.
LEMMA UpdateOK ==
    ASSUME NEW list, NEW d, NEW q, NEW n, Shape(list, d, q, n),
           NEW score \in Score, NEW m \in Member,
           NEW k \in 0..n, \A p \in 1..n : node_lt(list.node, q[p], score, m) <=> p <= k
    PROVE  \E last \in [1..list.level -> 0..k] :
              /\ \A i \in 1..list.level : LastOf(list, q, n, i, k, last[i])
              /\ last[1] = k
              /\ Update(list, score, m) = [i \in 1..list.level |-> Stand(q, n, last[i])]
<1> DEFINE on == [at : {x \in Members(list) : node_lt(list.node, x, score, m)}, rank : Int]
<1>1. n \in Nat /\ list.level \in Nat \ {0}
  BY Places, Constants DEF Shape, Heights
<1>2. UpTo(list, q, n, on, k)
  <2>1. \A x, r : Place(x, r) \in on <=> x \in Members(list) /\ node_lt(list.node, x, score, m) /\ r \in Int
    BY DEF Place
  <2>2. \A p \in 1..n : q[p] \in Members(list) /\ p \in Int
    BY Places
  <2> HIDE DEF on
  <2> QED
    BY <2>1, <2>2 DEF UpTo
<1>3. PICK last \in [1..list.level -> 0..k] :
              /\ \A i \in 1..list.level : LastOf(list, q, n, i, k, last[i])
              /\ last[1] = k
              /\ Path(list, on) = [i \in 1..list.level |-> Stand(q, n, last[i])]
  <2> HIDE DEF on
  <2> QED
    BY <1>2, PathOK
<1> QED
  BY <1>3 DEF Update

-----------------------------------------------------------------------------
(* Insertion. *)

\* Raising the level gives the header links over the whole list, and touches no
\* other node.
LEMMA RaisedOK ==
    ASSUME NEW list, NEW d, NEW q, NEW n, Shape(list, d, q, n), NEW height \in 1..MaxLevel
    PROVE  LET top == Raised(list, height)
           IN  /\ top.level = IF height > list.level THEN height ELSE list.level
               /\ top.length = n /\ top.tail = list.tail
               /\ DOMAIN top.node = DOMAIN list.node
               /\ \A x \in Members(list) : top.node[x] = list.node[x]
               /\ DOMAIN top.node[Header].level = 1..MaxLevel
               /\ \A i \in 1..MaxLevel : ~(list.level < i /\ i <= height) =>
                     top.node[Header].level[i] = list.node[Header].level[i]
               /\ \A i \in 1..MaxLevel : list.level < i /\ i <= height =>
                     top.node[Header].level[i] = Link(None, n)
<1>1. /\ IsRecord(list) /\ list.length = n /\ Header \in DOMAIN list.node
      /\ list.level \in 1..MaxLevel /\ MaxLevel \in Nat
      /\ \A i \in (list.level + 1)..MaxLevel : list.node[Header].level[i].forward = None
  <2>1. Header \in DOMAIN list.node
    <3>1. n \in Nat /\ At(q, n, 0) = Header /\ \A p \in 0..n : At(q, n, p) \in DOMAIN list.node
      BY Places
    <3> QED
      BY <3>1
  <2> QED
    BY <2>1, Constants DEF Shape, Nodes, Heights
<1> DEFINE new == [i \in 1..MaxLevel |->
                     IF list.level < i /\ i <= height
                       THEN Link(list.node[Header].level[i].forward, list.length)
                     ELSE list.node[Header].level[i]]
           top == Raised(list, height)
<1>2. top = [level |-> IF height > list.level THEN height ELSE list.level,
             length |-> list.length, tail |-> list.tail,
             node |-> [x \in DOMAIN list.node |->
                 IF x = Header THEN [list.node[Header] EXCEPT !.level = new]
                 ELSE list.node[x]]]
  <2>1. top = [list EXCEPT !.level = IF height > @ THEN height ELSE @,
                           !.node[Header].level = new]
    BY DEF Raised
  <2> HIDE DEF new, top
  <2>2. DOMAIN list = {"level", "length", "tail", "node"}
    BY <1>1 DEF IsRecord
  <2>3. /\ DOMAIN top = {"level", "length", "tail", "node"}
        /\ top.level = IF height > list.level THEN height ELSE list.level
        /\ top.length = list.length /\ top.tail = list.tail
    BY <2>1, <2>2
  <2>4. top.node = [list.node EXCEPT ![Header].level = new]
    BY <2>1, <2>2
  <2>5. top.node = [x \in DOMAIN list.node |->
                 IF x = Header THEN [list.node[Header] EXCEPT !.level = new]
                 ELSE list.node[x]]
    BY <2>4, Zenon
  <2>6. top = [level |-> top.level, length |-> top.length, tail |-> top.tail,
               node |-> top.node]
    BY <2>1, <2>3
  <2> QED
    BY <2>3, <2>5, <2>6
<1>3. top.node[Header].level = new
  <2> HIDE DEF new
  <2> QED
    BY <1>1, <1>2 DEF IsRecord
<1> HIDE DEF top
<1>4. \A i \in 1..MaxLevel : ~(list.level < i /\ i <= height) => new[i] = list.node[Header].level[i]
  OBVIOUS
<1>5. \A i \in 1..MaxLevel : list.level < i /\ i <= height => new[i] = Link(None, n)
  BY <1>1
<1>6. \A x \in Members(list) : top.node[x] = list.node[x]
  BY <1>2 DEF Members
<1> QED
  <2>1. DOMAIN new = 1..MaxLevel
    OBVIOUS
  <2> HIDE DEF new
  <2> QED
    BY <1>1, <1>2, <1>3, <1>4, <1>5, <1>6, <2>1 DEF top

\* The link of place p on level i when zsl_insert relinks it; a level that comes
\* into use starts as a link of the header over the whole list.
OldLink(list, q, n, i, p) ==
    IF i <= list.level THEN list.node[At(q, n, p)].level[i] ELSE Link(None, n)

\* The places zsl_insert relinks on each level: the last before the new node.
Behind(list, q, n, k, R) ==
    /\ R \in [1..MaxLevel -> 0..k] /\ R[1] = k
    /\ \A i \in 1..list.level : LastOf(list, q, n, i, k, R[i])
    /\ \A i \in (list.level + 1)..MaxLevel : R[i] = 0

\* What zsl_insert makes of a list, place by place, when the new node m goes behind
\* place k.
Inserts(list, new, q, n, k, R, score, m, height) ==
    /\ IsRecord(new)
    /\ new.level = IF height > list.level THEN height ELSE list.level
    /\ new.length = n + 1
    /\ new.tail = IF k = n THEN m ELSE list.tail
    /\ DOMAIN new.node = DOMAIN list.node \cup {m}
    /\ new.node[m].score = score
    /\ new.node[m].backward = IF k = 0 THEN None ELSE q[k]
    /\ DOMAIN new.node[m].level = 1..height
    /\ \A i \in 1..height :
          new.node[m].level[i] = Link(OldLink(list, q, n, i, R[i]).forward,
                                      OldLink(list, q, n, i, R[i]).span - (k - R[i]))
    /\ \A p \in 1..n :
          /\ new.node[q[p]].score = list.node[q[p]].score
          /\ new.node[q[p]].backward = IF p = k + 1 THEN m ELSE list.node[q[p]].backward
    /\ \A p \in 0..n : DOMAIN new.node[At(q, n, p)].level = DOMAIN list.node[At(q, n, p)].level
    /\ \A p \in 0..n, i \in 1..new.level : Reaches(list, q, n, i, p) =>
          new.node[At(q, n, p)].level[i] =
              IF p # R[i] THEN list.node[At(q, n, p)].level[i]
              ELSE IF i <= height THEN Link(m, k - p + 1)
              ELSE Link(OldLink(list, q, n, i, p).forward, OldLink(list, q, n, i, p).span + 1)
    /\ \A i \in (new.level + 1)..MaxLevel :
          new.node[Header].level[i] = list.node[Header].level[i]

\* zsl_insert changes the list as Inserts says: one link on every level, those the search
\* ended at, and the backward link behind the new node.
LEMMA InsertIs ==
    ASSUME NEW list, NEW d, NEW q, NEW n, Shape(list, d, q, n),
           NEW score \in Score, NEW m \in Member, d[m] = None, NEW height \in 1..MaxLevel,
           NEW k \in 0..n, \A p \in 1..n : node_lt(list.node, q[p], score, m) <=> p <= k
    PROVE  \E R : /\ Behind(list, q, n, k, R)
                  /\ Inserts(list, zsl_insert(list, score, m, height), q, n, k, R, score, m, height)
<1> DEFINE L == list.level
           path == Update(list, score, m)
           top == Raised(list, height)
           update(i) == IF i <= list.level THEN path[i] ELSE Place(Header, 0)
           between(i) == path[1].rank - update(i).rank
           old(i) == top.node[update(i).at].level[i]
           next == old(1).forward
           relinked(i, link) == IF i <= height THEN Link(m, between(i) + 1)
                                ELSE Link(link.forward, link.span + 1)
           fresh == [score |-> score,
                     backward |-> IF path[1].at = Header THEN None ELSE path[1].at,
                     level |-> [i \in 1..height |->
                                   Link(old(i).forward, old(i).span - between(i))]]
           kept(x) == [score |-> top.node[x].score,
                       backward |-> IF x = next THEN m ELSE top.node[x].backward,
                       level |-> [i \in DOMAIN top.node[x].level |->
                          IF i <= top.level /\ update(i).at = x
                            THEN relinked(i, top.node[x].level[i])
                            ELSE top.node[x].level[i]]]
           new == zsl_insert(list, score, m, height)
<1>1. new = [level |-> top.level, length |-> top.length + 1,
             tail |-> IF next = None THEN m ELSE top.tail,
             node |-> [x \in DOMAIN top.node \cup {m} |-> IF x = m THEN fresh ELSE kept(x)]]
  BY DEF zsl_insert
<1>2. /\ n \in Nat /\ k \in 0..n /\ L \in 1..MaxLevel /\ MaxLevel \in Nat
      /\ m # Header /\ m # None
      /\ \A p \in 1..n : q[p] # m
  <2>1. InOrder(d, q, n)
    BY DEF Shape
  <2>2. \A p \in 1..n : d[q[p]] # None
    BY <2>1, Distinct, Constants
  <2> QED
    BY <2>2, Places, Constants DEF Shape, Heights
<1>3. PICK last \in [1..L -> 0..k] :
              /\ \A i \in 1..L : LastOf(list, q, n, i, k, last[i])
              /\ last[1] = k
              /\ path = [i \in 1..L |-> Stand(q, n, last[i])]
  <2> HIDE DEF path
  <2> QED
    BY UpdateOK DEF path
<1> DEFINE R == [i \in 1..MaxLevel |-> IF i <= L THEN last[i] ELSE 0]
<1>4. Behind(list, q, n, k, R)
  BY <1>2, <1>3 DEF Behind
<1> HIDE DEF path
<1>5. \A i \in 1..MaxLevel : update(i).at = At(q, n, R[i]) /\ update(i).rank = R[i]
  <2> TAKE i \in 1..MaxLevel
  <2>1. CASE i <= L
    BY <1>2, <1>3, <2>1 DEF Stand, Place
  <2>2. CASE ~(i <= L)
    BY <1>2, <2>2, Places DEF Place
  <2> QED
    BY <2>1, <2>2
<1>6. path[1].at = At(q, n, k) /\ path[1].rank = k
  BY <1>2, <1>3 DEF Stand, Place
<1> HIDE DEF R
<1>7. R \in [1..MaxLevel -> 0..k]
  BY <1>4 DEF Behind
<1>8. \A i \in 1..MaxLevel : between(i) = k - R[i]
  BY <1>5, <1>6
<1>9. /\ top.level = IF height > L THEN height ELSE L
      /\ top.length = n /\ top.tail = list.tail
      /\ DOMAIN top.node = DOMAIN list.node
      /\ \A x \in Members(list) : top.node[x] = list.node[x]
      /\ DOMAIN top.node[Header].level = 1..MaxLevel
      /\ \A i \in 1..MaxLevel : ~(L < i /\ i <= height) =>
            top.node[Header].level[i] = list.node[Header].level[i]
      /\ \A i \in 1..MaxLevel : L < i /\ i <= height =>
            top.node[Header].level[i] = Link(None, n)
  BY RaisedOK
<1> HIDE DEF top
<1>10. \A p \in 1..n : At(q, n, p) = q[p] /\ q[p] \in Members(list) /\ top.node[q[p]] = list.node[q[p]]
  BY <1>9, Places
<1>11. At(q, n, 0) = Header
  BY Places
<1>12. ASSUME NEW i \in 1..MaxLevel, i <= L \/ i <= height
       PROVE  top.node[At(q, n, R[i])].level[i] = OldLink(list, q, n, i, R[i])
  <2>1. R[i] = 0 \/ R[i] \in 1..n
    BY <1>2, <1>7
  <2>2. i > L => R[i] = 0
    BY <1>2, <1>4 DEF Behind
  <2>3. CASE i <= L
    <3>1. top.node[At(q, n, R[i])].level[i] = list.node[At(q, n, R[i])].level[i]
      BY <1>2, <1>9, <1>10, <1>11, <2>1, <2>3
    <3> QED
      BY <2>3, <3>1 DEF OldLink
  <2>4. CASE i > L
    BY <1>2, <1>9, <1>11, <1>12, <2>2, <2>4 DEF OldLink
  <2> QED
    BY <1>2, <2>3, <2>4
<1>13. \A i \in 1..MaxLevel : i <= L \/ i <= height => old(i) = OldLink(list, q, n, i, R[i])
  BY <1>5, <1>12
<1>14. next = At(q, n, k + 1)
  <2>1. 1 \in 1..MaxLevel /\ 1 <= L /\ R[1] = k
    BY <1>2, <1>4 DEF Behind
  <2>2. old(1) = list.node[At(q, n, k)].level[1]
    BY <1>13, <2>1 DEF OldLink
  <2>3. list.node[At(q, n, k)].level[1].forward = At(q, n, k + 1)
    BY NextIs
  <2> HIDE DEF old
  <2> QED
    BY <2>2, <2>3
<1>15. /\ next = None <=> k = n
       /\ \A p \in 1..n : q[p] = next <=> p = k + 1
  <2>1. At(q, n, n + 1) = None /\ \A p, r \in 0..(n + 1) : At(q, n, p) = At(q, n, r) => p = r
    BY Places
  <2>2. k + 1 \in 0..(n + 1) /\ n + 1 \in 0..(n + 1)
    BY <1>2
  <2> HIDE DEF next
  <2>3. next = None <=> k = n
    BY <1>2, <1>14, <2>1, <2>2
  <2>4. ASSUME NEW p \in 1..n PROVE q[p] = next <=> p = k + 1
    <3>1. p \in 0..(n + 1)
      BY <1>2
    <3> QED
      BY <1>10, <1>14, <2>1, <2>2, <3>1
  <2> QED
    BY <2>3, <2>4
<1>16. fresh.backward = IF k = 0 THEN None ELSE q[k]
  <2>1. k = 0 \/ k \in 1..n
    BY <1>2
  <2>2. fresh.backward = IF path[1].at = Header THEN None ELSE path[1].at
    OBVIOUS
  <2> HIDE DEF fresh
  <2> QED
    BY <1>2, <1>6, <1>10, <1>11, <2>1, <2>2 DEF Members
<1>17. \A i \in 1..height :
          fresh.level[i] = Link(OldLink(list, q, n, i, R[i]).forward,
                                OldLink(list, q, n, i, R[i]).span - (k - R[i]))
  <2> TAKE i \in 1..height
  <2>1. i \in 1..MaxLevel /\ i <= height
    BY <1>2
  <2>2. fresh.level[i] = Link(old(i).forward, old(i).span - between(i))
    OBVIOUS
  <2> HIDE DEF fresh, old, between
  <2> QED
    BY <1>8, <1>13, <2>1, <2>2
<1>18. ASSUME NEW p \in 0..n
       PROVE  /\ At(q, n, p) # m /\ At(q, n, p) \in DOMAIN top.node
              /\ DOMAIN top.node[At(q, n, p)].level = DOMAIN list.node[At(q, n, p)].level
  <2>1. p = 0 \/ p \in 1..n
    BY <1>2
  <2>2. At(q, n, p) \in DOMAIN list.node
    BY Places
  <2>3. DOMAIN list.node[Header].level = 1..MaxLevel
    BY DEF Shape, Heights
  <2> QED
    BY <1>2, <1>9, <1>10, <1>11, <2>1, <2>2, <2>3
<1>19. /\ new.level = top.level /\ new.length = n + 1
       /\ new.tail = IF next = None THEN m ELSE top.tail
       /\ DOMAIN new.node = DOMAIN list.node \cup {m}
       /\ new.node[m] = fresh
       /\ \A p \in 0..n : new.node[At(q, n, p)] = kept(At(q, n, p))
  <2>1. new.node = [x \in DOMAIN top.node \cup {m} |-> IF x = m THEN fresh ELSE kept(x)]
    <3> HIDE DEF new, fresh, kept, next
    <3> QED
      BY <1>1
  <2>2. \A p \in 0..n : new.node[At(q, n, p)] = kept(At(q, n, p))
    <3> HIDE DEF new, fresh, kept, next
    <3> QED
      BY <1>18, <2>1
  <2>3. new.node[m] = fresh /\ DOMAIN new.node = DOMAIN list.node \cup {m}
    <3> HIDE DEF new, fresh, kept, next
    <3> QED
      BY <1>9, <2>1
  <2>4. new.level = top.level /\ new.length = n + 1 /\ new.tail = IF next = None THEN m ELSE top.tail
    <3> HIDE DEF new, fresh, kept, next
    <3> QED
      BY <1>1, <1>9
  <2> HIDE DEF new, fresh, kept, next
  <2> QED
    BY <2>2, <2>3, <2>4
<1>20. IsRecord(new)
  <2>1. new = [level |-> new.level, length |-> new.length, tail |-> new.tail, node |-> new.node]
    <3> HIDE DEF new, fresh, kept, next
    <3> QED
      BY <1>1
  <2>2. new.node[Header] = kept(Header)
    <3> HIDE DEF new, kept, fresh, next
    <3> QED
      BY <1>2, <1>11, <1>19
  <2>3. "level" \in DOMAIN kept(Header)
    OBVIOUS
  <2> HIDE DEF new, kept
  <2> QED
    BY <2>1, <2>2, <2>3 DEF IsRecord
<1>21. ASSUME NEW p \in 1..n
       PROVE  /\ new.node[q[p]].score = list.node[q[p]].score
              /\ new.node[q[p]].backward = IF p = k + 1 THEN m ELSE list.node[q[p]].backward
  <2>1. new.node[q[p]] = kept(q[p])
    <3> HIDE DEF new, kept, fresh, next
    <3> QED
      BY <1>2, <1>10, <1>19
  <2>2. /\ kept(q[p]).score = top.node[q[p]].score
        /\ kept(q[p]).backward = IF q[p] = next THEN m ELSE top.node[q[p]].backward
    <3> HIDE DEF next
    <3> QED
      OBVIOUS
  <2> HIDE DEF new, kept, next
  <2> QED
    BY <1>10, <1>15, <2>1, <2>2
<1>22. ASSUME NEW p \in 0..n
       PROVE  /\ DOMAIN new.node[At(q, n, p)].level = DOMAIN list.node[At(q, n, p)].level
              /\ \A i \in DOMAIN list.node[At(q, n, p)].level :
                   new.node[At(q, n, p)].level[i] =
                      IF i <= top.level /\ update(i).at = At(q, n, p)
                        THEN relinked(i, top.node[At(q, n, p)].level[i])
                      ELSE top.node[At(q, n, p)].level[i]
  <2> DEFINE x == At(q, n, p)
  <2>1. new.node[x] = kept(x)
    <3> HIDE DEF new, kept, fresh, next
    <3> QED
      BY <1>19
  <2>2. kept(x).level = [i \in DOMAIN top.node[x].level |->
                          IF i <= top.level /\ update(i).at = x
                            THEN relinked(i, top.node[x].level[i])
                            ELSE top.node[x].level[i]]
    <3> HIDE DEF next, relinked, update, x
    <3> QED
      OBVIOUS
  <2>3. DOMAIN top.node[x].level = DOMAIN list.node[x].level
    BY <1>18
  <2> HIDE DEF new, kept, relinked, update, x
  <2>4. new.node[x].level = [i \in DOMAIN list.node[x].level |->
                          IF i <= top.level /\ update(i).at = x
                            THEN relinked(i, top.node[x].level[i])
                            ELSE top.node[x].level[i]]
    BY <2>1, <2>2, <2>3
  <2>5. /\ DOMAIN new.node[x].level = DOMAIN list.node[x].level
        /\ \A i \in DOMAIN list.node[x].level :
                   new.node[x].level[i] =
                      IF i <= top.level /\ update(i).at = x
                        THEN relinked(i, top.node[x].level[i])
                      ELSE top.node[x].level[i]
    BY <2>4
  <2> QED
    BY <2>5 DEF x
<1>23. ASSUME NEW p \in 0..n, NEW i \in 1..top.level, Reaches(list, q, n, i, p)
       PROVE  new.node[At(q, n, p)].level[i] =
                 IF p # R[i] THEN list.node[At(q, n, p)].level[i]
                 ELSE IF i <= height THEN Link(m, k - p + 1)
                 ELSE Link(OldLink(list, q, n, i, p).forward, OldLink(list, q, n, i, p).span + 1)
  <2>1. i \in 1..MaxLevel /\ (i <= L \/ i <= height) /\ i <= top.level
    BY <1>2, <1>9
  <2>2. update(i).at = At(q, n, p) <=> p = R[i]
    <3>1. p \in 0..(n + 1) /\ R[i] \in 0..(n + 1)
      BY <1>2, <1>7, <2>1
    <3> HIDE DEF update
    <3> QED
      BY <1>5, <2>1, <3>1, Places
  <2>3. i \in DOMAIN list.node[At(q, n, p)].level
    BY <1>23 DEF Reaches
  <2>4. CASE p = R[i]
    <3>1. new.node[At(q, n, p)].level[i] = relinked(i, top.node[At(q, n, p)].level[i])
      <4> HIDE DEF new, relinked, update
      <4> QED
        BY <1>22, <2>1, <2>2, <2>3, <2>4
    <3>2. top.node[At(q, n, p)].level[i] = OldLink(list, q, n, i, p)
      BY <1>12, <2>1, <2>4
    <3>3. between(i) = k - p
      <4> HIDE DEF between
      <4> QED
        BY <1>8, <2>1, <2>4
    <3>4. relinked(i, top.node[At(q, n, p)].level[i]) =
             IF i <= height THEN Link(m, between(i) + 1)
             ELSE Link(OldLink(list, q, n, i, p).forward, OldLink(list, q, n, i, p).span + 1)
      <4> HIDE DEF between
      <4> QED
        BY <3>2
    <3> HIDE DEF new, relinked, between
    <3> QED
      BY <2>4, <3>1, <3>3, <3>4
  <2>5. CASE p # R[i]
    <3>1. new.node[At(q, n, p)].level[i] = top.node[At(q, n, p)].level[i]
      <4> HIDE DEF new, relinked, update
      <4> QED
        BY <1>22, <2>1, <2>2, <2>3, <2>5
    <3>2. top.node[At(q, n, p)].level[i] = list.node[At(q, n, p)].level[i]
      <4>1. CASE p = 0
        <5>1. i <= L
          BY <1>2, <1>4, <2>1, <2>5, <4>1 DEF Behind
        <5> QED
          BY <1>2, <1>9, <1>11, <2>1, <4>1, <5>1
      <4>2. CASE p \in 1..n
        BY <1>10, <4>2
      <4> QED
        BY <1>2, <4>1, <4>2
    <3> HIDE DEF new
    <3> QED
      BY <2>5, <3>1, <3>2
  <2> QED
    BY <2>4, <2>5
<1>24. ASSUME NEW i \in (top.level + 1)..MaxLevel
       PROVE  new.node[Header].level[i] = list.node[Header].level[i]
  <2>1. i \in 1..MaxLevel /\ ~(i <= top.level) /\ ~(L < i /\ i <= height)
    BY <1>2, <1>9
  <2>2. i \in DOMAIN list.node[Header].level
    BY <2>1 DEF Shape, Heights
  <2>3. new.node[Header].level[i] = top.node[Header].level[i]
    <3>1. 0 \in 0..n
      BY <1>2
    <3> HIDE DEF new, relinked, update
    <3> QED
      BY <1>11, <1>22, <2>1, <2>2, <3>1
  <2> HIDE DEF new
  <2> QED
    BY <1>9, <2>1, <2>3
<1>25. fresh.score = score /\ DOMAIN fresh.level = 1..height
  <2> HIDE DEF old, between
  <2> QED
    OBVIOUS
<1>26. Inserts(list, new, q, n, k, R, score, m, height)
  <2> HIDE DEF new, fresh, kept, next, update, between, old, relinked
  <2>1. new.tail = IF k = n THEN m ELSE list.tail
    BY <1>9, <1>15, <1>19
  <2> QED
    BY <1>9, <1>16, <1>17, <1>19, <1>20, <1>21, <1>22, <1>23, <1>24, <1>25, <2>1 DEF Inserts
<1> QED
  BY <1>4, <1>26

\* The sequence with m behind its first k, and where its other places come to be.
Inserted(q, n, k, m) ==
    [p \in 1..(n + 1) |-> IF p <= k THEN q[p] ELSE IF p = k + 1 THEN m ELSE q[p - 1]]

Moved(k, p) == IF p <= k THEN p ELSE p + 1

\* The new member is at its place in the order.
LEMMA InsertOrder ==
    ASSUME NEW list, NEW d, NEW q, NEW n, Shape(list, d, q, n),
           NEW score \in Score, NEW m \in Member, d[m] = None,
           NEW k \in 0..n, \A p \in 1..n : node_lt(list.node, q[p], score, m) <=> p <= k
    PROVE  InOrder([d EXCEPT ![m] = score], Inserted(q, n, k, m), n + 1)
<1> DEFINE d2 == [d EXCEPT ![m] = score]
           q2 == Inserted(q, n, k, m)
<1>1. /\ n \in Nat /\ q \in [1..n -> Member] /\ InOrder(d, q, n)
      /\ d \in [Member -> Score \cup {None}]
      /\ \A x \in Member : d[x] # None <=> \E p \in 1..n : q[p] = x
  BY DEF Shape, InOrder
<1>2. \A p \in 1..n : q[p] # m /\ d2[q[p]] = d[q[p]] /\ q[p] \in Member
  <2>1. \A p \in 1..n : q[p] \in Member /\ d[q[p]] # None
    BY <1>1
  <2> QED
    BY <1>1, <2>1
<1>3. d2[m] = score /\ d2 \in [Member -> Score \cup {None}]
  BY <1>1
<1>4. /\ score \in Int /\ m \in Int
      /\ \A p \in 1..n : d[q[p]] \in Int /\ q[p] \in Int
  <2>1. Score \subseteq Int /\ Member \subseteq Int
    BY Constants
  <2> QED
    BY <1>1, <2>1, Distinct
<1>5. \A p \in 1..n : p <= k <=> d[q[p]] < score \/ (d[q[p]] = score /\ q[p] < m)
  BY DEF node_lt, Shape, Nodes
<1> HIDE DEF d2
<1>6. \A p \in 1..n : (p <= k => Precedes(d2, q[p], m)) /\ (~(p <= k) => Precedes(d2, m, q[p]))
  BY <1>2, <1>3, <1>4, <1>5 DEF Precedes
<1>7. \A i, j \in 1..n : i < j => Precedes(d2, q[i], q[j])
  <2>1. \A i, j \in 1..n : i < j => Precedes(d, q[i], q[j])
    BY <1>1, Distinct
  <2> QED
    BY <1>2, <2>1 DEF Precedes
<1>8. /\ q2 \in [1..(n + 1) -> Member]
      /\ \A p \in 1..(n + 1) :
            q2[p] = IF p <= k THEN q[p] ELSE IF p = k + 1 THEN m ELSE q[p - 1]
  <2>1. \A p \in 1..(n + 1) : ~(p <= k) /\ p # k + 1 => p - 1 \in 1..n
    BY <1>1
  <2>2. \A p \in 1..(n + 1) : p <= k => p \in 1..n
    BY <1>1
  <2> QED
    BY <1>2, <2>1, <2>2 DEF Inserted
<1> HIDE DEF q2
<1>9. ASSUME NEW j \in 1..(n + 1), NEW i \in 1..(j - 1) PROVE Precedes(d2, q2[i], q2[j])
  <2>1. i \in 1..(n + 1) /\ i < j
    BY <1>1
  <2>2. CASE j <= k
    <3>1. i \in 1..n /\ j \in 1..n /\ i <= k
      BY <1>1, <2>1, <2>2
    <3> QED
      BY <1>7, <1>8, <2>1, <2>2, <3>1
  <2>3. CASE j = k + 1
    <3>1. i \in 1..n /\ i <= k
      BY <1>1, <2>1, <2>3
    <3> QED
      BY <1>6, <1>8, <2>1, <2>3, <3>1
  <2>4. CASE j > k + 1
    <3>1. j - 1 \in 1..n /\ ~(j - 1 <= k) /\ ~(j <= k) /\ j # k + 1
      BY <1>1, <2>4
    <3>2. q2[j] = q[j - 1]
      BY <1>8, <3>1
    <3>3. CASE i <= k
      <4>1. i \in 1..n /\ i < j - 1
        BY <1>1, <2>4, <3>3
      <4> QED
        BY <1>7, <1>8, <2>1, <3>1, <3>2, <3>3, <4>1
    <3>4. CASE i = k + 1
      <4>1. ~(i <= k)
        BY <3>4
      <4> QED
        BY <1>6, <1>8, <2>1, <3>1, <3>2, <3>4, <4>1
    <3>5. CASE i > k + 1
      <4>1. i - 1 \in 1..n /\ i - 1 < j - 1 /\ ~(i <= k) /\ i # k + 1
        BY <1>1, <2>1, <3>5
      <4> QED
        BY <1>7, <1>8, <2>1, <3>1, <3>2, <4>1
    <3> QED
      BY <2>1, <3>3, <3>4, <3>5
  <2> QED
    BY <2>2, <2>3, <2>4
<1>10. ASSUME NEW x \in Member PROVE d2[x] # None <=> \E p \in 1..(n + 1) : q2[p] = x
  <2>1. CASE x = m
    <3>1. d2[x] # None
      BY <1>3, <2>1, Constants
    <3>2. k + 1 \in 1..(n + 1) /\ q2[k + 1] = m
      BY <1>1, <1>8
    <3> QED
      BY <2>1, <3>1, <3>2
  <2>2. CASE x # m
    <3>1. d2[x] = d[x]
      BY <1>1, <2>2 DEF d2
    <3>2. ASSUME NEW p \in 1..n, q[p] = x PROVE \E r \in 1..(n + 1) : q2[r] = x
      <4>1. CASE p <= k
        BY <1>1, <1>8, <3>2, <4>1
      <4>2. CASE ~(p <= k)
        <5>1. p + 1 \in 1..(n + 1) /\ ~(p + 1 <= k) /\ p + 1 # k + 1 /\ (p + 1) - 1 = p
          BY <1>1, <4>2
        <5> QED
          BY <1>8, <3>2, <5>1
      <4> QED
        BY <4>1, <4>2
    <3>3. ASSUME NEW r \in 1..(n + 1), q2[r] = x PROVE \E p \in 1..n : q[p] = x
      <4>1. r # k + 1
        BY <1>8, <2>2, <3>3
      <4>2. CASE r <= k
        <5>1. r \in 1..n
          BY <1>1, <4>2
        <5> QED
          BY <1>8, <3>3, <4>2, <5>1
      <4>3. CASE ~(r <= k)
        <5>1. r - 1 \in 1..n
          BY <1>1, <4>1, <4>3
        <5> QED
          BY <1>8, <3>3, <4>1, <4>3, <5>1
      <4> QED
        BY <4>2, <4>3
    <3> QED
      BY <1>1, <3>1, <3>2, <3>3
  <2> QED
    BY <2>1, <2>2
<1> QED
  <2>1. n + 1 \in Nat
    BY <1>1
  <2> QED
    BY <1>3, <1>8, <1>9, <1>10, <2>1 DEF InOrder, d2, q2

\* The other places keep their nodes and levels; the new one has its own.
InsertMoves(list, new, q, n, k, m, height) ==
    LET q2 == Inserted(q, n, k, m)
    IN  /\ At(q2, n + 1, k + 1) = m
        /\ \A p \in 0..(n + 1) : At(q2, n + 1, Moved(k, p)) = At(q, n, p)
        /\ \A i : Reaches(new, q2, n + 1, i, k + 1) <=> i \in 1..height
        /\ \A i : \A p \in 0..n :
              Reaches(new, q2, n + 1, i, Moved(k, p)) <=> Reaches(list, q, n, i, p)

\* Where the places of the list come to be by an insertion.
LEMMA InsertPlaces ==
    ASSUME NEW list, NEW d, NEW q, NEW n, Shape(list, d, q, n),
           NEW new, NEW k \in 0..n, NEW R, NEW score, NEW m \in Member, NEW height,
           Inserts(list, new, q, n, k, R, score, m, height)
    PROVE  InsertMoves(list, new, q, n, k, m, height)
<1> DEFINE q2 == Inserted(q, n, k, m)
<1>1. n \in Nat /\ k \in 0..n
  BY Places
<1>2. At(q2, n + 1, k + 1) = m
  BY <1>1 DEF At, Inserted
<1>3. ASSUME NEW p \in 0..(n + 1) PROVE At(q2, n + 1, Moved(k, p)) = At(q, n, p)
  <2>1. CASE p = 0
    BY <1>1, <2>1 DEF At, Moved
  <2>2. CASE p \in 1..n /\ p <= k
    BY <1>1, <2>2 DEF At, Moved, Inserted
  <2>3. CASE p \in 1..n /\ ~(p <= k)
    <3>1. p + 1 \in 1..(n + 1) /\ ~(p + 1 <= k) /\ p + 1 # k + 1 /\ (p + 1) - 1 = p /\ p + 1 # 0
      BY <1>1, <2>3
    <3> QED
      BY <1>1, <2>3, <3>1 DEF At, Moved, Inserted
  <2>4. CASE p = n + 1
    BY <1>1, <2>4 DEF At, Moved
  <2> QED
    BY <1>1, <2>1, <2>2, <2>3, <2>4
<1>5. \A i : Reaches(new, q2, n + 1, i, k + 1) <=> i \in 1..height
  BY <1>2 DEF Reaches, Inserts
<1>6. \A i : \A p \in 0..n : Reaches(new, q2, n + 1, i, Moved(k, p)) <=> Reaches(list, q, n, i, p)
  <2>1. \A p \in 0..n : p \in 0..(n + 1)
    BY <1>1
  <2>2. \A p \in 0..n : DOMAIN new.node[At(q, n, p)].level = DOMAIN list.node[At(q, n, p)].level
    BY DEF Inserts
  <2> QED
    BY <1>3, <2>1, <2>2 DEF Reaches
<1> QED
  BY <1>2, <1>3, <1>5, <1>6 DEF InsertMoves

\* After an insertion every link leads to the next node with its level again.
LEMMA InsertLinks ==
    ASSUME NEW list, NEW d, NEW q, NEW n, Shape(list, d, q, n),
           NEW new, NEW k \in 0..n, NEW R, Behind(list, q, n, k, R),
           NEW score, NEW m \in Member, NEW height \in 1..MaxLevel,
           Inserts(list, new, q, n, k, R, score, m, height)
    PROVE  Links(new, Inserted(q, n, k, m), n + 1, new.level)
<1> DEFINE q2 == Inserted(q, n, k, m)
           Old(i, s) == Reaches(list, q, n, i, s)
           New(i, s) == Reaches(new, q2, n + 1, i, s)
           A(s) == At(q, n, s)
           B(s) == At(q2, n + 1, s)
           link(i, p) == new.node[A(p)].level[i]
<1>1. /\ n \in Nat /\ k \in 0..n /\ list.level \in 1..MaxLevel /\ MaxLevel \in Nat
      /\ new.level = IF height > list.level THEN height ELSE list.level
  BY Places, Constants DEF Shape, Heights, Inserts
<1>15. InsertMoves(list, new, q, n, k, m, height)
  BY InsertPlaces
<1>2. /\ B(k + 1) = m
      /\ \A s \in 0..k : B(s) = A(s)
      /\ \A s \in (k + 2)..(n + 2) : B(s) = A(s - 1)
  <2>1. \A s \in 0..k : s \in 0..(n + 1) /\ Moved(k, s) = s
    BY <1>1 DEF Moved
  <2>2. \A s \in (k + 2)..(n + 2) : s - 1 \in 0..(n + 1) /\ Moved(k, s - 1) = s
    BY <1>1 DEF Moved
  <2>3. B(k + 1) = m
    BY <1>15 DEF InsertMoves
  <2>5. \A p \in 0..(n + 1) : B(Moved(k, p)) = A(p)
    BY <1>15 DEF InsertMoves
  <2> HIDE DEF A, B
  <2>4. \A s \in (k + 2)..(n + 2) : B(s) = A(s - 1)
    BY <2>2, <2>5
  <2>6. \A s \in 0..k : B(s) = A(s)
    BY <2>1, <2>5
  <2> QED
    BY <2>3, <2>4, <2>6
<1>3. \A i : /\ New(i, k + 1) <=> i \in 1..height
             /\ \A s \in 0..k : New(i, s) <=> Old(i, s)
             /\ \A s \in (k + 2)..(n + 1) : New(i, s) <=> Old(i, s - 1)
  <2>1. \A s \in 0..k : s \in 0..n /\ Moved(k, s) = s
    BY <1>1 DEF Moved
  <2>2. \A s \in (k + 2)..(n + 1) : s - 1 \in 0..n /\ Moved(k, s - 1) = s
    BY <1>1 DEF Moved
  <2>3. \A i : New(i, k + 1) <=> i \in 1..height
    BY <1>15 DEF InsertMoves
  <2>4. \A i : \A p \in 0..n : New(i, Moved(k, p)) <=> Old(i, p)
    BY <1>15 DEF InsertMoves
  <2> HIDE DEF New, Old
  <2>5. \A i : \A s \in (k + 2)..(n + 1) : New(i, s) <=> Old(i, s - 1)
    BY <2>2, <2>4
  <2>6. \A i : \A s \in 0..k : New(i, s) <=> Old(i, s)
    BY <2>1, <2>4
  <2> QED
    BY <2>3, <2>5, <2>6
<1>4. /\ \A i \in 1..height :
            new.node[m].level[i] = Link(OldLink(list, q, n, i, R[i]).forward,
                                        OldLink(list, q, n, i, R[i]).span - (k - R[i]))
      /\ \A p \in 0..n, i \in 1..new.level : Old(i, p) =>
            link(i, p) = IF p # R[i] THEN list.node[A(p)].level[i]
                         ELSE IF i <= height THEN Link(m, k - p + 1)
                         ELSE Link(OldLink(list, q, n, i, p).forward,
                                   OldLink(list, q, n, i, p).span + 1)
  BY DEF Inserts
<1>5. ASSUME NEW i \in 1..new.level
      PROVE  /\ i \in 1..MaxLevel /\ R[i] \in 0..k /\ Old(i, R[i])
             /\ \A s \in (R[i] + 1)..k : ~Old(i, s)
             /\ i <= list.level \/ (i <= height /\ R[i] = 0 /\ \A s \in 1..n : ~Old(i, s))
  <2>1. i \in 1..MaxLevel
    BY <1>1
  <2>2. R[i] \in 0..k
    BY <2>1 DEF Behind
  <2>3. CASE i <= list.level
    <3>1. LastOf(list, q, n, i, k, R[i])
      BY <2>1, <2>3 DEF Behind
    <3> QED
      BY <2>1, <2>2, <2>3, <3>1 DEF LastOf
  <2>4. CASE ~(i <= list.level)
    <3>1. i <= height /\ R[i] = 0
      BY <1>1, <2>1, <2>4 DEF Behind
    <3>2. \A s \in 1..n : ~Old(i, s)
      BY <1>1, <2>1, <2>4, Places
    <3>3. Old(i, 0)
      BY <2>1, Places
    <3>4. \A s \in (R[i] + 1)..k : s \in 1..n
      BY <1>1, <3>1
    <3> HIDE DEF Old
    <3> QED
      BY <2>1, <2>2, <3>1, <3>2, <3>3, <3>4
  <2> QED
    BY <2>3, <2>4
<1>6. ASSUME NEW i \in 1..list.level, NEW p \in 0..n, Old(i, p)
      PROVE  \E r \in (p + 1)..(n + 1) :
                /\ r <= n => Old(i, r)
                /\ \A s \in (p + 1)..(r - 1) : ~Old(i, s)
                /\ list.node[A(p)].level[i] = LinkTo(q, n, p, r)
  BY <1>6, LinkOK DEF Follows
<1> DEFINE Leads(i, s, l) == \E r : Follows(new, q2, n + 1, i, s, r) /\ l = LinkTo(q2, n + 1, s, r)
<1>7. ASSUME NEW i, NEW s \in 0..(n + 1), NEW r \in (s + 1)..(n + 2),
             r <= n + 1 => New(i, r), \A t \in (s + 1)..(r - 1) : ~New(i, t),
             NEW l, l = Link(B(r), (IF r > n + 1 THEN n + 1 ELSE r) - s)
      PROVE  Leads(i, s, l)
  <2>1. (n + 1) + 1 = n + 2
    BY <1>1
  <2>2. Follows(new, q2, n + 1, i, s, r)
    <3> HIDE DEF q2
    <3> QED
      BY <1>1, <1>7, <2>1 DEF Follows
  <2>3. l = LinkTo(q2, n + 1, s, r)
    <3> HIDE DEF q2
    <3> QED
      BY <1>7 DEF LinkTo
  <2> QED
    BY <2>2, <2>3
<1> HIDE DEF q2, Old, New, A, B, Leads
<1>8. ASSUME NEW i \in 1..new.level, NEW p \in 0..n, Old(i, p), p = R[i], i <= height
      PROVE  Leads(i, p, link(i, p))
  <2>1. link(i, p) = Link(m, k - p + 1)
    BY <1>4, <1>8
  <2>2. p \in 0..k /\ k + 1 \in (p + 1)..(n + 2) /\ p \in 0..(n + 1) /\ ~(k + 1 > n + 1)
        /\ (k + 1) - p = k - p + 1
    BY <1>1, <1>5, <1>8
  <2>3. New(i, k + 1)
    BY <1>1, <1>3, <1>8
  <2>4. \A t \in (p + 1)..(k + 1 - 1) : ~New(i, t)
    <3>1. \A t \in (p + 1)..(k + 1 - 1) : t \in 0..k /\ t \in (R[i] + 1)..k
      BY <1>1, <1>8, <2>2
    <3> QED
      BY <1>3, <1>5, <3>1
  <2>5. link(i, p) = Link(B(k + 1), (IF k + 1 > n + 1 THEN n + 1 ELSE k + 1) - p)
    BY <1>2, <2>1, <2>2
  <2> HIDE DEF link
  <2> QED
    BY <1>7, <2>2, <2>3, <2>4, <2>5
<1>9. ASSUME NEW i \in 1..new.level, NEW p \in 0..n, Old(i, p), ~(p = R[i] /\ i <= height)
      PROVE  i \in 1..list.level
  <2>1. CASE i <= list.level
    BY <1>1, <2>1
  <2>2. CASE i <= height /\ R[i] = 0 /\ \A s \in 1..n : ~Old(i, s)
    BY <1>1, <1>9, <2>2
  <2> QED
    BY <1>5, <2>1, <2>2
<1>10. ASSUME NEW i \in 1..new.level, NEW p \in 0..n, Old(i, p), p = R[i], ~(i <= height)
       PROVE  Leads(i, p, link(i, p))
  <2>1. i \in 1..list.level
    BY <1>9, <1>10
  <2>2. PICK r \in (p + 1)..(n + 1) :
                /\ r <= n => Old(i, r)
                /\ \A s \in (p + 1)..(r - 1) : ~Old(i, s)
                /\ list.node[A(p)].level[i] = LinkTo(q, n, p, r)
    BY <1>6, <1>10, <2>1
  <2>3. link(i, p) = Link(LinkTo(q, n, p, r).forward, LinkTo(q, n, p, r).span + 1)
    <3>1. OldLink(list, q, n, i, p) = LinkTo(q, n, p, r)
      BY <2>1, <2>2 DEF OldLink, A
    <3> HIDE DEF link
    <3> QED
      BY <1>4, <1>10, <3>1
  <2>4. link(i, p) = Link(A(r), (IF r > n THEN n ELSE r) - p + 1)
    BY <2>3 DEF LinkTo, Link, A
  <2>5. p <= k /\ r > k
    BY <1>1, <1>5, <1>10, <2>2
  <2>6. /\ r + 1 \in (p + 1)..(n + 2) /\ p \in 0..(n + 1)
        /\ r + 1 \in (k + 2)..(n + 2) /\ (r + 1) - 1 = r
        /\ (IF r + 1 > n + 1 THEN n + 1 ELSE r + 1) - p = (IF r > n THEN n ELSE r) - p + 1
        /\ r + 1 <= n + 1 => r <= n /\ r + 1 \in (k + 2)..(n + 1)
    BY <1>1, <2>2, <2>5
  <2>7. B(r + 1) = A(r)
    BY <1>2, <2>6
  <2>8. r + 1 <= n + 1 => New(i, r + 1)
    BY <1>3, <2>2, <2>6
  <2>9. ASSUME NEW t \in (p + 1)..(r + 1 - 1) PROVE ~New(i, t)
    <3>1. t <= k \/ t = k + 1 \/ t >= k + 2
      BY <1>1
    <3>2. CASE t <= k
      <4>1. t \in 0..k /\ t \in (R[i] + 1)..k
        BY <1>1, <1>10, <3>2
      <4> QED
        BY <1>3, <1>5, <4>1
    <3>3. CASE t = k + 1
      BY <1>3, <1>10, <3>3
    <3>4. CASE t >= k + 2
      <4>1. t \in (k + 2)..(n + 1) /\ t - 1 \in (p + 1)..(r - 1)
        BY <1>1, <2>2, <2>5, <3>4
      <4> QED
        BY <1>3, <2>2, <4>1
    <3> QED
      BY <3>1, <3>2, <3>3, <3>4
  <2>10. link(i, p) = Link(B(r + 1), (IF r + 1 > n + 1 THEN n + 1 ELSE r + 1) - p)
    BY <2>4, <2>6, <2>7
  <2> HIDE DEF link
  <2> QED
    BY <1>7, <2>6, <2>8, <2>9, <2>10
<1>11. ASSUME NEW i \in 1..new.level, NEW p \in 0..n, Old(i, p), p < R[i]
       PROVE  Leads(i, p, link(i, p))
  <2>1. i \in 1..list.level /\ p # R[i] /\ R[i] \in 0..k
    BY <1>1, <1>5, <1>9, <1>11
  <2>2. PICK r \in (p + 1)..(n + 1) :
                /\ r <= n => Old(i, r)
                /\ \A s \in (p + 1)..(r - 1) : ~Old(i, s)
                /\ list.node[A(p)].level[i] = LinkTo(q, n, p, r)
    BY <1>6, <1>11, <2>1
  <2>3. r <= R[i]
    BY <1>1, <1>5, <1>11, <2>1, <2>2
  <2>4. /\ r \in 0..k /\ p \in 0..k /\ p \in 0..(n + 1) /\ r \in (p + 1)..(n + 2)
        /\ ~(r > n + 1) /\ ~(r > n) /\ r <= n
    BY <1>1, <2>1, <2>2, <2>3
  <2>5. link(i, p) = Link(B(r), (IF r > n + 1 THEN n + 1 ELSE r) - p)
    <3>1. link(i, p) = LinkTo(q, n, p, r)
      BY <1>4, <1>11, <2>1, <2>2
    <3>2. LinkTo(q, n, p, r) = Link(A(r), r - p)
      BY <2>4 DEF LinkTo, A
    <3> QED
      BY <1>2, <2>4, <3>1, <3>2
  <2>6. New(i, r)
    BY <1>3, <2>2, <2>4
  <2>7. \A t \in (p + 1)..(r - 1) : ~New(i, t)
    <3>1. \A t \in (p + 1)..(r - 1) : t \in 0..k
      BY <1>1, <2>4
    <3> QED
      BY <1>3, <2>2, <3>1
  <2> HIDE DEF link
  <2> QED
    BY <1>7, <2>4, <2>5, <2>6, <2>7
<1>12. ASSUME NEW i \in 1..new.level, NEW p \in 0..n, Old(i, p), p > R[i]
       PROVE  p > k /\ Leads(i, p + 1, link(i, p))
  <2>1. i \in 1..list.level /\ p # R[i] /\ R[i] \in 0..k
    BY <1>1, <1>5, <1>9, <1>12
  <2>2. PICK r \in (p + 1)..(n + 1) :
                /\ r <= n => Old(i, r)
                /\ \A s \in (p + 1)..(r - 1) : ~Old(i, s)
                /\ list.node[A(p)].level[i] = LinkTo(q, n, p, r)
    BY <1>6, <1>12, <2>1
  <2>3. p > k
    BY <1>1, <1>5, <1>12, <2>1
  <2>4. /\ p + 1 \in 0..(n + 1) /\ r + 1 \in (p + 1 + 1)..(n + 2)
        /\ r + 1 \in (k + 2)..(n + 2) /\ (r + 1) - 1 = r
        /\ (IF r + 1 > n + 1 THEN n + 1 ELSE r + 1) - (p + 1) = (IF r > n THEN n ELSE r) - p
        /\ r + 1 <= n + 1 => r <= n /\ r + 1 \in (k + 2)..(n + 1)
    BY <1>1, <2>2, <2>3
  <2>5. link(i, p) = Link(B(r + 1), (IF r + 1 > n + 1 THEN n + 1 ELSE r + 1) - (p + 1))
    <3>1. link(i, p) = LinkTo(q, n, p, r)
      BY <1>4, <1>12, <2>1, <2>2
    <3>2. LinkTo(q, n, p, r) = Link(A(r), (IF r > n THEN n ELSE r) - p)
      BY DEF LinkTo, A
    <3>3. B(r + 1) = A(r)
      BY <1>2, <2>4
    <3> QED
      BY <2>4, <3>1, <3>2, <3>3
  <2>6. r + 1 <= n + 1 => New(i, r + 1)
    BY <1>3, <2>2, <2>4
  <2>7. \A t \in (p + 1 + 1)..(r + 1 - 1) : ~New(i, t)
    <3>1. \A t \in (p + 1 + 1)..(r + 1 - 1) : t \in (k + 2)..(n + 1) /\ t - 1 \in (p + 1)..(r - 1)
      BY <1>1, <2>2, <2>3
    <3> QED
      BY <1>3, <2>2, <3>1
  <2> HIDE DEF link
  <2> QED
    BY <1>7, <2>3, <2>4, <2>5, <2>6, <2>7
<1>13. ASSUME NEW i \in 1..new.level, i \in 1..height
       PROVE  Leads(i, k + 1, new.node[m].level[i])
  <2> DEFINE l == OldLink(list, q, n, i, R[i])
  <2>1. R[i] \in 0..n
    BY <1>1, <1>5
  <2> DEFINE Ahead(r) == /\ r <= n => Old(i, r)
                         /\ \A s \in (k + 1)..(r - 1) : ~Old(i, s)
                         /\ l = Link(A(r), (IF r > n THEN n ELSE r) - R[i])
  <2>2. PICK r \in (k + 1)..(n + 1) : Ahead(r)
    <3>1. CASE i <= list.level
      <4>1. PICK r \in (R[i] + 1)..(n + 1) :
                /\ r <= n => Old(i, r)
                /\ \A s \in (R[i] + 1)..(r - 1) : ~Old(i, s)
                /\ list.node[A(R[i])].level[i] = LinkTo(q, n, R[i], r)
        BY <1>1, <1>5, <1>6, <2>1, <3>1
      <4>2. r > k
        BY <1>1, <1>5, <4>1
      <4>3. r \in (k + 1)..(n + 1) /\ \A s \in (k + 1)..(r - 1) : s \in (R[i] + 1)..(r - 1)
        BY <1>1, <1>5, <4>1, <4>2
      <4>4. l = LinkTo(q, n, R[i], r)
        BY <3>1, <4>1 DEF OldLink, A
      <4> QED
        BY <4>1, <4>3, <4>4 DEF LinkTo, A
    <3>2. CASE ~(i <= list.level)
      <4>1. R[i] = 0 /\ \A s \in 1..n : ~Old(i, s)
        BY <1>5, <3>2
      <4>2. n + 1 \in (k + 1)..(n + 1) /\ ~(n + 1 <= n) /\ n - 0 = n /\ n + 1 > n
            /\ \A s \in (k + 1)..(n + 1 - 1) : s \in 1..n
        BY <1>1
      <4>3. l = Link(A(n + 1), n - R[i])
        <5>1. A(n + 1) = None
          BY <1>1, Places DEF A
        <5> QED
          BY <3>2, <4>1, <4>2, <5>1 DEF OldLink
      <4>4. Ahead(n + 1)
        <5> HIDE DEF l
        <5>1. ~(n + 1 <= n) /\ (IF n + 1 > n THEN n ELSE n + 1) = n
          BY <1>1
        <5>2. \A s \in (k + 1)..((n + 1) - 1) : ~Old(i, s)
          BY <1>1, <4>1
        <5>3. l = Link(A(n + 1), (IF n + 1 > n THEN n ELSE n + 1) - R[i])
          BY <4>3, <5>1
        <5>4. n + 1 <= n => Old(i, n + 1)
          BY <5>1
        <5> QED
          BY <5>2, <5>3, <5>4
      <4> HIDE DEF Ahead
      <4> QED
        BY <4>2, <4>4
    <3> QED
      BY <3>1, <3>2
  <2>3. new.node[m].level[i] = Link(l.forward, l.span - (k - R[i]))
    BY <1>4, <1>13
  <2> HIDE DEF l
  <2>4. new.node[m].level[i] = Link(A(r), (IF r > n THEN n ELSE r) - R[i] - (k - R[i]))
    BY <2>2, <2>3 DEF Link
  <2>5. /\ k + 1 \in 0..(n + 1) /\ r + 1 \in (k + 1 + 1)..(n + 2)
        /\ r + 1 \in (k + 2)..(n + 2) /\ (r + 1) - 1 = r
        /\ (IF r + 1 > n + 1 THEN n + 1 ELSE r + 1) - (k + 1)
              = (IF r > n THEN n ELSE r) - R[i] - (k - R[i])
        /\ r + 1 <= n + 1 => r <= n /\ r + 1 \in (k + 2)..(n + 1)
    BY <1>1, <2>1, <2>2
  <2>6. new.node[m].level[i] = Link(B(r + 1), (IF r + 1 > n + 1 THEN n + 1 ELSE r + 1) - (k + 1))
    BY <1>2, <2>4, <2>5
  <2>7. r + 1 <= n + 1 => New(i, r + 1)
    BY <1>3, <2>2, <2>5
  <2>8. \A t \in (k + 1 + 1)..(r + 1 - 1) : ~New(i, t)
    <3>1. \A t \in (k + 1 + 1)..(r + 1 - 1) : t \in (k + 2)..(n + 1) /\ t - 1 \in (k + 1)..(r - 1)
      BY <1>1, <2>2
    <3> QED
      BY <1>3, <2>2, <3>1
  <2> DEFINE nl == new.node[m].level[i]
  <2>9. k + 1 \in 0..(n + 1) /\ r + 1 \in (k + 1 + 1)..(n + 2)
    BY <2>5
  <2>10. nl = Link(B(r + 1), (IF r + 1 > n + 1 THEN n + 1 ELSE r + 1) - (k + 1))
    BY <2>6
  <2> HIDE DEF nl
  <2>11. Leads(i, k + 1, nl)
    BY <1>7, <2>7, <2>8, <2>9, <2>10
  <2> QED
    BY <2>11 DEF nl
<1>14. ASSUME NEW i \in 1..new.level, NEW s \in 0..(n + 1), New(i, s)
       PROVE  Leads(i, s, new.node[B(s)].level[i])
  <2>1. CASE s = k + 1
    <3>1. i \in 1..height
      BY <1>3, <1>14, <2>1
    <3> QED
      BY <1>2, <1>13, <2>1, <3>1
  <2>2. CASE s <= k
    <3>4. s \in 0..k /\ s \in 0..n
      BY <1>1, <2>2
    <3>1. s \in 0..k /\ s \in 0..n /\ B(s) = A(s) /\ Old(i, s)
      BY <1>2, <1>3, <1>14, <3>4
    <3>2. ~(s > R[i])
      BY <1>12, <2>2, <3>1, <1>1
    <3>3. s = R[i] \/ s < R[i]
      BY <1>1, <1>5, <3>2
    <3> QED
      BY <1>8, <1>10, <1>11, <3>1, <3>3
  <2>3. CASE s > k + 1
    <3>1. s \in (k + 2)..(n + 1) /\ s \in (k + 2)..(n + 2) /\ s - 1 \in 0..n /\ (s - 1) + 1 = s
      BY <1>1, <2>3
    <3>2. B(s) = A(s - 1) /\ Old(i, s - 1)
      BY <1>2, <1>3, <1>14, <3>1
    <3>3. s - 1 > R[i]
      BY <1>1, <1>5, <2>3
    <3>4. Leads(i, (s - 1) + 1, link(i, s - 1))
      BY <1>12, <3>1, <3>2, <3>3
    <3> QED
      BY <3>1, <3>2, <3>4
  <2> QED
    BY <1>1, <2>1, <2>2, <2>3
<1> QED
  BY <1>14 DEF Links, Leads, New, B, q2

\* After an insertion scores, backward links, tail and length are right.
LEMMA InsertNodes ==
    ASSUME NEW list, NEW d, NEW q, NEW n, Shape(list, d, q, n),
           NEW new, NEW k \in 0..n, NEW R, NEW score \in Score, NEW m \in Member, d[m] = None,
           NEW height, Inserts(list, new, q, n, k, R, score, m, height)
    PROVE  Nodes(new, [d EXCEPT ![m] = score], Inserted(q, n, k, m), n + 1)
<1> DEFINE d2 == [d EXCEPT ![m] = score]
           q2 == Inserted(q, n, k, m)
           B(s) == At(q2, n + 1, s)
<1>1. /\ n \in Nat /\ k \in 0..n /\ InOrder(d, q, n)
      /\ d \in [Member -> Score \cup {None}]
  BY Places DEF Shape, InOrder
<1>2. \A p \in 1..n : q[p] \in Member /\ d2[q[p]] = d[q[p]]
  <2>1. \A p \in 1..n : q[p] \in Member /\ d[q[p]] \in Score
    BY <1>1, Distinct
  <2>2. \A p \in 1..n : q[p] # m
    BY <2>1, Constants
  <2> QED
    BY <1>1, <2>1, <2>2
<1>3. d2[m] = score
  BY <1>1
<1> HIDE DEF d2
<1>4. /\ \A p \in 1..k : q2[p] = q[p]
      /\ q2[k + 1] = m
      /\ \A p \in (k + 2)..(n + 1) : q2[p] = q[p - 1]
  BY <1>1 DEF Inserted
<1>5. /\ B(k + 1) = m /\ \A p \in 0..(n + 1) : B(Moved(k, p)) = At(q, n, p)
  <2>1. InsertMoves(list, new, q, n, k, m, height)
    BY InsertPlaces
  <2>2. B(k + 1) = m
    BY <2>1 DEF InsertMoves
  <2> QED
    BY <2>1, <2>2 DEF InsertMoves
<1> HIDE DEF q2, B
<1>6. DOMAIN new.node = {B(p) : p \in 0..(n + 1)}
  <2>1. DOMAIN new.node = {At(q, n, p) : p \in 0..n} \cup {m}
    BY DEF Inserts, Shape, Nodes
  <2>2. ASSUME NEW p \in 0..n PROVE \E s \in 0..(n + 1) : B(s) = At(q, n, p)
    <3>1. Moved(k, p) \in 0..(n + 1) /\ p \in 0..(n + 1)
      BY <1>1 DEF Moved
    <3> QED
      BY <1>5, <3>1
  <2>3. k + 1 \in 0..(n + 1)
    BY <1>1
  <2>4. ASSUME NEW s \in 0..(n + 1) PROVE B(s) = m \/ \E p \in 0..n : B(s) = At(q, n, p)
    <3>1. CASE s <= k
      <4>1. s \in 0..n /\ s \in 0..(n + 1) /\ Moved(k, s) = s
        BY <1>1, <3>1 DEF Moved
      <4> QED
        BY <1>5, <4>1
    <3>2. CASE s = k + 1
      BY <1>5, <3>2
    <3>3. CASE s > k + 1
      <4>1. s - 1 \in 0..n /\ s - 1 \in 0..(n + 1) /\ Moved(k, s - 1) = s
        BY <1>1, <3>3 DEF Moved
      <4> QED
        BY <1>5, <4>1
    <3> QED
      BY <1>1, <3>1, <3>2, <3>3
  <2> QED
    BY <1>5, <2>1, <2>2, <2>3, <2>4
<1>7. new.tail = IF n + 1 = 0 THEN None ELSE q2[n + 1]
  <2>1. CASE k = n
    BY <1>1, <1>4, <2>1 DEF Inserts
  <2>2. CASE k # n
    <3>1. n + 1 \in (k + 2)..(n + 1) /\ (n + 1) - 1 = n /\ n # 0
      BY <1>1, <2>2
    <3>2. q2[n + 1] = q[n]
      BY <1>4, <3>1
    <3> QED
      BY <1>1, <2>2, <3>1, <3>2 DEF Inserts, Shape, Nodes
  <2> QED
    BY <2>1, <2>2
<1>8. \A p \in 1..n : /\ new.node[q[p]].score = d[q[p]]
                      /\ new.node[q[p]].backward =
                            IF p = k + 1 THEN m ELSE IF p = 1 THEN None ELSE q[p - 1]
  BY DEF Inserts, Shape, Nodes
<1>9. ASSUME NEW s \in 1..(n + 1)
      PROVE  /\ new.node[q2[s]].score = d2[q2[s]]
             /\ new.node[q2[s]].backward = IF s = 1 THEN None ELSE q2[s - 1]
  <2>1. CASE s <= k
    <3>1. s \in 1..k /\ s \in 1..n /\ s # k + 1 /\ (s # 1 => s - 1 \in 1..k)
      BY <1>1, <2>1
    <3> QED
      BY <1>2, <1>4, <1>8, <3>1
  <2>2. CASE s = k + 1
    <3>1. /\ new.node[m].score = score
          /\ new.node[m].backward = IF k = 0 THEN None ELSE q[k]
      BY DEF Inserts
    <3>2. s - 1 = k /\ (s = 1 <=> k = 0) /\ (k # 0 => k \in 1..k)
      BY <1>1, <2>2
    <3> QED
      BY <1>3, <1>4, <2>2, <3>1, <3>2
  <2>3. CASE s = k + 2
    <3>1. s \in (k + 2)..(n + 1) /\ s - 1 \in 1..n /\ s - 1 = k + 1 /\ s # 1
      BY <1>1, <2>3
    <3> QED
      BY <1>2, <1>4, <1>8, <3>1
  <2>4. CASE s > k + 2
    <3>1. /\ s \in (k + 2)..(n + 1) /\ s - 1 \in (k + 2)..(n + 1) /\ s - 1 \in 1..n
          /\ s - 1 # k + 1 /\ s # 1 /\ s - 1 # 1
      BY <1>1, <2>4
    <3>2. q2[s] = q[s - 1] /\ q2[s - 1] = q[(s - 1) - 1]
      BY <1>4, <3>1
    <3> QED
      BY <1>2, <1>8, <3>1, <3>2
  <2> QED
    BY <1>1, <2>1, <2>2, <2>3, <2>4
<1> QED
  BY <1>6, <1>7, <1>9 DEF Nodes, Inserts, d2, q2, B

\* zsl_insert puts the member where the order wants it.
LEMMA InsertOK ==
    ASSUME NEW list, NEW d, NEW q, NEW n, Shape(list, d, q, n),
           NEW score \in Score, NEW m \in Member, d[m] = None, NEW height \in 1..MaxLevel
    PROVE  \E q2 : Shape(zsl_insert(list, score, m, height), [d EXCEPT ![m] = score], q2, n + 1)
<1> DEFINE new == zsl_insert(list, score, m, height)
           d2 == [d EXCEPT ![m] = score]
<1>1. PICK k \in 0..n : \A p \in 1..n : node_lt(list.node, q[p], score, m) <=> p <= k
  BY SplitOK
<1>2. PICK R : /\ Behind(list, q, n, k, R)
               /\ Inserts(list, new, q, n, k, R, score, m, height)
  <2> HIDE DEF new
  <2> QED
    BY <1>1, InsertIs DEF new
<1> DEFINE q2 == Inserted(q, n, k, m)
<1> HIDE DEF new
<1>3. InOrder(d2, q2, n + 1)
  BY <1>1, InsertOrder
<1>4. Nodes(new, d2, q2, n + 1)
  BY <1>2, InsertNodes
<1>5. Links(new, q2, n + 1, new.level)
  BY <1>2, InsertLinks
<1>6. /\ n \in Nat /\ k \in 0..n /\ list.level \in 1..MaxLevel /\ MaxLevel \in Nat
      /\ new.level = IF height > list.level THEN height ELSE list.level
  BY <1>2, Places, Constants DEF Shape, Heights, Inserts
<1>7. InsertMoves(list, new, q, n, k, m, height)
  BY <1>2, InsertPlaces
<1>8. Heights(new, q2, n + 1)
  <2>1. new.level \in 1..MaxLevel
    BY <1>6
  <2>2. DOMAIN new.node[Header].level = 1..MaxLevel
    <3>1. At(q, n, 0) = Header /\ 0 \in 0..n
      BY <1>6, Places
    <3> QED
      BY <1>2, <3>1 DEF Inserts, Shape, Heights
  <2>3. \A p \in 1..n : \E h \in 1..list.level : DOMAIN new.node[q[p]].level = 1..h
    <3>1. \A p \in 1..n : p \in 0..n /\ At(q, n, p) = q[p]
      BY <1>6, Places
    <3> QED
      BY <1>2, <3>1 DEF Inserts, Shape, Heights
  <2>4. DOMAIN new.node[m].level = 1..height
    BY <1>2 DEF Inserts
  <2>5. ASSUME NEW s \in 1..(n + 1) PROVE \E h \in 1..new.level : DOMAIN new.node[q2[s]].level = 1..h
    <3>1. CASE s = k + 1
      <4>1. q2[s] = m /\ height \in 1..new.level
        BY <1>6, <3>1 DEF Inserted
      <4> QED
        BY <2>4, <4>1
    <3>2. CASE s # k + 1
      <4>1. PICK p \in 1..n : q2[s] = q[p]
        <5>1. CASE s <= k
          <6>1. s \in 1..n /\ q2[s] = q[s]
            BY <1>6, <5>1 DEF Inserted
          <6> QED
            BY <6>1
        <5>2. CASE s > k + 1
          <6>1. s - 1 \in 1..n /\ q2[s] = q[s - 1]
            BY <1>6, <5>2 DEF Inserted
          <6> QED
            BY <6>1
        <5> QED
          BY <1>6, <3>2, <5>1, <5>2
      <4>2. \A h \in 1..list.level : h \in 1..new.level
        BY <1>6
      <4> HIDE DEF q2
      <4> QED
        BY <2>3, <4>1, <4>2
    <3> QED
      BY <3>1, <3>2
  <2>6. new.level = 1 \/ \E s \in 1..(n + 1) : Reaches(new, q2, n + 1, new.level, s)
    <3>1. CASE height > list.level
      <4>1. k + 1 \in 1..(n + 1) /\ new.level \in 1..height
        BY <1>6, <3>1
      <4> QED
        BY <1>7, <4>1 DEF InsertMoves
    <3>2. CASE ~(height > list.level) /\ list.level # 1
      <4>1. PICK p \in 1..n : Reaches(list, q, n, list.level, p)
        BY <3>2 DEF Shape, Heights
      <4>2. Moved(k, p) \in 1..(n + 1) /\ p \in 0..n /\ new.level = list.level
        BY <1>6, <3>2 DEF Moved
      <4>3. Reaches(new, q2, n + 1, new.level, Moved(k, p))
        BY <1>7, <4>1, <4>2 DEF InsertMoves
      <4> QED
        BY <4>2, <4>3
    <3>3. CASE ~(height > list.level) /\ list.level = 1
      BY <1>6, <3>3
    <3> QED
      BY <3>1, <3>2, <3>3
  <2> HIDE DEF q2
  <2> QED
    BY <2>1, <2>2, <2>5, <2>6 DEF Heights
<1>9. ASSUME NEW i \in (new.level + 1)..MaxLevel PROVE new.node[Header].level[i].forward = None
  <2>1. i \in (list.level + 1)..MaxLevel
    BY <1>6
  <2> QED
    BY <1>2, <2>1 DEF Inserts, Shape
<1> QED
  BY <1>3, <1>4, <1>5, <1>8, <1>9 DEF Shape, new
-----------------------------------------------------------------------------
(* Deletion. *)

\* Behind the first k places is m, with its score.
Found(d, q, n, k, score, m) ==
    k + 1 \in 1..n /\ q[k + 1] = m /\ d[m] = score

\* What zsl_delete makes of a list, place by place, when the node m at place k + 1
\* goes.
Deletes(list, new, q, n, k, R, m) ==
    /\ IsRecord(new)
    /\ new.level = Max({i \in 2..list.level : new.node[Header].level[i].forward # None} \cup {1})
    /\ new.length = n - 1
    /\ new.tail = IF k + 1 = n THEN (IF k = 0 THEN None ELSE q[k]) ELSE list.tail
    /\ DOMAIN new.node = DOMAIN list.node \ {m}
    /\ \A p \in 1..n : p # k + 1 =>
          /\ new.node[q[p]].score = list.node[q[p]].score
          /\ new.node[q[p]].backward = IF p = k + 2 THEN (IF k = 0 THEN None ELSE q[k])
                                       ELSE list.node[q[p]].backward
    /\ \A p \in 0..n : p # k + 1 =>
          DOMAIN new.node[At(q, n, p)].level = DOMAIN list.node[At(q, n, p)].level
    /\ \A p \in 0..n, i \in 1..list.level : p # k + 1 /\ Reaches(list, q, n, i, p) =>
          new.node[At(q, n, p)].level[i] =
              IF p # R[i] THEN list.node[At(q, n, p)].level[i]
              ELSE Unlinked(i, list.node[At(q, n, p)].level[i], m, list.node[m])
    /\ \A i \in (list.level + 1)..MaxLevel :
          new.node[Header].level[i] = list.node[Header].level[i]

\* zsl_delete of a member of the list finds its node, and does this.
LEMMA DeleteIs ==
    ASSUME NEW list, NEW d, NEW q, NEW n, Shape(list, d, q, n),
           NEW score \in Score, NEW m \in Member,
           NEW k \in 0..n, Found(d, q, n, k, score, m),
           \A p \in 1..n : node_lt(list.node, q[p], score, m) <=> p <= k
    PROVE  \E R : /\ Behind(list, q, n, k, R)
                  /\ Deletes(list, zsl_delete(list, score, m), q, n, k, R, m)
<1> DEFINE L == list.level
           path == Update(list, score, m)
           x == list.node[path[1].at].level[1].forward
           gone == list.node[x]
           kept(y) == [score |-> list.node[y].score,
                       backward |-> Rebacked(list, y, x),
                       level |-> [i \in DOMAIN list.node[y].level |->
                           IF i <= list.level /\ path[i].at = y
                             THEN Unlinked(i, list.node[y].level[i], x, gone)
                             ELSE list.node[y].level[i]]]
           node == [y \in DOMAIN list.node \ {x} |-> kept(y)]
           used == {i \in 2..list.level : node[Header].level[i].forward # None}
           new == zsl_delete(list, score, m)
<1>1. new = IF x # m \/ gone.score # score THEN list
            ELSE [level |-> Max(used \cup {1}), length |-> list.length - 1,
                  tail |-> IF gone.level[1].forward = None THEN gone.backward ELSE list.tail,
                  node |-> node]
  BY DEF zsl_delete
<1>2. /\ n \in Nat /\ k \in 0..n /\ k + 1 \in 1..n /\ L \in 1..MaxLevel /\ MaxLevel \in Nat
      /\ m # Header /\ m # None /\ q[k + 1] = m /\ d[m] = score /\ list.length = n
      /\ \A p \in 1..n : q[p] = m <=> p = k + 1
  <2>1. InOrder(d, q, n)
    BY DEF Shape
  <2>2. \A i, j \in 1..n : q[i] = q[j] => i = j
    BY <2>1, Distinct
  <2>3. list.length = n
    BY DEF Shape, Nodes
  <2> QED
    BY <2>2, <2>3, Places, Constants DEF Found, Shape, Heights
<1>3. PICK last \in [1..list.level -> 0..k] :
              /\ \A i \in 1..list.level : LastOf(list, q, n, i, k, last[i])
              /\ last[1] = k
              /\ Update(list, score, m) = [i \in 1..list.level |-> Stand(q, n, last[i])]
  BY UpdateOK
<1> DEFINE R == [i \in 1..MaxLevel |-> IF i <= L THEN last[i] ELSE 0]
<1>4. Behind(list, q, n, k, R)
  <2>1. L \in 1..MaxLevel /\ MaxLevel \in Nat /\ n \in Nat /\ k \in 0..n
    BY <1>2
  <2>2. \A i \in 1..MaxLevel : i <= L => i \in 1..L /\ last[i] \in 0..k
    BY <1>3, <2>1
  <2>3. R \in [1..MaxLevel -> 0..k] /\ R[1] = k
    BY <1>3, <2>1, <2>2
  <2>4. \A i \in 1..L : R[i] = last[i]
    BY <2>1
  <2>5. \A i \in (L + 1)..MaxLevel : R[i] = 0
    BY <2>1
  <2> HIDE DEF R
  <2> QED
    BY <1>3, <2>3, <2>4, <2>5 DEF Behind
<1>5. \A i \in 1..L : path[i].at = At(q, n, R[i]) /\ R[i] \in 0..k
  <2>1. \A i \in 1..L : R[i] = last[i] /\ last[i] \in 0..k
    BY <1>2, <1>3
  <2>2. \A i \in 1..L : path[i] = Stand(q, n, last[i])
    BY <1>3
  <2>3. \A p : Stand(q, n, p).at = At(q, n, p)
    BY DEF Stand, Place
  <2> HIDE DEF path, R
  <2> QED
    BY <2>1, <2>2, <2>3
<1>6. R[1] = k
  BY <1>2, <1>3
<1> HIDE DEF path, R
<1>7. \A p \in 0..n : list.node[At(q, n, p)].level[1].forward = At(q, n, p + 1)
  BY NextIs
<1>8. At(q, n, k + 1) = m /\ k + 1 \in 0..n
  BY <1>2, Places
<1>9. x = m
  <2>1. path[1].at = At(q, n, k)
    BY <1>2, <1>5, <1>6
  <2> QED
    BY <1>2, <1>7, <1>8, <2>1
<1> HIDE DEF x
<1>10. /\ gone.score = score
       /\ gone.backward = IF k = 0 THEN None ELSE q[k]
       /\ gone.level[1].forward = At(q, n, k + 2)
  <2>1. /\ list.node[q[k + 1]].score = d[q[k + 1]]
        /\ list.node[q[k + 1]].backward = IF k + 1 = 1 THEN None ELSE q[(k + 1) - 1]
    BY <1>2 DEF Shape, Nodes
  <2>2. (k + 1 = 1 <=> k = 0) /\ (k + 1) - 1 = k /\ (k + 1) + 1 = k + 2
    BY <1>2
  <2>3. list.node[At(q, n, k + 1)].level[1].forward = At(q, n, (k + 1) + 1)
    BY <1>7, <1>8
  <2> QED
    BY <1>2, <1>8, <1>9, <2>1, <2>2, <2>3
<1>11. At(q, n, k + 2) = None <=> k + 1 = n
  <2>1. At(q, n, n + 1) = None /\ \A p, r \in 0..(n + 1) : At(q, n, p) = At(q, n, r) => p = r
    BY Places
  <2>2. k + 2 \in 0..(n + 1) /\ n + 1 \in 0..(n + 1) /\ (k + 2 = n + 1 <=> k + 1 = n)
    BY <1>2
  <2> QED
    BY <2>1, <2>2
<1>12. new = [level |-> Max(used \cup {1}), length |-> list.length - 1,
              tail |-> IF gone.level[1].forward = None THEN gone.backward ELSE list.tail,
              node |-> node]
  <2> HIDE DEF new, used, gone, node
  <2> QED
    BY <1>1, <1>9, <1>10
<1>13. /\ new.node = node /\ new.length = n - 1 /\ new.level = Max(used \cup {1})
       /\ new.tail = IF k + 1 = n THEN (IF k = 0 THEN None ELSE q[k]) ELSE list.tail
       /\ new = [level |-> new.level, length |-> new.length, tail |-> new.tail, node |-> new.node]
  <2> HIDE DEF new, used, gone, node
  <2> QED
    BY <1>2, <1>10, <1>11, <1>12
<1>14. ASSUME NEW p \in 0..n, p # k + 1
       PROVE  At(q, n, p) \in DOMAIN list.node \ {x} /\ At(q, n, p) # m
  <2>1. At(q, n, p) \in DOMAIN list.node
    BY Places
  <2>2. \A r, s \in 0..(n + 1) : At(q, n, r) = At(q, n, s) => r = s
    BY Places
  <2>3. p \in 0..(n + 1) /\ k + 1 \in 0..(n + 1)
    BY <1>2
  <2> QED
    BY <1>8, <1>9, <1>14, <2>1, <2>2, <2>3
<1>15. \A p \in 0..n : p # k + 1 => new.node[At(q, n, p)] = kept(At(q, n, p))
  <2> HIDE DEF new, kept
  <2> QED
    BY <1>13, <1>14
<1>16. DOMAIN new.node = DOMAIN list.node \ {m}
  <2> HIDE DEF new, kept
  <2> QED
    BY <1>9, <1>13
<1>17. used = {i \in 2..list.level : new.node[Header].level[i].forward # None}
  <2> HIDE DEF new, node
  <2> QED
    BY <1>13
<1>18. IsRecord(new)
  <2>1. At(q, n, 0) = Header /\ 0 \in 0..n /\ 0 # k + 1
    BY <1>2, Places
  <2>2. new.node[Header] = kept(Header)
    <3> HIDE DEF new, kept
    <3> QED
      BY <1>15, <2>1
  <2>3. "level" \in DOMAIN kept(Header)
    OBVIOUS
  <2> HIDE DEF new, kept
  <2> QED
    BY <1>13, <2>2, <2>3 DEF IsRecord
<1>19. ASSUME NEW p \in 1..n, p # k + 1
       PROVE  /\ new.node[q[p]].score = list.node[q[p]].score
              /\ new.node[q[p]].backward = IF p = k + 2 THEN (IF k = 0 THEN None ELSE q[k])
                                           ELSE list.node[q[p]].backward
  <2>1. q[p] = At(q, n, p) /\ p \in 0..n /\ p \in 0..(n + 1) /\ k + 2 \in 0..(n + 1)
    BY <1>2, Places
  <2>2. new.node[q[p]] = kept(q[p])
    <3> HIDE DEF new, kept
    <3> QED
      BY <1>15, <1>19, <2>1
  <2>3. kept(q[p]).score = list.node[q[p]].score /\ kept(q[p]).backward = Rebacked(list, q[p], x)
    OBVIOUS
  <2>4. Rebacked(list, q[p], x) = IF q[p] = gone.level[1].forward THEN gone.backward
                                  ELSE list.node[q[p]].backward
    BY DEF Rebacked
  <2>5. q[p] = At(q, n, k + 2) <=> p = k + 2
    <3>1. \A r, s \in 0..(n + 1) : At(q, n, r) = At(q, n, s) => r = s
      BY Places
    <3> QED
      BY <2>1, <3>1
  <2> HIDE DEF new, kept, gone
  <2> QED
    BY <1>10, <2>2, <2>3, <2>4, <2>5
<1>20. ASSUME NEW p \in 0..n, p # k + 1
       PROVE  /\ DOMAIN new.node[At(q, n, p)].level = DOMAIN list.node[At(q, n, p)].level
              /\ \A i \in DOMAIN list.node[At(q, n, p)].level :
                    new.node[At(q, n, p)].level[i] =
                       IF i <= list.level /\ path[i].at = At(q, n, p)
                         THEN Unlinked(i, list.node[At(q, n, p)].level[i], m, list.node[m])
                       ELSE list.node[At(q, n, p)].level[i]
  <2> DEFINE y == At(q, n, p)
  <2>1. new.node[y] = kept(y)
    <3> HIDE DEF new, kept
    <3> QED
      BY <1>15, <1>20
  <2>2. kept(y).level = [i \in DOMAIN list.node[y].level |->
                           IF i <= list.level /\ path[i].at = y
                             THEN Unlinked(i, list.node[y].level[i], m, list.node[m])
                             ELSE list.node[y].level[i]]
    <3> HIDE DEF y
    <3> QED
      BY <1>9
  <2> HIDE DEF new, kept, y
  <2>3. new.node[y].level = [i \in DOMAIN list.node[y].level |->
                           IF i <= list.level /\ path[i].at = y
                             THEN Unlinked(i, list.node[y].level[i], m, list.node[m])
                             ELSE list.node[y].level[i]]
    BY <2>1, <2>2
  <2>4. /\ DOMAIN new.node[y].level = DOMAIN list.node[y].level
        /\ \A i \in DOMAIN list.node[y].level :
                    new.node[y].level[i] =
                       IF i <= list.level /\ path[i].at = y
                         THEN Unlinked(i, list.node[y].level[i], m, list.node[m])
                       ELSE list.node[y].level[i]
    BY <2>3
  <2> QED
    BY <2>4 DEF y
<1>21. ASSUME NEW p \in 0..n, NEW i \in 1..L, p # k + 1, Reaches(list, q, n, i, p)
       PROVE  new.node[At(q, n, p)].level[i] =
                 IF p # R[i] THEN list.node[At(q, n, p)].level[i]
                 ELSE Unlinked(i, list.node[At(q, n, p)].level[i], m, list.node[m])
  <2>1. path[i].at = At(q, n, p) <=> p = R[i]
    <3>1. p \in 0..(n + 1) /\ R[i] \in 0..(n + 1)
      BY <1>2, <1>5
    <3>2. \A r, s \in 0..(n + 1) : At(q, n, r) = At(q, n, s) => r = s
      BY Places
    <3> QED
      BY <1>5, <3>1, <3>2
  <2>2. i \in DOMAIN list.node[At(q, n, p)].level /\ i <= list.level
    BY <1>2, <1>21 DEF Reaches
  <2> HIDE DEF new
  <2> QED
    BY <1>20, <1>21, <2>1, <2>2
<1>22. ASSUME NEW i \in (L + 1)..MaxLevel
       PROVE  new.node[Header].level[i] = list.node[Header].level[i]
  <2>1. i \in 1..MaxLevel /\ ~(i <= L)
    BY <1>2
  <2>2. i \in DOMAIN list.node[Header].level
    BY <2>1 DEF Shape, Heights
  <2>3. At(q, n, 0) = Header /\ 0 \in 0..n /\ 0 # k + 1
    BY <1>2, Places
  <2> HIDE DEF new
  <2> QED
    BY <1>20, <2>1, <2>2, <2>3
<1>23. Deletes(list, new, q, n, k, R, m)
  <2>1. \A p \in 0..n : p # k + 1 =>
          DOMAIN new.node[At(q, n, p)].level = DOMAIN list.node[At(q, n, p)].level
    BY <1>20
  <2>2. new.level = Max({i \in 2..list.level : new.node[Header].level[i].forward # None} \cup {1})
    BY <1>13, <1>17
  <2> HIDE DEF new
  <2> QED
    BY <1>13, <1>16, <1>18, <1>19, <1>21, <1>22, <2>1, <2>2 DEF Deletes
<1> QED
  BY <1>4, <1>23

\* The sequence without its place k + 1: Moved tells where its places were.
Deleted(q, n, k) == [p \in 1..(n - 1) |-> q[Moved(k, p)]]

\* Without m the other members are in order.
LEMMA DeleteOrder ==
    ASSUME NEW d, NEW q, NEW n, InOrder(d, q, n), NEW score \in Score, NEW m \in Member,
           NEW k \in 0..n, Found(d, q, n, k, score, m)
    PROVE  InOrder([d EXCEPT ![m] = None], Deleted(q, n, k), n - 1)
<1> DEFINE d2 == [d EXCEPT ![m] = None]
           q2 == Deleted(q, n, k)
<1>1. /\ n \in Nat /\ n - 1 \in Nat /\ k + 1 \in 1..n /\ q[k + 1] = m
      /\ d \in [Member -> Score \cup {None}] /\ q \in [1..n -> Member]
      /\ \A x \in Member : d[x] # None <=> \E p \in 1..n : q[p] = x
  BY DEF InOrder, Found
<1>2. d2 \in [Member -> Score \cup {None}] /\ d2[m] = None /\ \A x \in Member : x # m => d2[x] = d[x]
  BY <1>1
<1> HIDE DEF d2
<1>3. \A p \in 1..(n - 1) : Moved(k, p) \in 1..n /\ Moved(k, p) # k + 1
  BY <1>1 DEF Moved
<1>4. \A i, j \in 1..(n - 1) : i < j => Moved(k, i) < Moved(k, j)
  BY <1>1 DEF Moved
<1>5. /\ \A i, j \in 1..n : q[i] = q[j] => i = j
      /\ \A i, j \in 1..n : Precedes(d, q[i], q[j]) <=> i < j
  BY Distinct
<1>6. q2 \in [1..(n - 1) -> Member] /\ \A p \in 1..(n - 1) : q2[p] = q[Moved(k, p)]
  BY <1>1, <1>3 DEF Deleted
<1> HIDE DEF q2
<1>7. \A p \in 1..n : p # k + 1 => q[p] # m /\ d2[q[p]] = d[q[p]]
  BY <1>1, <1>2, <1>5
<1>8. ASSUME NEW j \in 1..(n - 1), NEW i \in 1..(j - 1) PROVE Precedes(d2, q2[i], q2[j])
  <2>1. i \in 1..(n - 1) /\ i < j
    BY <1>1
  <2>2. Precedes(d, q[Moved(k, i)], q[Moved(k, j)])
    BY <1>3, <1>4, <1>5, <2>1
  <2> QED
    BY <1>3, <1>6, <1>7, <2>1, <2>2 DEF Precedes
<1>9. ASSUME NEW x \in Member PROVE d2[x] # None <=> \E p \in 1..(n - 1) : q2[p] = x
  <2>1. CASE x = m
    <3>1. \A p \in 1..(n - 1) : q2[p] # m
      BY <1>3, <1>6, <1>7
    <3> QED
      BY <1>2, <2>1, <3>1
  <2>2. CASE x # m
    <3>1. d2[x] = d[x]
      BY <1>2, <2>2
    <3>2. ASSUME NEW p \in 1..n, q[p] = x PROVE \E r \in 1..(n - 1) : q2[r] = x
      <4>1. p # k + 1
        BY <1>1, <2>2, <3>2
      <4>2. CASE p <= k
        <5>1. p \in 1..(n - 1) /\ Moved(k, p) = p
          BY <1>1, <4>2 DEF Moved
        <5> QED
          BY <1>6, <3>2, <5>1
      <4>3. CASE ~(p <= k)
        <5>1. p - 1 \in 1..(n - 1) /\ Moved(k, p - 1) = p
          BY <1>1, <4>1, <4>3 DEF Moved
        <5> QED
          BY <1>6, <3>2, <5>1
      <4> QED
        BY <4>2, <4>3
    <3>3. ASSUME NEW r \in 1..(n - 1), q2[r] = x PROVE \E p \in 1..n : q[p] = x
      BY <1>3, <1>6, <3>3
    <3> QED
      BY <1>1, <3>1, <3>2, <3>3
  <2> QED
    BY <2>1, <2>2
<1> QED
  BY <1>1, <1>2, <1>6, <1>8, <1>9 DEF InOrder, d2, q2

\* The other places keep their nodes and levels.
DeleteMoves(list, new, q, n, k) ==
    LET q2 == Deleted(q, n, k)
    IN  /\ \A p \in 0..n : At(q2, n - 1, p) = At(q, n, Moved(k, p))
        /\ \A i : \A p \in 0..(n - 1) :
              Reaches(new, q2, n - 1, i, p) <=> Reaches(list, q, n, i, Moved(k, p))

\* Where the places of the list come to be by a deletion.
LEMMA DeletePlaces ==
    ASSUME NEW list, NEW d, NEW q, NEW n, Shape(list, d, q, n),
           NEW new, NEW k \in 0..n, k + 1 \in 1..n, NEW R, NEW m,
           Deletes(list, new, q, n, k, R, m)
    PROVE  DeleteMoves(list, new, q, n, k)
<1> DEFINE q2 == Deleted(q, n, k)
<1>1. n \in Nat /\ k \in 0..n /\ k + 1 \in 1..n
  BY Places
<1>2. ASSUME NEW p \in 0..n PROVE At(q2, n - 1, p) = At(q, n, Moved(k, p))
  <2>1. CASE p = 0
    BY <1>1, <2>1 DEF At, Moved
  <2>2. CASE p \in 1..(n - 1)
    <3>1. q2[p] = q[Moved(k, p)]
      BY <2>2 DEF Deleted
    <3>2. Moved(k, p) \in 1..n
      BY <1>1, <2>2 DEF Moved
    <3> HIDE DEF q2
    <3> QED
      BY <1>1, <2>2, <3>1, <3>2 DEF At
  <2>3. CASE p = n /\ n # 0
    BY <1>1, <2>3 DEF At, Moved
  <2> QED
    BY <1>1, <2>1, <2>2, <2>3
<1>3. ASSUME NEW i, NEW p \in 0..(n - 1)
      PROVE  Reaches(new, q2, n - 1, i, p) <=> Reaches(list, q, n, i, Moved(k, p))
  <2>1. p \in 0..n /\ Moved(k, p) \in 0..n /\ Moved(k, p) # k + 1
    BY <1>1 DEF Moved
  <2>2. DOMAIN new.node[At(q, n, Moved(k, p))].level = DOMAIN list.node[At(q, n, Moved(k, p))].level
    BY <2>1 DEF Deletes
  <2> HIDE DEF q2
  <2> QED
    BY <1>2, <2>1, <2>2 DEF Reaches
<1> QED
  BY <1>2, <1>3 DEF DeleteMoves

\* After a deletion every link leads to the next node with its level again.
LEMMA DeleteLinks ==
    ASSUME NEW list, NEW d, NEW q, NEW n, Shape(list, d, q, n),
           NEW new, NEW k \in 0..n, k + 1 \in 1..n, NEW R, Behind(list, q, n, k, R),
           NEW m, m = At(q, n, k + 1), Deletes(list, new, q, n, k, R, m)
    PROVE  Links(new, Deleted(q, n, k), n - 1, list.level)
<1> DEFINE q2 == Deleted(q, n, k)
           Old(i, s) == Reaches(list, q, n, i, s)
           New(i, s) == Reaches(new, q2, n - 1, i, s)
           A(s) == At(q, n, s)
           B(s) == At(q2, n - 1, s)
           upto(r) == IF r > n THEN n ELSE r
           Leads(i, s, l) == \E r : Follows(new, q2, n - 1, i, s, r) /\ l = LinkTo(q2, n - 1, s, r)
<1>1. /\ n \in Nat /\ n - 1 \in Nat /\ k \in 0..n /\ k + 1 \in 1..n
      /\ list.level \in 1..MaxLevel /\ MaxLevel \in Nat
  BY Places, Constants DEF Shape, Heights
<1>2. DeleteMoves(list, new, q, n, k)
  BY DeletePlaces
<1>3. /\ \A s \in 0..k : B(s) = A(s)
      /\ \A s \in (k + 1)..n : B(s) = A(s + 1)
  <2>1. \A p \in 0..n : B(p) = A(Moved(k, p))
    BY <1>2 DEF DeleteMoves
  <2>2. /\ \A s \in 0..k : s \in 0..n /\ Moved(k, s) = s
        /\ \A s \in (k + 1)..n : s \in 0..n /\ Moved(k, s) = s + 1
    BY <1>1 DEF Moved
  <2> HIDE DEF A, B
  <2> QED
    BY <2>1, <2>2
<1>4. \A i : /\ \A s \in 0..k : New(i, s) <=> Old(i, s)
             /\ \A s \in (k + 1)..(n - 1) : New(i, s) <=> Old(i, s + 1)
  <2>1. \A i : \A p \in 0..(n - 1) : New(i, p) <=> Old(i, Moved(k, p))
    BY <1>2 DEF DeleteMoves
  <2>2. /\ \A s \in 0..k : s \in 0..(n - 1) /\ Moved(k, s) = s
        /\ \A s \in (k + 1)..(n - 1) : s \in 0..(n - 1) /\ Moved(k, s) = s + 1
    BY <1>1 DEF Moved
  <2> HIDE DEF New, Old
  <2> QED
    BY <2>1, <2>2
<1>5. ASSUME NEW i \in 1..list.level
      PROVE  R[i] \in 0..k /\ Old(i, R[i]) /\ \A s \in (R[i] + 1)..k : ~Old(i, s)
  <2>1. R[i] \in 0..k /\ LastOf(list, q, n, i, k, R[i])
    BY <1>1 DEF Behind
  <2> QED
    BY <2>1 DEF LastOf
<1>6. ASSUME NEW i \in 1..list.level, NEW p \in 0..n, Old(i, p)
      PROVE  \E r \in (p + 1)..(n + 1) :
                /\ r <= n => Old(i, r)
                /\ \A s \in (p + 1)..(r - 1) : ~Old(i, s)
                /\ list.node[A(p)].level[i] = Link(A(r), upto(r) - p)
  BY <1>6, LinkOK DEF Follows, LinkTo
<1>7. \A p \in 0..n, i \in 1..list.level : p # k + 1 /\ Old(i, p) =>
          new.node[A(p)].level[i] =
              IF p # R[i] THEN list.node[A(p)].level[i]
              ELSE Unlinked(i, list.node[A(p)].level[i], m, list.node[m])
  BY DEF Deletes
<1>8. /\ A(k + 1) = m
      /\ \A r \in 0..(n + 1) : A(r) = m => r = k + 1
  <2>1. \A p, r \in 0..(n + 1) : At(q, n, p) = At(q, n, r) => p = r
    BY Places
  <2>2. k + 1 \in 0..(n + 1)
    BY <1>1
  <2> QED
    BY <2>1, <2>2
<1> HIDE DEF q2, Old, New, A, B
\* A link to a place behind the deleted one: it is one place nearer.
<1>9. ASSUME NEW i, NEW s \in 0..(n - 1), NEW r \in (k + 2)..(n + 1), s < r - 1,
             r <= n => Old(i, r), \A t \in (s + 1)..(r - 2) : ~New(i, t)
      PROVE  Leads(i, s, Link(A(r), upto(r) - 1 - s))
  <2>1. /\ r - 1 \in (s + 1)..((n - 1) + 1) /\ (r - 1) + 1 = r /\ r - 1 \in (k + 1)..n
        /\ r - 1 <= n - 1 => r <= n /\ r - 1 \in (k + 1)..(n - 1)
        /\ (IF r - 1 > n - 1 THEN n - 1 ELSE r - 1) - s = upto(r) - 1 - s
        /\ (r - 1) - 1 = r - 2
    BY <1>1, <1>9
  <2>2. B(r - 1) = A(r)
    BY <1>3, <2>1
  <2>3. r - 1 <= n - 1 => New(i, r - 1)
    BY <1>4, <1>9, <2>1
  <2>4. \A t \in (s + 1)..((r - 1) - 1) : ~New(i, t)
    BY <1>9, <2>1
  <2>5. Follows(new, q2, n - 1, i, s, r - 1)
    <3> HIDE DEF upto
    <3> QED
      BY <2>1, <2>3, <2>4 DEF Follows, New
  <2>6. LinkTo(q2, n - 1, s, r - 1) = Link(A(r), upto(r) - 1 - s)
    <3> HIDE DEF upto
    <3> QED
      BY <2>1, <2>2 DEF LinkTo, B
  <2> HIDE DEF upto
  <2> QED
    BY <2>5, <2>6
\* The links before the place whose link is changed.
<1>10. ASSUME NEW i \in 1..list.level, NEW p \in 0..n, Old(i, p), p < R[i]
       PROVE  Leads(i, p, new.node[A(p)].level[i])
  <2>1. PICK r \in (p + 1)..(n + 1) :
                /\ r <= n => Old(i, r)
                /\ \A s \in (p + 1)..(r - 1) : ~Old(i, s)
                /\ list.node[A(p)].level[i] = Link(A(r), upto(r) - p)
    BY <1>6, <1>10
  <2>2. R[i] \in 0..k /\ Old(i, R[i])
    BY <1>5
  <2>3. r <= R[i]
    <3>1. ~(R[i] \in (p + 1)..(r - 1))
      BY <2>1, <2>2
    <3> QED
      BY <1>1, <1>10, <2>1, <2>2, <3>1
  <2>4. /\ r \in 0..k /\ r <= n /\ r <= n - 1 /\ r \in (p + 1)..((n - 1) + 1) /\ upto(r) = r
        /\ \A s \in (p + 1)..(r - 1) : s \in 0..k
        /\ p # k + 1 /\ p # R[i] /\ ~(r > n - 1)
    BY <1>1, <1>10, <2>1, <2>2, <2>3
  <2>5. Follows(new, q2, n - 1, i, p, r)
    <3> HIDE DEF upto
    <3> QED
      BY <1>4, <2>1, <2>4 DEF Follows, New
  <2>6. new.node[A(p)].level[i] = Link(A(r), upto(r) - p)
    BY <1>7, <1>10, <2>1, <2>4
  <2>7. LinkTo(q2, n - 1, p, r) = Link(A(r), upto(r) - p)
    <3>1. B(r) = A(r)
      BY <1>3, <2>4
    <3> HIDE DEF upto
    <3> QED
      BY <2>4, <3>1 DEF LinkTo, B
  <2> HIDE DEF upto
  <2> QED
    BY <2>5, <2>6, <2>7
\* Those behind the deleted place.
<1>11. ASSUME NEW i \in 1..list.level, NEW s \in (k + 1)..(n - 1), Old(i, s + 1)
       PROVE  Leads(i, s, new.node[A(s + 1)].level[i])
  <2>1. s + 1 \in 0..n /\ s \in 0..(n - 1) /\ s + 1 # k + 1
    BY <1>1
  <2>2. PICK r \in (s + 1 + 1)..(n + 1) :
                /\ r <= n => Old(i, r)
                /\ \A t \in (s + 1 + 1)..(r - 1) : ~Old(i, t)
                /\ list.node[A(s + 1)].level[i] = Link(A(r), upto(r) - (s + 1))
    BY <1>6, <1>11, <2>1
  <2>3. s + 1 # R[i]
    <3>1. R[i] \in 0..k
      BY <1>5
    <3> QED
      BY <1>1, <3>1
  <2>4. new.node[A(s + 1)].level[i] = Link(A(r), upto(r) - (s + 1))
    BY <1>7, <1>11, <2>1, <2>2, <2>3
  <2>5. /\ r \in (k + 2)..(n + 1) /\ s < r - 1 /\ upto(r) - (s + 1) = upto(r) - 1 - s
        /\ \A t \in (s + 1)..(r - 2) : t \in (k + 1)..(n - 1) /\ t + 1 \in (s + 1 + 1)..(r - 1)
    BY <1>1, <2>2
  <2>6. \A t \in (s + 1)..(r - 2) : ~New(i, t)
    BY <1>4, <2>2, <2>5
  <2>7. r <= n => Old(i, r)
    BY <2>2
  <2> HIDE DEF Leads, upto
  <2> QED
    BY <1>9, <2>1, <2>4, <2>5, <2>6, <2>7
\* The link that led to the deleted place or over it.
<1>12. ASSUME NEW i \in 1..list.level
       PROVE  Leads(i, R[i], new.node[A(R[i])].level[i])
  <2> DEFINE p == R[i]
  <2>1. /\ p \in 0..k /\ p \in 0..n /\ p \in 0..(n - 1) /\ p # k + 1
        /\ Old(i, p) /\ \A s \in (p + 1)..k : ~Old(i, s)
    BY <1>1, <1>5
  <2> HIDE DEF p
  <2>2. PICK r \in (p + 1)..(n + 1) :
                /\ r <= n => Old(i, r)
                /\ \A s \in (p + 1)..(r - 1) : ~Old(i, s)
                /\ list.node[A(p)].level[i] = Link(A(r), upto(r) - p)
    BY <1>6, <2>1
  <2>3. r \in (k + 1)..(n + 1)
    BY <1>1, <2>1, <2>2
  <2>4. new.node[A(p)].level[i] = Unlinked(i, list.node[A(p)].level[i], m, list.node[m])
    BY <1>7, <2>1 DEF p
  <2>5. CASE r = k + 1
    <3>1. Old(i, k + 1) /\ k + 1 \in 0..n
      BY <1>1, <2>2, <2>5
    <3>2. PICK r2 \in (k + 1 + 1)..(n + 1) :
                /\ r2 <= n => Old(i, r2)
                /\ \A s \in (k + 1 + 1)..(r2 - 1) : ~Old(i, s)
                /\ list.node[A(k + 1)].level[i] = Link(A(r2), upto(r2) - (k + 1))
      BY <1>6, <3>1
    <3>3. new.node[A(p)].level[i] = Link(A(r2), (upto(r) - p) + (upto(r2) - (k + 1)) - 1)
      <4> HIDE DEF upto
      <4> QED
        BY <1>8, <2>2, <2>4, <2>5, <3>2 DEF Unlinked, Link
    <3>4. /\ r2 \in (k + 2)..(n + 1) /\ p < r2 - 1
          /\ (upto(r) - p) + (upto(r2) - (k + 1)) - 1 = upto(r2) - 1 - p
          /\ \A t \in (p + 1)..(r2 - 2) :
                (t \in (p + 1)..k /\ t \in 0..k)
                \/ (t \in (k + 1)..(n - 1) /\ t + 1 \in (k + 1 + 1)..(r2 - 1))
      BY <1>1, <2>1, <2>5, <3>2
    <3>5. \A t \in (p + 1)..(r2 - 2) : ~New(i, t)
      BY <1>4, <2>1, <3>2, <3>4
    <3>6. r2 <= n => Old(i, r2)
      BY <3>2
    <3>7. Leads(i, p, Link(A(r2), upto(r2) - 1 - p))
      <4> HIDE DEF Leads, upto
      <4> QED
        BY <1>9, <2>1, <3>4, <3>5, <3>6
    <3> HIDE DEF Leads, upto
    <3> QED
      BY <3>3, <3>4, <3>7 DEF p
  <2>6. CASE r # k + 1
    <3>1. A(r) # m /\ r \in (k + 2)..(n + 1)
      <4>1. r \in 0..(n + 1)
        BY <1>1, <2>3
      <4> QED
        BY <1>1, <1>8, <2>3, <2>6, <4>1
    <3>2. new.node[A(p)].level[i] = Link(A(r), upto(r) - p - 1)
      <4> HIDE DEF upto
      <4> QED
        BY <2>2, <2>4, <3>1 DEF Unlinked, Link
    <3>3. /\ p < r - 1 /\ upto(r) - p - 1 = upto(r) - 1 - p
          /\ \A t \in (p + 1)..(r - 2) :
                (t \in (p + 1)..(r - 1) /\ t \in 0..k)
                \/ (t \in (k + 1)..(n - 1) /\ t + 1 \in (p + 1)..(r - 1))
      BY <1>1, <2>1, <2>2, <3>1
    <3>4. \A t \in (p + 1)..(r - 2) : ~New(i, t)
      BY <1>4, <2>2, <3>3
    <3>5. r <= n => Old(i, r)
      BY <2>2
    <3>6. Leads(i, p, Link(A(r), upto(r) - 1 - p))
      <4> HIDE DEF Leads, upto
      <4> QED
        BY <1>9, <2>1, <3>1, <3>3, <3>4, <3>5
    <3> HIDE DEF Leads, upto
    <3> QED
      BY <3>2, <3>3, <3>6 DEF p
  <2> QED
    BY <2>5, <2>6
<1>13. ASSUME NEW i \in 1..list.level, NEW s \in 0..(n - 1), New(i, s)
       PROVE  Leads(i, s, new.node[B(s)].level[i])
  <2> HIDE DEF Leads
  <2>1. CASE s <= k
    <3>1. s \in 0..k /\ s \in 0..n
      BY <1>1, <2>1
    <3>2. B(s) = A(s) /\ Old(i, s)
      BY <1>3, <1>4, <1>13, <3>1
    <3>3. s < R[i] \/ s = R[i]
      <4>1. R[i] \in 0..k /\ ~(s \in (R[i] + 1)..k)
        BY <1>5, <3>2
      <4> QED
        BY <1>1, <3>1, <4>1
    <3> QED
      BY <1>10, <1>12, <3>1, <3>2, <3>3
  <2>2. CASE s > k
    <3>1. s \in (k + 1)..(n - 1) /\ s \in (k + 1)..n
      BY <1>1, <2>2
    <3>2. B(s) = A(s + 1) /\ Old(i, s + 1)
      BY <1>3, <1>4, <1>13, <3>1
    <3> QED
      BY <1>11, <3>1, <3>2
  <2> QED
    BY <1>1, <2>1, <2>2
<1> QED
  BY <1>13 DEF Links, Leads, New, B, q2

\* The other nodes keep their scores; the one behind m is linked back to the one
\* before m.
LEMMA DeleteNodes ==
    ASSUME NEW list, NEW d, NEW q, NEW n, Shape(list, d, q, n),
           NEW score \in Score, NEW m \in Member,
           NEW k \in 0..n, Found(d, q, n, k, score, m),
           NEW new, NEW R, Deletes(list, new, q, n, k, R, m)
    PROVE  Nodes(new, [d EXCEPT ![m] = None], Deleted(q, n, k), n - 1)
<1> DEFINE d2 == [d EXCEPT ![m] = None]
           q2 == Deleted(q, n, k)
           B(s) == At(q2, n - 1, s)
<1>1. /\ n \in Nat /\ n - 1 \in Nat /\ k \in 0..n /\ k + 1 \in 1..n /\ q[k + 1] = m
      /\ InOrder(d, q, n) /\ d \in [Member -> Score \cup {None}]
  BY Places DEF Shape, InOrder, Found
<1>2. \A p \in 1..n : p # k + 1 => q[p] # m /\ d2[q[p]] = d[q[p]]
  <2>1. \A i, j \in 1..n : q[i] = q[j] => i = j
    BY <1>1, Distinct
  <2>2. \A p \in 1..n : q[p] \in Member
    BY <1>1, Distinct
  <2> QED
    BY <1>1, <2>1, <2>2
<1> HIDE DEF d2
<1>3. /\ \A p \in 1..k : p \in 1..(n - 1) /\ q2[p] = q[p]
      /\ \A p \in (k + 1)..(n - 1) : p \in 1..(n - 1) /\ q2[p] = q[p + 1]
  BY <1>1 DEF Deleted, Moved
<1>4. \A p \in 0..n : B(p) = At(q, n, Moved(k, p))
  <2>1. DeleteMoves(list, new, q, n, k)
    BY <1>1, DeletePlaces
  <2> QED
    BY <2>1 DEF DeleteMoves
<1>5. /\ At(q, n, k + 1) = m
      /\ \A p, r \in 0..(n + 1) : At(q, n, p) = At(q, n, r) => p = r
      /\ DOMAIN list.node = {At(q, n, p) : p \in 0..n}
  BY <1>1, Places DEF Shape, Nodes
<1> HIDE DEF q2, B
<1>6. DOMAIN new.node = {B(p) : p \in 0..(n - 1)}
  <2>1. DOMAIN new.node = {At(q, n, p) : p \in 0..n} \ {m}
    BY <1>5 DEF Deletes
  <2>2. ASSUME NEW p \in 0..n, At(q, n, p) # m PROVE \E s \in 0..(n - 1) : B(s) = At(q, n, p)
    <3>1. p # k + 1
      BY <1>5, <2>2
    <3>2. CASE p <= k
      <4>1. p \in 0..(n - 1) /\ p \in 0..n /\ Moved(k, p) = p
        BY <1>1, <3>2 DEF Moved
      <4> QED
        BY <1>4, <4>1
    <3>3. CASE ~(p <= k)
      <4>1. p - 1 \in 0..(n - 1) /\ p - 1 \in 0..n /\ Moved(k, p - 1) = p
        BY <1>1, <3>1, <3>3 DEF Moved
      <4> QED
        BY <1>4, <4>1
    <3> QED
      BY <3>2, <3>3
  <2>3. ASSUME NEW s \in 0..(n - 1) PROVE B(s) # m /\ \E p \in 0..n : B(s) = At(q, n, p)
    <3>1. /\ s \in 0..n /\ Moved(k, s) \in 0..n /\ Moved(k, s) # k + 1
          /\ Moved(k, s) \in 0..(n + 1) /\ k + 1 \in 0..(n + 1)
      BY <1>1 DEF Moved
    <3> QED
      BY <1>4, <1>5, <3>1
  <2> QED
    BY <2>1, <2>2, <2>3
<1>7. new.tail = IF n - 1 = 0 THEN None ELSE q2[n - 1]
  <2>1. CASE k + 1 = n
    <3>1. n - 1 = k /\ (k # 0 => k \in 1..k)
      BY <1>1, <2>1
    <3> QED
      BY <1>3, <2>1, <3>1 DEF Deletes
  <2>2. CASE k + 1 # n
    <3>1. n - 1 \in (k + 1)..(n - 1) /\ (n - 1) + 1 = n /\ n # 0 /\ n - 1 # 0
      BY <1>1, <2>2
    <3>2. q2[n - 1] = q[n]
      BY <1>3, <3>1
    <3>3. list.tail = q[n]
      BY <3>1 DEF Shape, Nodes
    <3> QED
      BY <2>2, <3>1, <3>2, <3>3 DEF Deletes
  <2> QED
    BY <2>1, <2>2
<1>8. \A p \in 1..n : p # k + 1 =>
        /\ new.node[q[p]].score = d[q[p]]
        /\ new.node[q[p]].backward = IF p = k + 2 THEN (IF k = 0 THEN None ELSE q[k])
                                     ELSE IF p = 1 THEN None ELSE q[p - 1]
  BY DEF Deletes, Shape, Nodes
<1>9. ASSUME NEW s \in 1..(n - 1)
      PROVE  /\ new.node[q2[s]].score = d2[q2[s]]
             /\ new.node[q2[s]].backward = IF s = 1 THEN None ELSE q2[s - 1]
  <2>1. CASE s <= k
    <3>1. s \in 1..k /\ s \in 1..n /\ s # k + 1 /\ s # k + 2 /\ (s # 1 => s - 1 \in 1..k)
      BY <1>1, <2>1
    <3> QED
      BY <1>2, <1>3, <1>8, <3>1
  <2>2. CASE s = k + 1
    <3>1. /\ s \in (k + 1)..(n - 1) /\ s + 1 \in 1..n /\ s + 1 # k + 1 /\ s + 1 = k + 2
          /\ s - 1 = k /\ (s = 1 <=> k = 0) /\ (k # 0 => k \in 1..k)
      BY <1>1, <2>2
    <3>2. q2[s] = q[s + 1] /\ (k # 0 => q2[k] = q[k])
      BY <1>3, <3>1
    <3>3. new.node[q[s + 1]].backward = IF k = 0 THEN None ELSE q[k]
      BY <1>8, <3>1
    <3>4. new.node[q[s + 1]].score = d2[q[s + 1]]
      BY <1>2, <1>8, <3>1
    <3> QED
      BY <3>1, <3>2, <3>3, <3>4
  <2>3. CASE s > k + 1
    <3>1. /\ s \in (k + 1)..(n - 1) /\ s + 1 \in 1..n /\ s + 1 # k + 1 /\ s + 1 # k + 2
          /\ s - 1 \in (k + 1)..(n - 1) /\ (s - 1) + 1 = s /\ (s + 1) - 1 = s /\ s # 1 /\ s + 1 # 1
      BY <1>1, <2>3
    <3>2. q2[s] = q[s + 1] /\ q2[s - 1] = q[s]
      BY <1>3, <3>1
    <3>3. new.node[q[s + 1]].backward = q[s]
      BY <1>8, <3>1
    <3>4. new.node[q[s + 1]].score = d2[q[s + 1]]
      BY <1>2, <1>8, <3>1
    <3> QED
      BY <3>1, <3>2, <3>3, <3>4
  <2> QED
    BY <1>1, <2>1, <2>2, <2>3
<1>10. IsRecord(new) /\ new.length = n - 1
  BY DEF Deletes
<1> QED
  BY <1>6, <1>7, <1>9, <1>10 DEF Nodes, d2, q2, B

\* A set of levels has a greatest member.
LEMMA MaxIs ==
    ASSUME NEW N \in Nat, NEW S \in SUBSET (1..N), S # {}
    PROVE  Max(S) \in S /\ \A i \in S : i <= Max(S)
<1> DEFINE T == {N - i : i \in S}
<1>1. PICK b \in T : \A c \in T : b <= c
  <2>1. T \in SUBSET Nat /\ T # {}
    <3>1. \A i \in S : N - i \in Nat
      OBVIOUS
    <3> QED
      BY <3>1
  <2> HIDE DEF T
  <2> QED
    BY <2>1, LeastElement
<1>2. PICK x \in S : b = N - x
  BY <1>1
<1>3. ASSUME NEW y \in S PROVE x >= y
  <2>1. N - x <= N - y
    BY <1>1, <1>2
  <2> QED
    BY <2>1
<1>4. \E z \in S : \A y \in S : z >= y
  BY <1>3
<1>5. Max(S) \in S /\ \A y \in S : Max(S) >= y
  BY <1>4 DEF Max
<1> QED
  BY <1>5

\* zsl_delete takes a member out of the order.
LEMMA DeleteOK ==
    ASSUME NEW list, NEW d, NEW q, NEW n, Shape(list, d, q, n),
           NEW score \in Score, NEW m \in Member, d[m] = score
    PROVE  /\ n - 1 \in Nat
           /\ \E q2 : Shape(zsl_delete(list, score, m), [d EXCEPT ![m] = None], q2, n - 1)
<1> DEFINE new == zsl_delete(list, score, m)
           d2 == [d EXCEPT ![m] = None]
<1>1. PICK k \in 0..n : \A p \in 1..n : node_lt(list.node, q[p], score, m) <=> p <= k
  BY SplitOK
<1>2. n \in Nat /\ InOrder(d, q, n)
  BY Places DEF Shape
<1>3. Found(d, q, n, k, score, m)
  <2>1. PICK j \in 1..n : q[j] = m
    <3>1. d[m] # None
      BY Constants
    <3> QED
      BY <1>2, <3>1 DEF InOrder
  <2>2. \A p \in 1..n : p < j <=> p <= k
    <3>1. \A p \in 1..n : node_lt(list.node, q[p], score, m) <=> Precedes(d, q[p], q[j])
      BY <2>1 DEF node_lt, Precedes, Shape, Nodes
    <3>2. \A p \in 1..n : Precedes(d, q[p], q[j]) <=> p < j
      BY <1>2, Distinct
    <3> QED
      BY <1>1, <3>1, <3>2
  <2>3. k + 1 = j
    <3>1. j > k
      BY <1>2, <2>2
    <3>2. ~(k + 1 < j)
      <4>1. k + 1 < j => k + 1 \in 1..n
        BY <1>2
      <4> QED
        BY <1>2, <2>2, <4>1
    <3> QED
      BY <1>2, <3>1, <3>2
  <2> QED
    BY <2>1, <2>3 DEF Found
<1>4. PICK R : Behind(list, q, n, k, R) /\ Deletes(list, new, q, n, k, R, m)
  <2> HIDE DEF new
  <2> QED
    BY <1>1, <1>3, DeleteIs DEF new
<1> DEFINE q2 == Deleted(q, n, k)
<1> HIDE DEF new
<1>5. /\ n \in Nat /\ k + 1 \in 1..n /\ n - 1 \in Nat
      /\ m = q[k + 1] /\ m = At(q, n, k + 1)
  BY <1>2, <1>3, Places DEF Found
<1>6. InOrder(d2, q2, n - 1)
  BY <1>2, <1>3, DeleteOrder
<1>7. Nodes(new, d2, q2, n - 1)
  BY <1>3, <1>4, DeleteNodes
<1>8. Links(new, q2, n - 1, list.level)
  BY <1>4, <1>5, DeleteLinks
<1>9. DeleteMoves(list, new, q, n, k)
  BY <1>4, <1>5, DeletePlaces
<1>10. list.level \in 1..MaxLevel /\ MaxLevel \in Nat
  BY Constants DEF Shape, Heights
<1> DEFINE used == {i \in 2..list.level : new.node[Header].level[i].forward # None} \cup {1}
<1>11. /\ new.level \in used /\ \A i \in used : i <= new.level
       /\ new.level \in 1..list.level
  <2>1. used \in SUBSET (1..list.level) /\ used # {} /\ list.level \in Nat
    BY <1>10
  <2>2. new.level = Max(used)
    BY <1>4 DEF Deletes
  <2> HIDE DEF used
  <2> QED
    BY <2>1, <2>2, MaxIs
<1>12. At(q2, n - 1, 0) = Header /\ At(q, n, 0) = Header
  BY DEF At
<1>13. DOMAIN new.node[Header].level = 1..MaxLevel
  <2>1. 0 \in 0..n /\ 0 # k + 1
    BY <1>2
  <2> QED
    BY <1>4, <1>12, <2>1 DEF Deletes, Shape, Heights
<1>14. ASSUME NEW s \in 1..(n - 1)
       PROVE  q2[s] = At(q2, n - 1, s) /\ q2[s] \in Member
  <2>1. q2 \in [1..(n - 1) -> Member]
    BY <1>6 DEF InOrder
  <2> HIDE DEF q2
  <2> QED
    BY <1>5, <2>1 DEF At
\* The header's link on a level leads to a member if and only if one reaches it.
<1>15. ASSUME NEW i \in 1..list.level
       PROVE  new.node[Header].level[i].forward # None <=>
                  \E s \in 1..(n - 1) : Reaches(new, q2, n - 1, i, s)
  <2>1. Reaches(new, q2, n - 1, i, 0) /\ 0 \in 0..(n - 1)
    BY <1>5, <1>10, <1>12, <1>13 DEF Reaches
  <2>2. PICK r : /\ Follows(new, q2, n - 1, i, 0, r)
                 /\ new.node[Header].level[i] = LinkTo(q2, n - 1, 0, r)
    BY <1>8, <1>12, <2>1 DEF Links
  <2>3. new.node[Header].level[i].forward = At(q2, n - 1, r)
    BY <2>2 DEF LinkTo, Link
  <2>4. /\ r \in 1..n /\ (r <= n - 1 => Reaches(new, q2, n - 1, i, r))
        /\ \A s \in 1..(r - 1) : ~Reaches(new, q2, n - 1, i, s)
    BY <1>5, <2>2 DEF Follows
  <2> HIDE DEF q2
  <2>5. CASE r <= n - 1
    <3>1. r \in 1..(n - 1)
      BY <1>5, <2>4, <2>5
    <3> QED
      BY <1>14, <2>3, <2>4, <2>5, <3>1, Constants
  <2>6. CASE r = n
    <3>1. At(q2, n - 1, n) = None
      BY <1>5 DEF At
    <3> QED
      BY <2>3, <2>4, <2>6, <3>1
  <2> QED
    BY <1>5, <2>4, <2>5, <2>6
<1>16. Heights(new, q2, n - 1)
  <2>1. new.level \in 1..MaxLevel
    BY <1>10, <1>11
  <2>2. ASSUME NEW s \in 1..(n - 1) PROVE \E h \in 1..new.level : DOMAIN new.node[q2[s]].level = 1..h
    <3> DEFINE p == Moved(k, s)
    <3>1. p \in 1..n /\ p \in 0..n /\ p # k + 1
      BY <1>5 DEF Moved
    <3>2. q2[s] = q[p]
      BY DEF Deleted
    <3>3. At(q, n, p) = q[p]
      BY <3>1, Places
    <3>4. DOMAIN new.node[q[p]].level = DOMAIN list.node[q[p]].level
      <4> HIDE DEF p
      <4> QED
        BY <1>4, <3>1, <3>3 DEF Deletes
    <3> HIDE DEF p, q2
    <3>5. PICK h \in 1..list.level : DOMAIN list.node[q[p]].level = 1..h
      BY <3>1 DEF Shape, Heights
    <3>6. DOMAIN new.node[q2[s]].level = 1..h
      BY <3>2, <3>4, <3>5
    <3>7. h <= new.level
      <4>1. CASE h = 1
        BY <1>10, <1>11, <4>1
      <4>2. CASE h # 1
        <5>1. h \in 2..list.level /\ h \in 1..h
          BY <1>10, <4>2
        <5>2. Reaches(new, q2, n - 1, h, s)
          BY <1>14, <3>6, <5>1 DEF Reaches
        <5>3. h \in used
          BY <1>15, <5>1, <5>2
        <5> HIDE DEF used
        <5> QED
          BY <1>11, <5>3
      <4> QED
        BY <4>1, <4>2
    <3>8. h \in 1..new.level
      BY <1>10, <1>11, <3>7
    <3> QED
      BY <3>6, <3>8
  <2>3. new.level = 1 \/ \E s \in 1..(n - 1) : Reaches(new, q2, n - 1, new.level, s)
    <3> HIDE DEF q2
    <3> QED
      BY <1>11, <1>15
  <2> HIDE DEF q2
  <2> QED
    BY <1>13, <2>1, <2>2, <2>3 DEF Heights
<1>17. Links(new, q2, n - 1, new.level)
  <2>1. \A i \in 1..new.level : i \in 1..list.level
    BY <1>10, <1>11
  <2> HIDE DEF q2
  <2> QED
    BY <1>8, <2>1 DEF Links
<1>18. ASSUME NEW i \in (new.level + 1)..MaxLevel PROVE new.node[Header].level[i].forward = None
  <2>1. CASE i <= list.level
    <3>1. i \in 2..list.level /\ ~(i <= new.level)
      BY <1>10, <1>11, <2>1
    <3>2. i \notin used
      <4> HIDE DEF used
      <4> QED
        BY <1>11, <3>1
    <3> QED
      BY <3>1, <3>2
  <2>2. CASE i > list.level
    <3>1. i \in (list.level + 1)..MaxLevel
      BY <1>10, <1>11, <2>2
    <3> QED
      BY <1>4, <3>1 DEF Deletes, Shape
  <2> QED
    BY <1>10, <1>11, <2>1, <2>2
<1> QED
  BY <1>5, <1>6, <1>7, <1>16, <1>17, <1>18 DEF Shape, new

-----------------------------------------------------------------------------
(* The invariant. *)

\* An empty list is in shape.
LEMMA Initially == Init => Inv
<1> SUFFICES ASSUME Init PROVE Inv
  OBVIOUS
<1> DEFINE q == [p \in 1..0 |-> None]
<1>1. /\ zsl = zsl_create /\ dict = [m \in Member |-> None]
      /\ MaxLevel \in Nat \ {0} /\ Header # None
  BY Constants DEF Init
<1>2. InOrder(dict, q, 0) /\ q \in [1..0 -> Member]
  BY <1>1 DEF InOrder
<1>3. Nodes(zsl, dict, q, 0)
  <2>1. IsRecord(zsl) /\ zsl.length = 0 /\ zsl.tail = None
    BY <1>1 DEF zsl_create, IsRecord
  <2>2. DOMAIN zsl.node = {At(q, 0, p) : p \in 0..0}
    BY <1>1 DEF zsl_create, At
  <2> QED
    BY <2>1, <2>2 DEF Nodes
<1>4. /\ zsl.level = 1 /\ DOMAIN zsl.node[Header].level = 1..MaxLevel
      /\ \A i \in 1..MaxLevel : zsl.node[Header].level[i] = Link(None, 0)
  BY <1>1 DEF zsl_create
<1>5. Heights(zsl, q, 0)
  BY <1>1, <1>4 DEF Heights
<1>6. Links(zsl, q, 0, zsl.level)
  <2> SUFFICES ASSUME NEW i \in 1..1 PROVE
        \E r : /\ Follows(zsl, q, 0, i, 0, r)
               /\ zsl.node[At(q, 0, 0)].level[i] = LinkTo(q, 0, 0, r)
    BY <1>4 DEF Links
  <2>1. Follows(zsl, q, 0, i, 0, 1)
    BY DEF Follows
  <2>2. LinkTo(q, 0, 0, 1) = Link(None, 0)
    BY DEF LinkTo, At
  <2>3. zsl.node[At(q, 0, 0)].level[i] = Link(None, 0)
    BY <1>1, <1>4 DEF At
  <2> QED
    BY <2>1, <2>2, <2>3
<1>7. \A i \in (zsl.level + 1)..MaxLevel : zsl.node[Header].level[i].forward = None
  BY <1>1, <1>4 DEF Link
<1>8. Shape(zsl, dict, q, 0)
  BY <1>2, <1>3, <1>5, <1>6, <1>7 DEF Shape
<1> QED
  BY <1>2, <1>8 DEF Inv

\* Every step keeps the list in shape.
LEMMA Consecution == Inv /\ [Next]_vars => Inv'
<1> SUFFICES ASSUME Inv, [Next]_vars PROVE Inv'
  OBVIOUS
<1>1. PICK n \in Nat : \E q \in [1..n -> Member] : Shape(zsl, dict, q, n)
  BY DEF Inv
<1>8. PICK q : Shape(zsl, dict, q, n)
  BY <1>1
<1>2. ASSUME NEW n2 \in Nat, NEW q2, Shape(zsl', dict', q2, n2) PROVE Inv'
  <2>1. q2 \in [1..n2 -> Member]
    BY <1>2 DEF Shape, InOrder
  <2> QED
    BY <1>2, <2>1 DEF Inv
<1>3. dict \in [Member -> Score \cup {None}]
  BY <1>8 DEF Shape, InOrder
<1>4. ASSUME NEW m \in Member, NEW score \in Score, NEW height \in 1..MaxLevel,
             AddMember(m, score, height)
      PROVE  Inv'
  <2>1. \E q2 : Shape(zsl', dict', q2, n + 1)
    BY <1>8, <1>4, InsertOK DEF AddMember
  <2>2. n + 1 \in Nat
    OBVIOUS
  <2> QED
    BY <1>2, <2>1, <2>2
<1>5. ASSUME NEW m \in Member, NEW score \in Score, NEW height \in 1..MaxLevel,
             ChangeScore(m, score, height)
      PROVE  Inv'
  <2>1. PICK old \in Score : dict[m] = old
    BY <1>3, <1>5 DEF ChangeScore
  <2>2. PICK list : list = zsl_delete(zsl, old, m)
    OBVIOUS
  <2>3. PICK d : d = [dict EXCEPT ![m] = None]
    OBVIOUS
  <2>4. n - 1 \in Nat /\ \E q2 : Shape(list, d, q2, n - 1)
    BY <1>8, <2>1, <2>2, <2>3, DeleteOK
  <2>5. PICK q2 : Shape(list, d, q2, n - 1)
    BY <2>4
  <2>6. d[m] = None
    BY <1>3, <2>3
  <2>7. \E q3 : Shape(zsl_insert(list, score, m, height), [d EXCEPT ![m] = score], q3, (n - 1) + 1)
    BY <2>5, <2>6, InsertOK
  <2>8. zsl' = zsl_insert(list, score, m, height) /\ dict' = [d EXCEPT ![m] = score]
    BY <1>3, <1>5, <2>1, <2>2, <2>3 DEF ChangeScore
  <2>9. (n - 1) + 1 \in Nat
    BY <2>4
  <2> QED
    BY <1>2, <2>7, <2>8, <2>9
<1>6. ASSUME NEW m \in Member, zset_delete_member(m)
      PROVE  Inv'
  <2>1. PICK old \in Score : dict[m] = old
    BY <1>3, <1>6 DEF zset_delete_member
  <2>2. PICK list : list = zsl_delete(zsl, old, m)
    OBVIOUS
  <2>3. PICK d : d = [dict EXCEPT ![m] = None]
    OBVIOUS
  <2>4. n - 1 \in Nat /\ \E q2 : Shape(list, d, q2, n - 1)
    BY <1>8, <2>1, <2>2, <2>3, DeleteOK
  <2>5. list # zsl
    <3>1. list.length = n - 1 /\ zsl.length = n
      BY <1>8, <2>4 DEF Shape, Nodes
    <3> QED
      BY <3>1
  <2>6. zsl' = list /\ dict' = d
    BY <1>6, <2>1, <2>2, <2>3, <2>5 DEF zset_delete_member
  <2> QED
    BY <1>2, <2>4, <2>6
<1>7. CASE UNCHANGED vars
  <2>1. Shape(zsl', dict', q, n)
    BY <1>8, <1>7 DEF vars
  <2> QED
    BY <1>2, <2>1
<1> QED
  BY <1>4, <1>5, <1>6, <1>7 DEF Next

-----------------------------------------------------------------------------
(* The order is the one of Objects. *)

\* A set that is counted off by 1..n has n elements.
LEMMA CountIs ==
    ASSUME NEW n \in Nat, NEW T, NEW q \in [1..n -> T],
           \A t \in T : \E p \in 1..n : q[p] = t,
           \A i, j \in 1..n : q[i] = q[j] => i = j
    PROVE  Cardinality(T) = n
<1>1. ExistsBijection(1..n, T)
  <2>1. q \in Bijection(1..n, T)
    BY DEF Bijection, Injection, Surjection, IsInjective
  <2> QED
    BY <2>1 DEF ExistsBijection
<1>2. IsFiniteSet(1..n) /\ Cardinality(1..n) = n
  <2>1. IsFiniteSet(1..n) /\ Cardinality(1..n) = IF 1 > n THEN 0 ELSE n - 1 + 1
    BY FS_Interval
  <2> QED
    BY <2>1
<1> QED
  BY <1>1, <1>2, FS_Bijection

\* Only the identity maps 1..n into itself in order.
LEMMA Increasing ==
    ASSUME NEW n \in Nat, NEW f \in [1..n -> 1..n], \A i, j \in 1..n : i < j => f[i] < f[j]
    PROVE  \A p \in 1..n : f[p] = p
<1>1. ASSUME NEW p \in 1..n, f[p] < p PROVE FALSE
  <2> DEFINE Bad == {j \in 1..n : f[j] < j}
  <2>1. PICK j \in Bad : \A i \in Bad : j <= i
    <3>1. Bad \in SUBSET Nat /\ Bad # {}
      BY <1>1
    <3> HIDE DEF Bad
    <3> QED
      BY <3>1, LeastElement
  <2>2. j # 1 /\ j - 1 \in 1..n
    BY <2>1
  <2>3. f[j - 1] < f[j] /\ f[j - 1] \in 1..n /\ f[j] \in 1..n
    BY <2>1, <2>2
  <2>4. j - 1 \in Bad
    BY <2>1, <2>2, <2>3
  <2> QED
    BY <2>1, <2>4
<1>2. ASSUME NEW p \in 1..n, f[p] > p PROVE FALSE
  <2> DEFINE Bad == {c \in Nat : \E j \in 1..n : f[j] > j /\ c = n - j}
  <2>1. PICK b \in Bad : \A c \in Bad : b <= c
    <3>1. n - p \in Bad
      BY <1>2
    <3>2. Bad \in SUBSET Nat
      OBVIOUS
    <3> HIDE DEF Bad
    <3> QED
      BY <3>1, <3>2, LeastElement
  <2>2. PICK j \in 1..n : f[j] > j /\ b = n - j
    BY <2>1
  <2>3. f[j] \in 1..n /\ j + 1 \in 1..n
    BY <2>2
  <2>4. f[j] < f[j + 1] /\ f[j + 1] \in 1..n
    BY <2>2, <2>3
  <2>5. n - (j + 1) \in Bad
    BY <2>2, <2>3, <2>4
  <2>6. ~(b <= n - (j + 1))
    BY <2>2
  <2> HIDE DEF Bad
  <2> QED
    BY <2>1, <2>5, <2>6
<1> QED
  <2> TAKE p \in 1..n
  <2>1. f[p] \in 1..n /\ ~(f[p] < p) /\ ~(f[p] > p)
    BY <1>1, <1>2
  <2> QED
    BY <2>1

\* What is in order is what Ranked chooses: the order of the members is unique.
LEMMA RankedIs ==
    ASSUME NEW d, NEW n, NEW q, InOrder(d, q, n)
    PROVE  /\ Ranked(d) = q
           /\ Present(d) = {q[p] : p \in 1..n}
           /\ q \in Seq(Member) /\ Len(q) = n /\ DOMAIN q = 1..n
<1> DEFINE T == Present(d)
           Ordered(r) == \A j \in DOMAIN r : \A i \in 1..(j - 1) : Precedes(d, r[i], r[j])
<1>1. /\ n \in Nat /\ q \in [1..n -> Member] /\ d \in [Member -> Score \cup {None}]
      /\ \A m \in Member : d[m] # None <=> \E p \in 1..n : q[p] = m
      /\ \A i, j \in 1..n : q[i] = q[j] => i = j
      /\ \A i, j \in 1..n : Precedes(d, q[i], q[j]) <=> i < j
  <2>1. /\ \A i, j \in 1..n : q[i] = q[j] => i = j
        /\ \A i, j \in 1..n : Precedes(d, q[i], q[j]) <=> i < j
    BY Distinct
  <2> QED
    BY <2>1 DEF InOrder
<1>13. Ordered(q)
  <2>1. DOMAIN q = 1..n
    BY <1>1
  <2> QED
    BY <2>1 DEF InOrder
<1>2. T = {q[p] : p \in 1..n}
  BY <1>1 DEF Present
<1> HIDE DEF T
<1>3. Cardinality(T) = n
  <2>1. q \in [1..n -> T] /\ \A t \in T : \E p \in 1..n : q[p] = t
    BY <1>1, <1>2
  <2> QED
    BY <1>1, <2>1, CountIs
<1>4. Ranked(d) = CHOOSE r \in [1..n -> T] : Ordered(r)
  BY <1>3 DEF Ranked, T
<1>5. q \in [1..n -> T]
  BY <1>1, <1>2
<1>6. PICK r \in [1..n -> T] : r = Ranked(d) /\ Ordered(r)
  <2>1. \E r \in [1..n -> T] : Ordered(r)
    BY <1>5, <1>13
  <2> HIDE DEF Ordered
  <2> QED
    BY <1>4, <2>1
<1> DEFINE f == [p \in 1..n |-> CHOOSE j \in 1..n : q[j] = r[p]]
<1>7. \A p \in 1..n : f[p] \in 1..n /\ q[f[p]] = r[p]
  <2> TAKE p \in 1..n
  <2>1. \E j \in 1..n : q[j] = r[p]
    BY <1>2, <1>6
  <2> QED
    BY <2>1
<1>8. f \in [1..n -> 1..n]
  <2>1. f = [p \in 1..n |-> f[p]]
    OBVIOUS
  <2> HIDE DEF f
  <2> QED
    BY <1>7, <2>1
<1> HIDE DEF f
<1>9. \A i, j \in 1..n : i < j => f[i] < f[j]
  <2> TAKE i, j \in 1..n
  <2> HAVE i < j
  <2>1. i \in 1..(j - 1) /\ DOMAIN r = 1..n
    BY <1>1, <1>6
  <2>2. Precedes(d, r[i], r[j])
    BY <1>6, <2>1
  <2> QED
    BY <1>1, <1>7, <2>2
<1>10. \A p \in 1..n : f[p] = p
  BY <1>1, <1>8, <1>9, Increasing
<1>11. r = q
  BY <1>1, <1>6, <1>7, <1>10
<1>12. q \in Seq(Member) /\ Len(q) = n /\ DOMAIN q = 1..n
  BY <1>1, AsSequence
<1> QED
  BY <1>2, <1>6, <1>11, <1>12 DEF T

\* A least and a greatest number are the only ones.
LEMMA MinMaxIs ==
    ASSUME NEW S \in SUBSET Int, NEW x \in S
    PROVE  /\ (\A y \in S : x <= y) => Min(S) = x
           /\ (\A y \in S : y <= x) => Max(S) = x
<1>1. ASSUME \A y \in S : x <= y PROVE Min(S) = x
  <2>1. Min(S) \in S /\ \A y \in S : Min(S) <= y
    BY <1>1 DEF Min
  <2>2. Min(S) \in Int /\ x \in Int /\ x <= Min(S) /\ Min(S) <= x
    BY <1>1, <2>1
  <2> QED
    BY <2>2
<1>2. ASSUME \A y \in S : y <= x PROVE Max(S) = x
  <2>1. Max(S) \in S /\ \A y \in S : Max(S) >= y
    BY <1>2 DEF Max
  <2>2. Max(S) \in Int /\ x \in Int /\ x <= Max(S) /\ Max(S) <= x
    BY <1>2, <2>1
  <2> QED
    BY <2>2
<1> QED
  BY <1>1, <1>2

\* The list holds the members as Ranked has them.
LEMMA InvRanked ==
    ASSUME Inv
    PROVE  /\ Shape(zsl, dict, Ranked(dict), Len(Ranked(dict)))
           /\ Len(Ranked(dict)) \in Nat
           /\ Ranked(dict) \in Seq(Member)
           /\ Ranked(dict) \in [1..Len(Ranked(dict)) -> Member]
<1>1. PICK n \in Nat : \E q \in [1..n -> Member] : Shape(zsl, dict, q, n)
  BY DEF Inv
<1>2. PICK q \in [1..n -> Member] : Shape(zsl, dict, q, n)
  BY <1>1
<1>3. Ranked(dict) = q /\ Len(q) = n /\ q \in Seq(Member)
  BY <1>2, RankedIs DEF Shape
<1> QED
  BY <1>2, <1>3

\* A list in shape is well linked.
LEMMA ShapeLinked == Inv => WellLinked
<1> SUFFICES ASSUME Inv PROVE WellLinked
  OBVIOUS
<1> DEFINE q == Ranked(dict)
           n == Len(q)
           at(p) == IF p = 0 THEN Header ELSE q[p]
           high == [p \in 0..n |-> DOMAIN zsl.node[at(p)].level]
<1>1. Shape(zsl, dict, q, n)
  BY InvRanked
<1>2. n \in Nat
  BY InvRanked
<1> HIDE DEF q, n
<1>4. \A p \in 0..n : at(p) = At(q, n, p)
  BY DEF At
<1>5. DOMAIN zsl.node = {at(p) : p \in 0..n} /\ zsl.length = n
  <2>1. DOMAIN zsl.node = {At(q, n, p) : p \in 0..n} /\ zsl.length = n
    BY <1>1 DEF Shape, Nodes
  <2> HIDE DEF at
  <2> QED
    BY <1>4, <2>1
<1>6. \A p \in 0..n : high[p] = DOMAIN zsl.node[At(q, n, p)].level
  <2> HIDE DEF at
  <2> QED
    BY <1>4
<1> HIDE DEF high
<1>7. \A i : \A p \in 0..n : i \in high[p] <=> Reaches(zsl, q, n, i, p)
  BY <1>6 DEF Reaches
<1>8. ASSUME NEW p \in 0..n, NEW i \in 1..zsl.level, i \in high[p]
      PROVE  LET later == {r \in (p + 1)..n : i \in high[r]}
             IN  zsl.node[at(p)].level[i] = IF later = {} THEN Link(None, n - p)
                                            ELSE Link(at(Min(later)), Min(later) - p)
  <2> DEFINE later == {r \in (p + 1)..n : i \in high[r]}
  <2>1. PICK r \in (p + 1)..(n + 1) :
              /\ Follows(zsl, q, n, i, p, r)
              /\ zsl.node[At(q, n, p)].level[i] = LinkTo(q, n, p, r)
    BY <1>1, <1>7, <1>8, LinkOK
  <2>2. /\ r <= n => i \in high[r]
        /\ \A s \in (p + 1)..n : s < r => i \notin high[s]
    <3>1. r <= n => r \in 0..n
      BY <2>1
    <3>2. \A s \in (p + 1)..n : s < r => s \in 0..n /\ s \in (p + 1)..(r - 1)
      BY <2>1
    <3> QED
      BY <1>7, <2>1, <3>1, <3>2 DEF Follows
  <2>3. CASE r = n + 1
    <3>1. later = {}
      BY <1>2, <2>2, <2>3
    <3>2. LinkTo(q, n, p, r) = Link(None, n - p)
      BY <1>2, <2>3 DEF LinkTo, At
    <3> QED
      BY <1>4, <2>1, <3>1, <3>2
  <2>4. CASE r \in 1..n
    <3>1. r \in later /\ later \in SUBSET Int /\ \A s \in later : r <= s
      BY <2>1, <2>2, <2>4
    <3>2. Min(later) = r /\ later # {}
      <4> HIDE DEF later
      <4> QED
        BY <3>1, MinMaxIs
    <3>3. LinkTo(q, n, p, r) = Link(at(r), r - p)
      BY <1>2, <2>4 DEF LinkTo, At
    <3> HIDE DEF later, at
    <3> QED
      BY <1>4, <2>1, <3>2, <3>3 DEF later
  <2> QED
    BY <1>2, <2>1, <2>3, <2>4
<1>9. zsl.level = Max({1} \cup UNION {high[p] : p \in 1..n})
  <2> DEFINE S == {1} \cup UNION {high[p] : p \in 1..n}
  <2>1. zsl.level \in 1..MaxLevel /\ MaxLevel \in Nat
    BY <1>1, Constants DEF Shape, Heights
  <2>2. \A i \in S : i \in 1..zsl.level
    <3>1. ASSUME NEW p \in 1..n, NEW i \in high[p] PROVE i \in 1..zsl.level
      <4>1. PICK h \in 1..zsl.level : DOMAIN zsl.node[q[p]].level = 1..h
        BY <1>1 DEF Shape, Heights
      <4>2. p \in 0..n /\ At(q, n, p) = q[p]
        BY DEF At
      <4> QED
        BY <1>6, <2>1, <3>1, <4>1, <4>2
    <3> QED
      BY <2>1, <3>1
  <2>3. zsl.level \in S
    <3>1. zsl.level = 1 \/ \E p \in 1..n : Reaches(zsl, q, n, zsl.level, p)
      BY <1>1 DEF Shape, Heights
    <3>2. \A p \in 1..n : p \in 0..n
      OBVIOUS
    <3> QED
      BY <1>7, <3>1, <3>2
  <2> HIDE DEF S
  <2>4. S \in SUBSET Int /\ \A y \in S : y <= zsl.level
    BY <2>1, <2>2
  <2>5. Max(S) = zsl.level
    BY <2>3, <2>4, MinMaxIs
  <2> QED
    BY <2>5 DEF S
<1> QED
  BY <1>5, <1>8, <1>9 DEF WellLinked, q, n, high

\* A search for a member that is there, or for its rank, ends on it.
LEMMA ShapeRanks == Inv => RanksExact
<1> SUFFICES ASSUME Inv PROVE RanksExact
  OBVIOUS
<1> DEFINE q == Ranked(dict)
           n == Len(q)
<1>1. Shape(zsl, dict, q, n) /\ n \in Nat /\ DOMAIN q = 1..n
  BY InvRanked
<1> HIDE DEF q, n
<1>2. /\ zsl.level \in Nat \ {0}
      /\ \A p \in 1..n : q[p] \in Members(zsl) /\ zsl.node[q[p]].score = dict[q[p]] /\ q[p] \in Int
      /\ \A p \in 0..n : At(q, n, p) = IF p = 0 THEN Header ELSE q[p]
      /\ \A p \in 1..n : q[p] # Header
      /\ \A i, j \in 1..n : q[i] = q[j] => i = j
      /\ \A i, j \in 1..n : Precedes(dict, q[i], q[j]) <=> i < j
  <2>1. InOrder(dict, q, n)
    BY <1>1 DEF Shape
  <2>2. /\ \A i, j \in 1..n : q[i] = q[j] => i = j
        /\ \A i, j \in 1..n : Precedes(dict, q[i], q[j]) <=> i < j
        /\ \A p \in 1..n : q[p] \in Member
    BY <2>1, Distinct
  <2>3. \A p \in 1..n : q[p] # Header /\ q[p] \in Int
    <3>1. \A x \in Member : x # Header /\ x \in Int
      BY Constants
    <3> QED
      BY <2>2, <3>1
  <2>4. \A p \in 1..n : q[p] \in Members(zsl) /\ zsl.node[q[p]].score = dict[q[p]]
    <3>1. \A p \in 1..n : q[p] \in Members(zsl)
      BY <1>1, Places
    <3> QED
      BY <1>1, <3>1 DEF Shape, Nodes
  <2>5. \A p \in 0..n : At(q, n, p) = IF p = 0 THEN Header ELSE q[p]
    BY <1>1 DEF At
  <2>6. zsl.level \in Nat \ {0}
    BY <1>1, Constants DEF Shape, Heights
  <2> QED
    BY <2>2, <2>3, <2>4, <2>5, <2>6
\* A search up to place i that stops at place i stops there on the lowest level at
\* the latest.
<1>3. ASSUME NEW i \in 1..n, NEW on, UpTo(zsl, q, n, on, i)
      PROVE  /\ StopAt(Path(zsl, on), {l \in DOMAIN Path(zsl, on) : Path(zsl, on)[l].at = q[i]}).rank = i
             /\ StopAt(Path(zsl, on), {l \in DOMAIN Path(zsl, on) : Path(zsl, on)[l].rank = i}).at = q[i]
  <2>1. PICK last \in [1..zsl.level -> 0..i] :
              /\ last[1] = i
              /\ Path(zsl, on) = [l \in 1..zsl.level |-> Stand(q, n, last[l])]
    BY <1>1, <1>3, PathOK
  <2>2. PICK path : path = Path(zsl, on)
    OBVIOUS
  <2>3. /\ DOMAIN path = 1..zsl.level
        /\ \A l \in 1..zsl.level : path[l].at = At(q, n, last[l]) /\ path[l].rank = last[l]
    BY <2>1, <2>2 DEF Stand, Place
  <2>4. \A l \in 1..zsl.level : path[l].at = q[i] <=> last[l] = i
    <3>1. \A l \in 1..zsl.level : last[l] = 0 \/ last[l] \in 1..n
      BY <1>1, <2>1
    <3>2. \A p \in 1..n : p \in 0..n
      OBVIOUS
    <3>3. 0 \in 0..n
      BY <1>1
    <3> QED
      BY <1>2, <2>3, <3>1, <3>2, <3>3
  <2> DEFINE S == {l \in 1..zsl.level : last[l] = i}
  <2>5. Max(S) \in S
    <3>1. S \in SUBSET (1..zsl.level) /\ S # {} /\ zsl.level \in Nat
      BY <1>2, <2>1
    <3> HIDE DEF S
    <3> QED
      BY <3>1, MaxIs
  <2>6. {l \in DOMAIN path : path[l].at = q[i]} = S /\ {l \in DOMAIN path : path[l].rank = i} = S
    BY <2>3, <2>4
  <2>7. StopAt(path, S) = path[Max(S)]
    <3> HIDE DEF S
    <3> QED
      BY <2>5 DEF StopAt
  <2>8. path[Max(S)].at = q[i] /\ path[Max(S)].rank = i
    BY <2>3, <2>4, <2>5
  <2> HIDE DEF S
  <2> QED
    BY <2>2, <2>6, <2>7, <2>8
<1>4. ASSUME NEW i \in 1..n PROVE zsl_get_rank(dict[q[i]], q[i]) = i
  <2> DEFINE on == [at : {x \in Members(zsl) : ~node_gt(zsl.node, x, dict[q[i]], q[i])}, rank : Int]
  <2>1. \A x, r : Place(x, r) \in on <=>
            x \in Members(zsl) /\ ~node_gt(zsl.node, x, dict[q[i]], q[i]) /\ r \in Int
    BY DEF Place
  <2>2. \A p \in 1..n : node_gt(zsl.node, q[p], dict[q[i]], q[i]) <=> i < p
    <3>1. \A p \in 1..n : dict[q[p]] \in Int
      <4>1. InOrder(dict, q, n)
        BY <1>1 DEF Shape
      <4> QED
        BY <4>1, Distinct, Constants
    <3>2. \A p \in 1..n : node_gt(zsl.node, q[p], dict[q[i]], q[i]) <=> Precedes(dict, q[i], q[p])
      BY <1>2, <3>1 DEF node_gt, Precedes
    <3> QED
      BY <1>2, <3>2
  <2>3. UpTo(zsl, q, n, on, i)
    <3>1. i \in 0..n /\ \A p \in 1..n : p \in Int
      OBVIOUS
    <3> HIDE DEF on
    <3> QED
      BY <1>2, <2>1, <2>2, <3>1 DEF UpTo
  <2> HIDE DEF on
  <2>4. StopAt(Path(zsl, on), {l \in DOMAIN Path(zsl, on) : Path(zsl, on)[l].at = q[i]}).rank = i
    BY <1>3, <2>3
  <2> QED
    BY <2>4 DEF zsl_get_rank, on
<1>5. ASSUME NEW i \in 1..n PROVE zsl_get_element_by_rank(i) = q[i]
  <2> DEFINE on == [at : Members(zsl), rank : {r \in Int : r <= i}]
  <2>1. \A x, r : Place(x, r) \in on <=> x \in Members(zsl) /\ r \in Int /\ r <= i
    BY DEF Place
  <2>2. UpTo(zsl, q, n, on, i)
    <3>1. i \in 0..n /\ \A p \in 1..n : p \in Int
      OBVIOUS
    <3> HIDE DEF on
    <3> QED
      BY <1>2, <2>1, <3>1 DEF UpTo
  <2> HIDE DEF on
  <2>3. StopAt(Path(zsl, on), {l \in DOMAIN Path(zsl, on) : Path(zsl, on)[l].rank = i}).at = q[i]
    BY <1>3, <2>2
  <2> QED
    BY <2>3 DEF zsl_get_element_by_rank, on
<1> QED
  BY <1>1, <1>4, <1>5 DEF RanksExact, q

-----------------------------------------------------------------------------
(* The walks. *)

\* Every step leads to the next of s, and the first b of s are the ones on.
Strung(s, b, on, step) ==
    /\ s \in [1..(b + 1) -> Node]
    /\ on \in SUBSET Node /\ \A y \in on : step[y] \in Node
    /\ \A p \in 1..b : s[p] \in on /\ step[s[p]] = s[p + 1]
    /\ s[b + 1] \notin on

\* A walk whose every step leads to the next of s, and that may not go past the
\* first b of them, gives those: from the a-th, at most c.
LEMMA WalkOK ==
    ASSUME NEW b \in Nat, NEW s, NEW on, NEW step, Strung(s, b, on, step),
           NEW c \in Nat, NEW a \in 1..(b + 1)
    PROVE  Walk(s[a], c, step, on) = SubSeq(s, a, IF a + c - 1 < b THEN a + c - 1 ELSE b)
<1> DEFINE X == [Node -> Seq(Node)]
           Turn(w) == [y \in Node |-> IF y \notin on THEN <<>> ELSE <<y>> \o w[step[y]]]
           first == [y \in Node |-> <<>>]
           turn == [j \in 1..c |-> [w \in X |-> Turn(w)]]
           Builds(g) == g = [j \in 0..c |-> [y \in Node |->
                                IF j = 0 \/ y \notin on THEN <<>>
                                ELSE <<y>> \o g[j - 1][step[y]]]]
           walk == CHOOSE g : Builds(g)
<1>12. /\ s \in [1..(b + 1) -> Node]
       /\ on \in SUBSET Node /\ \A y \in on : step[y] \in Node
       /\ \A p \in 1..b : s[p] \in on /\ step[s[p]] = s[p + 1]
       /\ s[b + 1] \notin on
  BY DEF Strung
<1>1. first \in X
  BY EmptySeq
<1>2. ASSUME NEW w \in X PROVE Turn(w) \in X
  <2>1. ASSUME NEW y \in Node, y \in on PROVE <<y>> \o w[step[y]] \in Seq(Node)
    <3>1. w[step[y]] \in Seq(Node) /\ <<y>> \in Seq(Node)
      BY <1>12, <2>1
    <3> QED
      BY <3>1, ConcatProperties
  <2>2. \A y \in Node : Turn(w)[y] \in Seq(Node)
    BY <2>1, EmptySeq
  <2>3. Turn(w) = [y \in Node |-> Turn(w)[y]]
    OBVIOUS
  <2> HIDE DEF Turn
  <2> QED
    BY <2>2, <2>3
<1>3. turn \in [1..c -> [X -> X]]
  <2> HIDE DEF X, Turn
  <2> QED
    BY <1>2
<1>4. PICK g : Runs(g, first, turn, c, X)
  <2> HIDE DEF X, first, turn
  <2> QED
    BY <1>1, <1>3, RunExists
<1>5. Builds(g)
  <2>1. g \in [0..c -> X] /\ g[0] = first
    BY <1>4 DEF Runs
  <2>2. ASSUME NEW j \in 1..c PROVE g[j] = Turn(g[j - 1])
    <3>1. g[j - 1] \in X
      <4> HIDE DEF X
      <4>1. j - 1 \in 0..c
        OBVIOUS
      <4> QED
        BY <2>1, <4>1
    <3>2. g[j] = turn[j][g[j - 1]]
      BY <1>4 DEF Runs
    <3> HIDE DEF X, Turn
    <3> QED
      BY <3>1, <3>2
  <2>3. ASSUME NEW j \in 0..c
        PROVE  g[j] = [y \in Node |-> IF j = 0 \/ y \notin on THEN <<>>
                                      ELSE <<y>> \o g[j - 1][step[y]]]
    <3>1. CASE j = 0
      BY <2>1, <3>1
    <3>2. CASE j # 0
      <4>1. j \in 1..c
        BY <3>2
      <4>2. g[j] = Turn(g[j - 1])
        BY <2>2, <4>1
      <4> QED
        BY <3>2, <4>2
    <3> QED
      BY <3>1, <3>2
  <2>4. DOMAIN g = 0..c /\ g = [j \in 0..c |-> g[j]]
    <3> HIDE DEF X
    <3> QED
      BY <2>1
  <2> QED
    BY <2>3, <2>4
<1>6. Builds(walk)
  <2> HIDE DEF Builds
  <2> QED
    BY <1>5
<1> HIDE DEF walk
<1>7. \A j \in 0..c, y \in Node :
          walk[j][y] = IF j = 0 \/ y \notin on THEN <<>> ELSE <<y>> \o walk[j - 1][step[y]]
  <2> DEFINE Value(j, y) == IF j = 0 \/ y \notin on THEN <<>> ELSE <<y>> \o walk[j - 1][step[y]]
  <2>1. walk = [j \in 0..c |-> [y \in Node |-> Value(j, y)]]
    BY <1>6
  <2>2. \A j \in 0..c, y \in Node : walk[j][y] = Value(j, y)
    <3> HIDE DEF Value
    <3> QED
      BY <2>1
  <2> QED
    BY <2>2
<1> DEFINE end(j, p) == IF p + j - 1 < b THEN p + j - 1 ELSE b
           Bad == {j \in 0..c : \E p \in 1..(b + 1) : walk[j][s[p]] # SubSeq(s, p, end(j, p))}
<1>8. s \in Seq(Node) /\ Len(s) = b + 1
  <2>1. b + 1 \in Nat
    OBVIOUS
  <2> QED
    BY <1>12, <2>1, AsSequence
<1>9. Bad = {}
  <2> SUFFICES ASSUME Bad # {} PROVE FALSE
    OBVIOUS
  <2>1. PICK j \in Bad : \A j2 \in Bad : j <= j2
    <3>1. Bad \in SUBSET Nat
      OBVIOUS
    <3> HIDE DEF Bad
    <3> QED
      BY <3>1, LeastElement
  <2>2. PICK p \in 1..(b + 1) : walk[j][s[p]] # SubSeq(s, p, end(j, p))
    BY <2>1
  <2>3. j \in 0..c /\ s[p] \in Node
    BY <1>12, <2>1
  <2>4. CASE j = 0 \/ p = b + 1
    <3>1. walk[j][s[p]] = <<>>
      BY <1>7, <1>12, <2>3, <2>4
    <3>2. end(j, p) < p /\ end(j, p) \in Int /\ p \in Int
      BY <2>4
    <3>3. SubSeq(s, p, end(j, p)) = <<>>
      <4> HIDE DEF end
      <4> QED
        BY <3>2, SubSeqEmpty
    <3> QED
      BY <2>2, <3>1, <3>3
  <2>5. CASE j # 0 /\ p # b + 1
    <3>1. /\ p \in 1..b /\ p + 1 \in 1..(b + 1) /\ j - 1 \in 0..c
          /\ s[p] \in on /\ step[s[p]] = s[p + 1]
      <4>1. p \in 1..b /\ p + 1 \in 1..(b + 1) /\ j - 1 \in 0..c
        BY <2>3, <2>5
      <4> QED
        BY <1>12, <4>1
    <3>2. walk[j - 1][s[p + 1]] = SubSeq(s, p + 1, end(j - 1, p + 1))
      <4>1. j - 1 \notin Bad
        <5> HIDE DEF Bad
        <5> QED
          BY <2>1, <2>3
      <4> QED
        BY <3>1, <4>1
    <3>3. walk[j][s[p]] = <<s[p]>> \o walk[j - 1][s[p + 1]]
      <4>1. walk[j][s[p]] = IF j = 0 \/ s[p] \notin on THEN <<>>
                            ELSE <<s[p]>> \o walk[j - 1][step[s[p]]]
        BY <1>7, <2>3
      <4> QED
        BY <2>5, <3>1, <4>1
    <3>4. end(j - 1, p + 1) = end(j, p)
      BY <2>3, <3>1
    <3>5. p \in 1..Len(s) /\ end(j, p) \in p..Len(s)
      <4>1. j \in Nat \ {0} /\ p \in 1..b
        BY <2>3, <2>5, <3>1
      <4>2. p \in 1..(b + 1) /\ end(j, p) \in p..(b + 1)
        BY <4>1
      <4> QED
        BY <1>8, <4>2
    <3>6. SubSeq(s, p, end(j, p)) = <<s[p]>> \o SubSeq(s, p + 1, end(j, p))
      <4> HIDE DEF end
      <4> QED
        BY <1>8, <3>5, SubSeqRecursiveFirst
    <3> HIDE DEF end
    <3> QED
      BY <2>2, <3>2, <3>3, <3>4, <3>6
  <2> QED
    BY <2>4, <2>5
<1>10. walk[c][s[a]] = SubSeq(s, a, end(c, a))
  <2>1. c \in 0..c
    OBVIOUS
  <2> HIDE DEF end
  <2> QED
    BY <1>9, <2>1
<1>11. Walk(s[a], c, step, on) = walk[c][s[a]]
  BY DEF Walk, walk
<1> QED
  BY <1>10, <1>11

\* Parts that are the same at every place are the same.
LEMMA SubSeqSame ==
    ASSUME NEW S, NEW s, NEW t, NEW i \in Int, NEW j \in Int,
           \A p \in i..j : s[p] \in S /\ s[p] = t[p]
    PROVE  SubSeq(s, i, j) = SubSeq(t, i, j)
<1> DEFINE u == SubSeq(s, i, j)
           v == SubSeq(t, i, j)
<1>1. /\ u \in Seq(S) /\ Len(u) = IF i <= j THEN j - i + 1 ELSE 0
      /\ \A p \in 1..(j - i + 1) : u[p] = s[i + p - 1]
  BY SubSeqProperties
<1>2. /\ v \in Seq(S) /\ Len(v) = IF i <= j THEN j - i + 1 ELSE 0
      /\ \A p \in 1..(j - i + 1) : v[p] = t[i + p - 1]
  <2>1. \A p \in i..j : t[p] \in S
    OBVIOUS
  <2> QED
    BY <2>1, SubSeqProperties
<1> HIDE DEF u, v
<1>3. \A p \in 1..Len(u) : p \in 1..(j - i + 1) /\ i + p - 1 \in i..j
  BY <1>1
<1>4. \A p \in 1..Len(u) : u[p] = v[p]
  BY <1>1, <1>2, <1>3
<1>5. Len(u) = Len(v)
  BY <1>1, <1>2
<1>6. u = v
  BY <1>1, <1>2, <1>4, <1>5, SeqEqual
<1> QED
  BY <1>6 DEF u, v

\* Walks along the list give what the ranges of the order are.
LEMMA ShapeRanges == Inv => RangesExact
<1> SUFFICES ASSUME Inv PROVE RangesExact
  OBVIOUS
<1> DEFINE q == Ranked(dict)
           n == Len(q)
<1>1. /\ Shape(zsl, dict, q, n) /\ n \in Nat
      /\ q \in Seq(Member) /\ q \in [1..n -> Member]
  BY InvRanked
<1>2. n = Len(q)
  OBVIOUS
<1> HIDE DEF q, n
<1>3. /\ zsl.length = n
      /\ Members(zsl) = {q[p] : p \in 1..n} /\ Members(zsl) \in SUBSET Node
      /\ \A p \in 1..n : At(q, n, p) = q[p] /\ q[p] \in Node
      /\ At(q, n, n + 1) = None /\ At(q, n, 0) = Header
      /\ None \in Node /\ None \notin Members(zsl)
      /\ \A i, j \in 1..n : q[i] = q[j] => i = j
  <2>1. zsl.length = n
    BY <1>1 DEF Shape, Nodes
  <2>2. Members(zsl) = {q[p] : p \in 1..n}
    BY <1>1, Places
  <2>3. \A p \in 1..n : At(q, n, p) = q[p] /\ q[p] \in Node
    BY <1>1 DEF At, Node
  <2>4. At(q, n, n + 1) = None /\ At(q, n, 0) = Header
    BY <1>1 DEF At
  <2>5. None \in Node
    BY DEF Node
  <2>6. None \notin Members(zsl)
    BY <1>1, Places DEF Members
  <2>7. \A i, j \in 1..n : q[i] = q[j] => i = j
    BY <1>1, Distinct DEF Shape
  <2> QED
    BY <2>1, <2>2, <2>3, <2>4, <2>5, <2>6, <2>7
<1>4. \A p \in 0..n : Forward[At(q, n, p)] = At(q, n, p + 1)
  <2> TAKE p \in 0..n
  <2>1. At(q, n, p) \in DOMAIN zsl.node
    BY <1>1, Places
  <2>2. zsl.node[At(q, n, p)].level[1].forward = At(q, n, p + 1)
    BY <1>1, NextIs
  <2> QED
    BY <2>1, <2>2 DEF Forward
<1>5. \A p \in 1..n : Backward[q[p]] = IF p = 1 THEN None ELSE q[p - 1]
  <2> TAKE p \in 1..n
  <2>1. q[p] \in DOMAIN zsl.node
    BY <1>3 DEF Members
  <2>2. zsl.node[q[p]].backward = IF p = 1 THEN None ELSE q[p - 1]
    BY <1>1 DEF Shape, Nodes
  <2> QED
    BY <2>1, <2>2 DEF Backward
\* Forward, through the first k nodes.
<1>6. ASSUME NEW k \in 0..n, NEW on \in SUBSET Members(zsl), \A p \in 1..n : q[p] \in on <=> p <= k,
             NEW a \in 1..(k + 1), NEW c \in Nat
      PROVE  Walk(At(q, n, a), c, Forward, on) = SubSeq(q, a, IF a + c - 1 < k THEN a + c - 1 ELSE k)
  <2> DEFINE s == [p \in 1..(k + 1) |-> At(q, n, p)]
             z == IF a + c - 1 < k THEN a + c - 1 ELSE k
  <2>1. k \in Nat /\ k \in 0..n /\ \A p \in 1..k : p \in 1..n /\ p + 1 \in 1..(k + 1) /\ p \in 0..n
    BY <1>1
  <2>2. \A p \in 1..(k + 1) : p \in 1..n \/ p = n + 1
    BY <1>1
  <2>3. s \in [1..(k + 1) -> Node]
    BY <1>3, <2>2
  <2>4. on \in SUBSET Node /\ \A y \in on : Forward[y] \in Node
    <3>1. ASSUME NEW y \in on PROVE Forward[y] \in Node
      <4>1. PICK p \in 1..n : y = q[p]
        BY <1>3
      <4>2. p \in 0..n /\ (p + 1 \in 1..n \/ p + 1 = n + 1)
        BY <1>1
      <4> QED
        BY <1>3, <1>4, <4>1, <4>2
    <3> QED
      BY <1>3, <3>1
  <2>5. \A p \in 1..k : s[p] \in on /\ Forward[s[p]] = s[p + 1]
    <3> TAKE p \in 1..k
    <3>1. p \in 1..n /\ p \in 1..(k + 1) /\ p + 1 \in 1..(k + 1) /\ p \in 0..n /\ p <= k
      BY <2>1
    <3>2. s[p] = At(q, n, p) /\ s[p + 1] = At(q, n, p + 1)
      BY <3>1
    <3> HIDE DEF s
    <3> QED
      BY <1>3, <1>4, <1>6, <3>1, <3>2
  <2>6. s[k + 1] \notin on
    <3>1. s[k + 1] = At(q, n, k + 1)
      BY <2>1
    <3>2. CASE k + 1 \in 1..n
      <4>1. ~(k + 1 <= k)
        BY <2>1
      <4> HIDE DEF s
      <4> QED
        BY <1>3, <1>6, <3>1, <3>2, <4>1
    <3>3. CASE k = n
      <4> HIDE DEF s
      <4> QED
        BY <1>3, <3>1, <3>3
    <3> QED
      BY <1>1, <2>1, <3>2, <3>3
  <2> DEFINE step == Forward
  <2>7. Walk(s[a], c, step, on) = SubSeq(s, a, z)
    <3> HIDE DEF s, step
    <3>1. \A y \in on : step[y] \in Node
      BY <2>4 DEF step
    <3>2. \A p \in 1..k : s[p] \in on /\ step[s[p]] = s[p + 1]
      BY <2>5 DEF step
    <3>3. Strung(s, k, on, step)
      BY <2>3, <2>4, <2>6, <3>1, <3>2 DEF Strung
    <3> QED
      BY <2>1, <3>3, WalkOK
  <2>8. SubSeq(s, a, z) = SubSeq(q, a, z)
    <3>1. a \in Int /\ z \in Int /\ z <= k
      BY <2>1
    <3>2. \A p \in a..z : p \in 1..n /\ p \in 1..(k + 1)
      BY <1>1, <2>1, <3>1
    <3> HIDE DEF z
    <3>3. \A p \in a..z : s[p] \in Node /\ s[p] = q[p]
      BY <1>3, <3>2
    <3> HIDE DEF s
    <3> QED
      BY <3>1, <3>3, SubSeqSame
  <2>9. s[a] = At(q, n, a)
    OBVIOUS
  <2> HIDE DEF s, z
  <2> QED
    BY <2>7, <2>8, <2>9 DEF z
\* Backward, from the end.
<1>7. ASSUME NEW a \in 1..n, NEW c \in Nat
      PROVE  Walk(q[n - (a - 1)], c, Backward, Members(zsl)) =
                 SubSeq(Reverse(q), a, IF a + c - 1 < n THEN a + c - 1 ELSE n)
  <2> DEFINE s == [p \in 1..(n + 1) |-> IF p <= n THEN q[n - (p - 1)] ELSE None]
             z == IF a + c - 1 < n THEN a + c - 1 ELSE n
  <2>1. \A p \in 1..n : p \in 1..(n + 1) /\ p <= n /\ p + 1 \in 1..(n + 1) /\ n - (p - 1) \in 1..n
    BY <1>1
  <2>2. \A p \in 1..n : s[p] = q[n - (p - 1)]
    BY <2>1
  <2>3. s[n + 1] = None
    BY <1>1
  <2>4. s \in [1..(n + 1) -> Node]
    <3>1. \A p \in 1..(n + 1) : p \in 1..n \/ p = n + 1
      BY <1>1
    <3>2. \A p \in 1..(n + 1) : s[p] \in Node
      <4> HIDE DEF s
      <4> QED
        BY <1>3, <2>1, <2>2, <2>3, <3>1
    <3>3. s = [p \in 1..(n + 1) |-> s[p]]
      OBVIOUS
    <3> HIDE DEF s
    <3> QED
      BY <3>2, <3>3
  <2> HIDE DEF s
  <2>5. \A y \in Members(zsl) : Backward[y] \in Node
    <3>1. \A p \in 1..n : p # 1 => p - 1 \in 1..n
      BY <1>1
    <3> QED
      BY <1>3, <1>5, <3>1
  <2>6. \A p \in 1..n : s[p] \in Members(zsl) /\ Backward[s[p]] = s[p + 1]
    <3> TAKE p \in 1..n
    <3> DEFINE r == n - (p - 1)
    <3>1. r \in 1..n /\ s[p] = q[r]
      BY <2>1, <2>2
    <3>2. Backward[q[r]] = IF r = 1 THEN None ELSE q[r - 1]
      BY <1>5, <3>1
    <3>3. s[p + 1] = IF r = 1 THEN None ELSE q[r - 1]
      <4>1. CASE r = 1
        <5>1. p + 1 = n + 1
          BY <1>1, <4>1
        <5> QED
          BY <2>3, <4>1, <5>1
      <4>2. CASE r # 1
        <5>1. p + 1 \in 1..n /\ n - ((p + 1) - 1) = r - 1
          BY <1>1, <4>2
        <5> QED
          BY <2>2, <4>2, <5>1
      <4> QED
        BY <4>1, <4>2
    <3> HIDE DEF r
    <3> QED
      BY <1>3, <3>1, <3>2, <3>3
  <2> DEFINE step == Backward
             on == Members(zsl)
  <2>7. Walk(s[a], c, step, on) = SubSeq(s, a, z)
    <3>1. /\ on \in SUBSET Node /\ \A y \in on : step[y] \in Node
          /\ \A p \in 1..n : s[p] \in on /\ step[s[p]] = s[p + 1]
          /\ s[n + 1] \notin on /\ a \in 1..(n + 1)
      BY <1>3, <2>1, <2>3, <2>5, <2>6
    <3> HIDE DEF step, on
    <3>2. Strung(s, n, on, step)
      BY <2>4, <3>1 DEF Strung
    <3>3. n \in Nat /\ a \in 1..(n + 1)
      BY <1>1, <3>1
    <3> HIDE DEF s, z
    <3>4. Walk(s[a], c, step, on) = SubSeq(s, a, IF a + c - 1 < n THEN a + c - 1 ELSE n)
      BY <3>2, <3>3, WalkOK
    <3> QED
      BY <3>4 DEF z
  <2>8. SubSeq(s, a, z) = SubSeq(Reverse(q), a, z)
    <3>1. \A p \in 1..n : Reverse(q)[p] = q[n - (p - 1)]
      <4>1. \A p \in 1..n : (n - p) + 1 = n - (p - 1)
        BY <1>1
      <4> QED
        BY <1>2, <4>1 DEF Reverse
    <3>2. a \in Int /\ z \in Int /\ z <= n
      BY <1>1
    <3>3. \A p \in a..z : p \in 1..n /\ p \in 1..(n + 1)
      BY <1>1, <3>2
    <3> HIDE DEF z
    <3>4. \A p \in a..z : s[p] \in Node /\ s[p] = Reverse(q)[p]
      BY <2>2, <2>4, <3>1, <3>3
    <3> QED
      BY <3>2, <3>4, SubSeqSame
  <2>9. s[a] = q[n - (a - 1)]
    BY <2>2
  <2> HIDE DEF z
  <2> QED
    BY <2>7, <2>8, <2>9 DEF z
<1>8. ASSUME NEW i \in 1..n PROVE zsl_get_element_by_rank(i) = q[i]
  <2>1. RanksExact /\ i \in DOMAIN q
    BY <1>1, ShapeRanks
  <2> QED
    BY <2>1 DEF RanksExact, q
<1>9. ASSUME NEW start \in Ends, NEW stop \in Ends
      PROVE  /\ zrange(start, stop) = Slice(q, start, stop)
             /\ zrevrange(start, stop) = Slice(Reverse(q), start, stop)
  <2> DEFINE from0 == IF start < 0 THEN n + start ELSE start
             to0   == IF stop < 0 THEN n + stop ELSE stop
             from  == IF from0 < 0 THEN 0 ELSE from0
             to    == IF to0 >= n THEN n - 1 ELSE to0
  <2>1. start \in Int /\ stop \in Int
    BY SkipListAssumption
  <2>2. from \in Nat /\ to \in Int /\ to <= n - 1
    BY <1>1, <2>1
  <2>3. zrange(start, stop) =
            IF from <= to /\ n > 0
              THEN Walk(zsl_get_element_by_rank(from + 1), to - from + 1, Forward, Members(zsl))
            ELSE <<>>
    BY <1>3 DEF zrange, py_zrange_common
  <2>4. zrevrange(start, stop) =
            IF from <= to /\ n > 0
              THEN Walk(zsl_get_element_by_rank(n - from), to - from + 1, Backward, Members(zsl))
            ELSE <<>>
    BY <1>3 DEF zrevrange, py_zrange_common
  <2>5. Slice(q, start, stop) = IF from <= to THEN SubSeq(q, from + 1, to + 1) ELSE <<>>
    BY <1>2 DEF Slice
  <2>6. Len(Reverse(q)) = n
    <3>1. \A p \in 1..n : (n - p) + 1 \in 1..n
      BY <1>1
    <3>2. Reverse(q) \in [1..n -> Member]
      BY <1>1, <1>2, <3>1 DEF Reverse
    <3> QED
      BY <1>1, <3>2, AsSequence
  <2>7. Slice(Reverse(q), start, stop) =
            IF from <= to THEN SubSeq(Reverse(q), from + 1, to + 1) ELSE <<>>
    BY <2>6 DEF Slice
  <2> HIDE DEF from, to
  <2>8. CASE from <= to
    <3> DEFINE a == from + 1
               c == to - from + 1
    <3>1. /\ n > 0 /\ a \in 1..n /\ a \in 1..(n + 1) /\ c \in Nat /\ n - from \in 1..n
          /\ (IF a + c - 1 < n THEN a + c - 1 ELSE n) = to + 1
          /\ n - (a - 1) = n - from
      BY <1>1, <2>2, <2>8
    <3>2. Walk(q[a], c, Forward, Members(zsl)) = SubSeq(q, a, to + 1)
      <4>1. /\ n \in 0..n /\ Members(zsl) \in SUBSET Members(zsl)
            /\ \A p \in 1..n : q[p] \in Members(zsl) <=> p <= n
        BY <1>1, <1>3
      <4> HIDE DEF a, c
      <4>2. Walk(At(q, n, a), c, Forward, Members(zsl))
               = SubSeq(q, a, IF a + c - 1 < n THEN a + c - 1 ELSE n)
        BY <1>6, <3>1, <4>1
      <4> QED
        BY <1>3, <3>1, <4>2
    <3>3. Walk(q[n - from], c, Backward, Members(zsl)) = SubSeq(Reverse(q), a, to + 1)
      <4> HIDE DEF a, c
      <4> QED
        BY <1>7, <3>1
    <3>4. zsl_get_element_by_rank(a) = q[a] /\ zsl_get_element_by_rank(n - from) = q[n - from]
      <4> HIDE DEF a, c
      <4> QED
        BY <1>8, <3>1
    <3> QED
      BY <2>3, <2>4, <2>5, <2>7, <2>8, <3>1, <3>2, <3>3, <3>4
  <2>9. CASE ~(from <= to)
    BY <2>3, <2>4, <2>5, <2>7, <2>9
  <2> QED
    BY <2>8, <2>9
\* The members with a score below some bound are the first of the order.
<1>10. ASSUME NEW P \in SUBSET Score, \A x \in P : \A y \in Score : y <= x => y \in P
       PROVE  \E k \in 0..n :
                 /\ \A p \in 1..n : dict[q[p]] \in P <=> p <= k
                 /\ Cardinality({m \in Present(dict) : dict[m] \in P}) = k
  <2> DEFINE S == {p \in 1..n : dict[q[p]] \in P}
  <2>1. /\ \A p \in 1..n : dict[q[p]] \in Score
        /\ \A i, j \in 1..n : Precedes(dict, q[i], q[j]) <=> i < j
    BY <1>1, Distinct DEF Shape
  <2>2. ASSUME NEW j \in S, NEW i \in 1..(j - 1) PROVE i \in S
    <3>1. i \in 1..n /\ i < j
      BY <1>1
    <3>2. Precedes(dict, q[i], q[j])
      BY <2>1, <3>1
    <3>3. dict[q[i]] \in Int /\ dict[q[j]] \in Int
      BY <2>1, <3>1, Constants
    <3>4. dict[q[i]] <= dict[q[j]]
      BY <3>2, <3>3 DEF Precedes
    <3> QED
      BY <1>10, <2>1, <3>1, <3>4
  <2>3. PICK k \in 0..n : S = 1..k
    <3>1. S \in SUBSET (1..n)
      OBVIOUS
    <3> HIDE DEF S
    <3> QED
      BY <1>1, <2>2, <3>1, Prefix
  <2>4. \A p \in 1..n : dict[q[p]] \in P <=> p <= k
    <3>1. \A p \in 1..n : dict[q[p]] \in P <=> p \in 1..k
      BY <2>3
    <3> QED
      BY <1>1, <3>1
  <2>5. Cardinality({m \in Present(dict) : dict[m] \in P}) = k
    <3> DEFINE r == [p \in 1..k |-> q[p]]
               T == {m \in Present(dict) : dict[m] \in P}
    <3>1. k \in Nat /\ \A p \in 1..k : p \in 1..n /\ p <= k
      BY <1>1
    <3>2. Present(dict) = {q[p] : p \in 1..n}
      BY <1>1, RankedIs DEF Shape
    <3>3. T = {r[p] : p \in 1..k}
      <4>1. \A m \in T : \E p \in 1..k : m = r[p]
        <5>1. \A p \in 1..n : p <= k => p \in 1..k
          BY <1>1
        <5> QED
          BY <2>4, <3>2, <5>1
      <4>2. \A p \in 1..k : r[p] \in T
        BY <2>4, <3>1, <3>2
      <4> HIDE DEF r, T
      <4> QED
        BY <4>1, <4>2
    <3>4. \A i, j \in 1..k : r[i] = r[j] => i = j
      BY <1>3, <3>1
    <3>5. r = [p \in 1..k |-> r[p]]
      OBVIOUS
    <3> HIDE DEF r, T
    <3>6. r \in [1..k -> T] /\ \A t \in T : \E p \in 1..k : r[p] = t
      BY <3>3, <3>5
    <3>7. Cardinality(T) = k
      BY <3>1, <3>4, <3>6, CountIs
    <3> QED
      BY <3>7 DEF T
  <2> QED
    BY <2>4, <2>5
<1>11. ASSUME NEW min \in Score, NEW max \in Score
       PROVE  zrangebyscore(min, max) =
                  SubSeq(q,
                         Cardinality({m \in Present(dict) : dict[m] < min}) + 1,
                         Cardinality({m \in Present(dict) : dict[m] <= max}))
  <2> DEFINE below == {x \in Score : x < min}
             upto  == {x \in Score : x <= max}
             first == Forward[Header]
             onlow == {x \in Members(zsl) : zsl.node[x].score < min}
             onto  == {x \in Members(zsl) : zsl.node[x].score <= max}
             low   == Walk(first, zsl.length, Forward, onlow)
             from  == IF low = <<>> THEN first ELSE Forward[Last(low)]
  <2>1. Score \subseteq Int
    BY Constants
  <2>2. PICK lo \in 0..n : /\ \A p \in 1..n : dict[q[p]] \in below <=> p <= lo
                           /\ Cardinality({m \in Present(dict) : dict[m] \in below}) = lo
    <3>1. below \in SUBSET Score /\ \A x \in below : \A y \in Score : y <= x => y \in below
      BY <2>1
    <3> HIDE DEF below
    <3> QED
      BY <1>10, <3>1
  <2>3. PICK hi \in 0..n : /\ \A p \in 1..n : dict[q[p]] \in upto <=> p <= hi
                           /\ Cardinality({m \in Present(dict) : dict[m] \in upto}) = hi
    <3>1. upto \in SUBSET Score /\ \A x \in upto : \A y \in Score : y <= x => y \in upto
      BY <2>1
    <3> HIDE DEF upto
    <3> QED
      BY <1>10, <3>1
  <2>4. \A p \in 1..n : dict[q[p]] \in Score /\ zsl.node[q[p]].score = dict[q[p]]
    <3>1. \A p \in 1..n : dict[q[p]] \in Score
      BY <1>1, Distinct DEF Shape
    <3> QED
      BY <1>1, <3>1 DEF Shape, Nodes
  <2>5. \A m \in Present(dict) : dict[m] \in Score
    BY <1>1 DEF Present, Shape, InOrder
  <2>6. Cardinality({m \in Present(dict) : dict[m] < min}) = lo
    <3>1. {m \in Present(dict) : dict[m] < min} = {m \in Present(dict) : dict[m] \in below}
      BY <2>5
    <3> HIDE DEF below
    <3> QED
      BY <2>2, <3>1
  <2>7. Cardinality({m \in Present(dict) : dict[m] <= max}) = hi
    <3>1. {m \in Present(dict) : dict[m] <= max} = {m \in Present(dict) : dict[m] \in upto}
      BY <2>5
    <3> HIDE DEF upto
    <3> QED
      BY <2>3, <3>1
  <2>8. /\ onlow \in SUBSET Members(zsl) /\ \A p \in 1..n : q[p] \in onlow <=> p <= lo
        /\ onto \in SUBSET Members(zsl) /\ \A p \in 1..n : q[p] \in onto <=> p <= hi
    <3>1. \A p \in 1..n : q[p] \in Members(zsl)
      BY <1>3
    <3> QED
      BY <2>2, <2>3, <2>4, <3>1
  <2>9. first = At(q, n, 1)
    <3>1. 0 \in 0..n
      BY <1>1
    <3> QED
      BY <1>3, <1>4, <3>1
  <2> HIDE DEF first, onlow, onto
  <2>10. low = SubSeq(q, 1, lo)
    <3>1. 1 \in 1..(lo + 1) /\ (IF 1 + n - 1 < lo THEN 1 + n - 1 ELSE lo) = lo
      BY <1>1
    <3>2. Walk(At(q, n, 1), n, Forward, onlow)
             = SubSeq(q, 1, IF 1 + n - 1 < lo THEN 1 + n - 1 ELSE lo)
      BY <1>1, <1>6, <2>8, <3>1
    <3> QED
      BY <1>3, <2>9, <3>1, <3>2
  <2> HIDE DEF low
  <2>11. from = At(q, n, lo + 1)
    <3>1. low \in Seq(Member) /\ Len(low) = lo /\ (lo # 0 => low[lo] = q[lo])
      <4>1. \A p \in 1..lo : p \in 1..n /\ q[p] \in Member
        BY <1>1
      <4>2. /\ SubSeq(q, 1, lo) \in Seq(Member)
            /\ Len(SubSeq(q, 1, lo)) = IF 1 <= lo THEN lo - 1 + 1 ELSE 0
            /\ \A p \in 1..(lo - 1 + 1) : SubSeq(q, 1, lo)[p] = q[1 + p - 1]
        BY <4>1, SubSeqProperties
      <4> QED
        BY <1>1, <2>10, <4>2
    <3>2. CASE lo = 0
      <4>1. low = <<>>
        BY <2>10, <3>2, SubSeqEmpty
      <4> QED
        BY <2>9, <3>2, <4>1
    <3>3. CASE lo # 0
      <4>1. low # <<>>
        BY <3>1, <3>3, EmptySeq
      <4>2. Last(low) = q[lo]
        BY <3>1, <3>3 DEF Last
      <4>3. lo \in 1..n /\ lo \in 0..n
        BY <1>1, <3>3
      <4> QED
        BY <1>3, <1>4, <4>1, <4>2, <4>3
    <3> QED
      BY <3>2, <3>3
  <2>12. zrangebyscore(min, max) = IF min <= max THEN Walk(from, zsl.length, Forward, onto) ELSE <<>>
    BY DEF zrangebyscore, first, onlow, onto, low
  <2> HIDE DEF from
  <2>13. CASE min <= max
    <3>1. lo <= hi
      <4>1. CASE lo = 0
        BY <1>1, <4>1
      <4>2. CASE lo # 0
        <5>1. lo \in 1..n
          BY <1>1, <4>2
        <5>2. dict[q[lo]] \in Score /\ dict[q[lo]] < min
          BY <2>2, <5>1
        <5>3. dict[q[lo]] <= max
          <6>1. dict[q[lo]] \in Int /\ min \in Int /\ max \in Int
            BY <2>1, <5>2
          <6> QED
            BY <2>13, <5>2, <6>1
        <5> QED
          BY <2>3, <5>1, <5>2, <5>3
      <4> QED
        BY <4>1, <4>2
    <3>2. /\ lo + 1 \in 1..(hi + 1)
          /\ (IF (lo + 1) + n - 1 < hi THEN (lo + 1) + n - 1 ELSE hi) = hi
      BY <1>1, <3>1
    <3>3. Walk(At(q, n, lo + 1), n, Forward, onto)
             = SubSeq(q, lo + 1, IF (lo + 1) + n - 1 < hi THEN (lo + 1) + n - 1 ELSE hi)
      BY <1>1, <1>6, <2>8, <3>2
    <3> QED
      BY <1>3, <2>6, <2>7, <2>11, <2>12, <2>13, <3>2, <3>3
  <2>14. CASE ~(min <= max)
    <3>1. hi <= lo
      <4>1. CASE hi = 0
        BY <1>1, <4>1
      <4>2. CASE hi # 0
        <5>1. hi \in 1..n
          BY <1>1, <4>2
        <5>2. dict[q[hi]] \in Score /\ dict[q[hi]] <= max
          BY <2>3, <5>1
        <5>3. dict[q[hi]] < min
          BY <2>1, <2>14, <5>2
        <5> QED
          BY <2>2, <5>1, <5>2, <5>3
      <4> QED
        BY <4>1, <4>2
    <3>2. SubSeq(q, lo + 1, hi) = <<>>
      <4>1. lo + 1 \in Int /\ hi \in Int /\ hi < lo + 1
        BY <1>1, <3>1
      <4> QED
        BY <4>1, SubSeqEmpty
    <3> QED
      BY <2>6, <2>7, <2>12, <2>14, <3>2
  <2> QED
    BY <2>13, <2>14
<1> QED
  BY <1>9, <1>11 DEF RangesExact, q

-----------------------------------------------------------------------------
(* The theorems. *)

\* The dict and the skiplist hold the same members with the same scores, and the
\* list is in shape, whatever was inserted, moved and deleted.
THEOREM Invariance == Spec => []Inv
<1>1. Init => Inv
  BY Initially
<1>2. Inv /\ [Next]_vars => Inv'
  BY Consecution
<1> QED
  BY <1>1, <1>2, PTL DEF Spec

\* zsl_insert and zsl_delete, for any members, scores and heights in any order: on
\* every level each link leads to the next node in the order of the dict's scores,
\* with the right span, and no level above the highest node is in use.
THEOREM LinksStayRight == Spec => []WellLinked
BY Invariance, ShapeLinked, PTL

\* zsl_get_rank finds the place of every member, and zsl_get_element_by_rank the
\* member at every place.
THEOREM RanksStayRight == Spec => []RanksExact
BY Invariance, ShapeRanks, PTL

\* ZRANGE, ZREVRANGE and ZRANGEBYSCORE answer, for any indexes and scores, what
\* sorting the dict would.
THEOREM RangesStayRight == Spec => []RangesExact
BY Invariance, ShapeRanges, PTL
=============================================================================
