---------------------------- MODULE ReopenProofs ---------------------------
(***************************************************************************)
(* What closing and opening a store keeps, for any keys, databases, values *)
(* and commands.                                                           *)
(*                                                                         *)
(* Replaying the log rebuilds database 0 (AofStore).  ReplayExact is not   *)
(* inductive: that two objects have the same content does not say that the *)
(* next record makes the same of them (an empty list and an empty hash     *)
(* have the same content).  The invariant says more: what replay gives is  *)
(* the very object in memory, or nothing where memory has an empty         *)
(* container.  CommandsProofs shows of every command that its record makes *)
(* of either what the command made (Tells).                                *)
(*                                                                         *)
(* Loading a snapshot gives back what was saved (RdbStore).  A loop that   *)
(* replaces has, after each pass, what was read so far and nothing else,   *)
(* whatever order the entries were written in.                             *)
(***************************************************************************)
EXTENDS AofStore, RdbStore, CommandsProofs, Induction, FiniteSetTheorems, SequenceTheorems

SameAt(k) == \/ disk[k] = keys[DB0][k]
             \/ disk[k] = None /\ keys[DB0][k] \in Empty

AofInv == /\ Inv
          /\ disk \in [Key -> Object \cup {None}]
          /\ \A k \in Key \ drifted : SameAt(k)

-----------------------------------------------------------------------------
(* What replay makes is an object. *)

\* A mapping of a record is one.
LEMMA MappingPoint ==
    ASSUME NEW D, NEW R, NEW m \in Mapping(D, R)
    PROVE  DOMAIN m \subseteq D /\ \A x \in DOMAIN m : m[x] \in R
BY DEF Mapping

\* Dropping fields or members leaves a function of the same kind.
LEMMA DroppedType ==
    ASSUME NEW D, NEW R, NEW f \in [D -> R \cup {None}], NEW S
    PROVE  Dropped(f, S) \in [D -> R \cup {None}]
BY DEF Dropped

\* replay_cmd gives an object, or leaves nothing where there was nothing.
LEMMA ReplayObject ==
    ASSUME NEW o \in Object \cup {None}, NEW r \in Record
    PROVE  replay_cmd(o, r) \in Object \cup {None}
<1>1. CASE r.cmd = "SET"
  <2>1. r.val \in Payload /\ r.enc \in Encoding
    BY <1>1 DEF Record
  <2> QED
    BY <1>1, <2>1 DEF replay_cmd, obj_create_string, Object, String
<1>2. CASE r.cmd = "INCRBY"
  <2>1. r.amount \in Number
    BY <1>2 DEF Record
  <2> DEFINE old == IF o = None THEN 0
                    ELSE IF o.type = "string" THEN strtoll(o.str) ELSE 0
  <2>2. old \in Int /\ r.amount \in Int
    BY <2>1, ObjectsAssumption DEF strtoll, IsInteger, Number
  <2>3. Wrap(old + r.amount) \in Payload
    BY <2>2, WrapOK DEF Payload
  <2>4. replay_cmd(o, r) = obj_create_string(Wrap(old + r.amount), RAW)
    BY <1>2 DEF replay_cmd, ReplayIncrby
  <2> HIDE DEF old
  <2> QED
    BY <2>3, <2>4, ObjectsAssumption DEF obj_create_string, Object, String
<1>3. CASE r.cmd \in {"LPUSH", "RPUSH"}
  <2>1. r.vals \in Seq(Elem) /\ Reverse(r.vals) \in Seq(Elem)
    BY <1>3, ReverseOK DEF Record
  <2>2. \A x \in List : /\ [x EXCEPT !.list = push_tail(x.list, r.vals)] \in Object
                        /\ [x EXCEPT !.list = push_head(x.list, r.vals)] \in Object
    <3> SUFFICES ASSUME NEW x \in List
                 PROVE  /\ [x EXCEPT !.list = push_tail(x.list, r.vals)] \in Object
                        /\ [x EXCEPT !.list = push_head(x.list, r.vals)] \in Object
      OBVIOUS
    <3>1. x.list \in Seq(Elem)
      BY DEF List
    <3>2. push_tail(x.list, r.vals) \in Seq(Elem) /\ push_head(x.list, r.vals) \in Seq(Elem)
      BY <2>1, <3>1 DEF push_tail, push_head
    <3> QED
      BY <3>2 DEF List, Object
  <2>3. o = None \/ o.type # "list" \/ o \in List
    BY TypeTag
  <2>4. obj_create_list \in List
    BY FreshOK
  <2>5. CASE r.cmd = "RPUSH"
    BY <2>2, <2>3, <2>4, <2>5 DEF replay_cmd, ReplayOn
  <2>6. CASE r.cmd = "LPUSH"
    BY <2>2, <2>3, <2>4, <2>6 DEF replay_cmd, ReplayOn
  <2> QED
    BY <1>3, <2>5, <2>6
<1>4. CASE r.cmd = "HSET"
  <2>1. DOMAIN r.fields \subseteq Field /\ \A f \in DOMAIN r.fields : r.fields[f] \in Payload
    <3>1. r.fields \in Mapping(Field, Payload)
      BY <1>4 DEF Record
    <3> QED
      BY <3>1, MappingPoint
  <2>2. \A x \in Hash : [x EXCEPT !.fields = Overlay(x.fields, r.fields)] \in Object
    BY <2>1 DEF Overlay, Hash, Object
  <2>3. o = None \/ o.type # "hash" \/ o \in Hash
    BY TypeTag
  <2> QED
    BY <1>4, <2>2, <2>3, FreshOK DEF replay_cmd, ReplayOn
<1>5. CASE r.cmd = "HDEL"
  <2>1. \A x \in Hash : [x EXCEPT !.fields = Dropped(x.fields, r.removed)] \in Object
    BY DroppedType DEF Hash, Object
  <2>2. o = None \/ o.type # "hash" \/ o \in Hash
    BY TypeTag
  <2> QED
    BY <1>5, <2>1, <2>2 DEF replay_cmd, ReplayOn
<1>6. CASE r.cmd = "ZADD"
  <2>1. \A m \in DOMAIN r.scores : r.scores[m] \in Score
    <3>1. r.scores \in Mapping(Member, Score)
      BY <1>6 DEF Record
    <3> QED
      BY <3>1, MappingPoint
  <2>2. \A x \in ZSet :
          [x EXCEPT !.scores = [m \in Member |-> IF m \in DOMAIN r.scores
                                                   THEN r.scores[m] ELSE x.scores[m]]]
            \in Object
    BY <2>1 DEF ZSet, Object
  <2>3. o = None \/ o.type # "zset" \/ o \in ZSet
    BY TypeTag
  <2> QED
    BY <1>6, <2>2, <2>3, FreshOK DEF replay_cmd, ReplayOn
<1>7. CASE r.cmd = "ZREM"
  <2>1. \A x \in ZSet : [x EXCEPT !.scores = Dropped(x.scores, r.removed)] \in Object
    BY DroppedType DEF ZSet, Object
  <2>2. o = None \/ o.type # "zset" \/ o \in ZSet
    BY TypeTag
  <2> QED
    BY <1>7, <2>1, <2>2 DEF replay_cmd, ReplayOn
<1> QED
  BY <1>1, <1>2, <1>3, <1>4, <1>5, <1>6, <1>7 DEF Record

-----------------------------------------------------------------------------
(* The steps. *)

\* A step of a command, the sweeper or the clock, with the log.
LEMMA LoggedOK ==
    ASSUME AofInv, Logged(Next)
    PROVE  AofInv'
<1>1. Inv /\ Proper
  BY NextOK DEF AofInv, Logged
<1>2. Inv'
  BY <1>1, InvJoin DEF Proper
<1>3. /\ disk \in [Key -> Object \cup {None}]
      /\ \A k \in Key \ drifted : SameAt(k)
      /\ aof_append_len /\ drifted' = (drifted \cup Removed \cup Misfiled) \ Reset
  BY DEF AofInv, Logged
<1>4. appended' = None \/ (appended' \in Record /\ appended'.key \in Key)
  BY <1>1 DEF Proper, Tidy, Record
<1>5. disk' \in [Key -> Object \cup {None}]
  <2>1. CASE appended' = None
    BY <1>3, <2>1 DEF aof_append_len
  <2>2. CASE appended' # None
    <3>1. replay_cmd(disk[appended'.key], appended') \in Object \cup {None}
      BY <1>3, <1>4, <2>2, ReplayObject
    <3>2. disk' = [disk EXCEPT ![appended'.key] = replay_cmd(disk[appended'.key], appended')]
      BY <1>3, <2>2 DEF aof_append_len
    <3> QED
      BY <1>3, <3>1, <3>2
  <2> QED
    BY <2>1, <2>2
<1>6. ASSUME NEW k \in Key, k \notin drifted'
      PROVE  SameAt(k)'
  <2> DEFINE o == keys[DB0][k]
             n == keys'[DB0][k]
  <2>1. DB0 \in DB
    BY AofStoreAssumption
  <2>2. Gone(DB0, k) \/ Stays(DB0, k) \/ Made(DB0, k)
    BY <1>1, <2>1 DEF Proper, Straight
  <2>3. k \notin Misfiled \/ k \in Reset
    BY <1>3, <1>6
  <2>4. db_is_expired(DB0, k) => o # None
    BY <1>1, <2>1, LookupOK, InvSplit
  <2>5. None \notin Empty
    BY EmptyOK
  <2>6. CASE Logs(DB0, k)
    <3>1. disk'[k] = replay_cmd(disk[k], appended')
      BY <1>3, <2>6 DEF Logs, aof_append_len
    <3>2. Tells(db_lookup(DB0, k), appended', n)
      BY <2>2, <2>6 DEF Gone, Stays, Made
    <3>3. CASE appended'.cmd = "SET"
      BY <3>1, <3>2, <3>3 DEF Tells, replay_cmd, SameAt
    <3>4. CASE appended'.cmd # "SET"
      <4>1. k \notin Reset
        BY <2>6, <3>4 DEF Reset, Logs
      <4>2. SameAt(k) /\ k \notin Removed
        BY <1>3, <1>6, <4>1
      <4>3. ~db_is_expired(DB0, k)
        BY <2>2, <2>4, <2>6, <3>4, <4>2 DEF Gone, Stays, Made, Removed
      <4>4. Tells(o, appended', n)
        BY <3>2, <4>3 DEF db_lookup
      <4> QED
        BY <3>1, <4>2, <4>4 DEF SameAt, Tells
    <3> QED
      BY <3>3, <3>4
  <2>7. CASE ~Logs(DB0, k)
    <3>1. k \notin Reset
      BY <2>7 DEF Reset, Logs
    <3>2. SameAt(k) /\ k \notin Removed /\ k \notin Misfiled
      BY <1>3, <1>6, <3>1
    <3>3. disk'[k] = disk[k]
      BY <1>3, <2>7, <3>2 DEF Misfiled, Logs, aof_append_len
    <3>4. CASE n = None
      <4>1. o = None
        BY <3>2, <3>4 DEF Removed
      <4> QED
        BY <2>5, <3>2, <3>3, <3>4, <4>1 DEF SameAt
    <3>5. CASE n = o
      BY <3>2, <3>3, <3>5 DEF SameAt
    <3>6. CASE db_lookup(DB0, k) = None /\ n \in Empty
      <4>1. ~db_is_expired(DB0, k) \/ o = n
        BY <2>2, <2>4, <2>5, <2>7, <3>2, <3>6 DEF Gone, Stays, Made, Removed
      <4>2. CASE ~db_is_expired(DB0, k)
        <5>1. o = None
          BY <3>6, <4>2 DEF db_lookup
        <5> QED
          BY <2>5, <3>2, <3>3, <3>6, <5>1 DEF SameAt
      <4> QED
        BY <3>5, <4>1, <4>2
    <3> QED
      BY <2>2, <2>7, <3>4, <3>5, <3>6 DEF Gone, Stays, Made
  <2> QED
    BY <2>6, <2>7
<1> QED
  BY <1>2, <1>5, <1>6 DEF AofInv

\* Opening the store again: the databases are what the log tells.
LEMMA ReopenOK ==
    ASSUME AofInv, Reopen
    PROVE  AofInv'
<1>1. /\ disk \in [Key -> Object \cup {None}] /\ disk' = disk /\ now' = now /\ appended' = None
      /\ keys' = [d \in DB |-> IF d = DB0 THEN disk ELSE [k \in Key |-> None]]
      /\ expires' = [d \in DB |-> [k \in Key |-> None]]
      /\ DB0 \in DB
  BY AofStoreAssumption DEF AofInv, Reopen, aof_append
<1>2. KeyspaceInv'
  BY <1>1 DEF KeyspaceInv, DatabasesOK, ExpiresHaveKeys
<1>3. Tidy
  BY <1>1, InvSplit DEF AofInv, Tidy
<1>4. \A k \in Key : SameAt(k)'
  BY <1>1 DEF SameAt
<1> QED
  BY <1>1, <1>2, <1>3, <1>4, InvJoin DEF AofInv

\* An empty log and an empty store agree.
LEMMA AofInitOK == AofInit => AofInv
BY InitOK, AofStoreAssumption DEF AofInit, Init, AofInv, SameAt

\* The invariant is about the variables of AofStore only.
LEMMA AofStutter == AofInv /\ UNCHANGED aofVars => AofInv'
<1> SUFFICES ASSUME AofInv, UNCHANGED aofVars PROVE AofInv'
  OBVIOUS
<1>1. Inv'
  BY InvStutter DEF AofInv, aofVars
<1> QED
  BY <1>1 DEF AofInv, SameAt, aofVars, vars

\* The invariant of the log always holds.
LEMMA AofInvariance == AofSpec => []AofInv
<1>1. AofInv /\ [AofNext]_aofVars => AofInv'
  BY LoggedOK, ReopenOK, AofStutter DEF AofNext
<1> QED
  BY <1>1, AofInitOK, PTL DEF AofSpec

\* Whatever mix of commands, sweeps, clock steps and reopenings made the databases,
\* the log gives every key of database 0 the content it has in memory, unless one of
\* the records it needs is missing or misfiled.
THEOREM LogIsExact == AofSpec => []ReplayExact
<1>1. AofInv => ReplayExact
  <2> SUFFICES ASSUME AofInv, NEW k \in Key \ drifted
               PROVE  Content(disk[k]) = Content(keys[DB0][k])
    BY DEF ReplayExact
  <2>1. SameAt(k)
    BY DEF AofInv
  <2>2. Content(None) = None /\ \A o \in Empty : Content(o) = None
    BY EmptyOK DEF Content, Empty
  <2> QED
    BY <2>1, <2>2 DEF SameAt
<1> QED
  BY <1>1, AofInvariance, PTL

-----------------------------------------------------------------------------
(* The snapshot. *)

\* q lists S: it has every element once and nothing else.
Lists(q, S) ==
    /\ Len(q) \in Nat /\ DOMAIN q = 1..Len(q)
    /\ \A i \in 1..Len(q) : q[i] \in S
    /\ \A x \in S : \E i \in 1..Len(q) : q[i] = x

\* An iterator over a finite dict meets every entry.
LEMMA SetToSeqLists ==
    ASSUME NEW S, IsFiniteSet(S)
    PROVE  Lists(SetToSeq(S), S)
<1> DEFINE n == Cardinality(S)
           q == SetToSeq(S)
<1>1. n \in Nat /\ ExistsBijection(1..n, S)
  BY FS_CardinalityType
<1>2. PICK f : f \in Bijection(1..n, S)
  BY <1>1 DEF ExistsBijection
<1>3. f \in [1..n -> S] /\ IsInjective(f)
  BY <1>2 DEF Bijection, Injection
<1>4. q \in [1..n -> S] /\ IsInjective(q)
  <2> HIDE DEF n
  <2> QED
    BY <1>3 DEF SetToSeq, n
<1>5. q \in Injection(1..n, S)
  BY <1>4 DEF Injection
<1>6. IsFiniteSet(1..n) /\ Cardinality(1..n) = n
  BY <1>1, FS_Interval
<1>7. q \in Surjection(1..n, S)
  <2> HIDE DEF q
  <2> QED
    BY <1>5, <1>6, FS_Injection
<1>8. \A x \in S : \E i \in 1..n : q[i] = x
  BY <1>7 DEF Surjection
<1>9. q \in Seq(S) /\ Len(q) = n
  <2> HIDE DEF q, n
  <2> QED
    BY <1>1, <1>4
<1>10. Lists(q, S)
  <2> HIDE DEF q, n
  <2> QED
    BY <1>1, <1>4, <1>8, <1>9 DEF Lists
<1> QED
  BY <1>10

\* The part of f that is under the names met up to pass i.
UpTo(f, q, i) == [x \in DOMAIN f |-> IF \E j \in 1..i : q[j] = x THEN f[x] ELSE None]

\* A pass replaces what it reads and nothing else.
LEMMA UpToNext ==
    ASSUME NEW D, NEW R, NEW f \in [D -> R], NEW q, NEW S, Lists(q, S), S \subseteq D,
           NEW i \in 1..Len(q)
    PROVE  UpTo(f, q, i) = [UpTo(f, q, i - 1) EXCEPT ![q[i]] = f[q[i]]]
<1>1. Len(q) \in Nat /\ q[i] \in D
  BY DEF Lists
<1>2. \A x : (\E j \in 1..i : q[j] = x) <=> (x = q[i] \/ \E j \in 1..(i - 1) : q[j] = x)
  <2>1. 1..i = 1..(i - 1) \cup {i}
    BY <1>1
  <2> QED
    BY <2>1
<1> QED
  BY <1>1, <1>2 DEF UpTo

\* After the last one f is complete, if the rest of it is absent.
LEMMA UpToLast ==
    ASSUME NEW D, NEW R, NEW f \in [D -> R], NEW q, Lists(q, Present(f))
    PROVE  UpTo(f, q, Len(q)) = f
BY DEF UpTo, Lists, Present

\* Two loops of N passes start alike, and the passes keep them alike.
InStep(read, want, N) ==
    /\ read[0] = want[0]
    /\ \A i \in 1..N : read[i - 1] = want[i - 1] => read[i] = want[i]

\* Such loops are alike after every pass.
LEMMA Alike ==
    ASSUME NEW N \in Nat, NEW read, NEW want, InStep(read, want, N)
    PROVE  \A i \in 0..N : read[i] = want[i]
<1> DEFINE Bad == {i \in 0..N : read[i] # want[i]}
<1> SUFFICES ASSUME Bad # {} PROVE FALSE
  OBVIOUS
<1>1. PICK m \in Bad : \A i \in Bad : m <= i
  <2>1. Bad \in SUBSET Nat
    OBVIOUS
  <2> HIDE DEF Bad
  <2> QED
    BY <2>1, LeastElement
<1>2. m \in 1..N /\ m - 1 \in 0..N /\ m - 1 \notin Bad
  BY <1>1 DEF InStep
<1>3. read[m - 1] = want[m - 1]
  BY <1>2
<1> QED
  BY <1>1, <1>2, <1>3 DEF InStep

\* Writing the pairs of a map and reading them into an empty one gives the map:
\* save_hash and save_zset with the loops of rdb_load.
LEMMA ReadPairsOK ==
    ASSUME NEW D, IsFiniteSet(D), NEW R, NEW f \in [D -> R]
    PROVE  ReadPairs([x \in D |-> None], Pairs(f)) = f
<1> DEFINE q == SetToSeq(Present(f))
           n == Len(q)
           pairs == Pairs(f)
           empty == [x \in D |-> None]
           want == [i \in 0..n |-> UpTo(f, q, i)]
           Builds(g) ==
               g = [i \in 0..n |-> IF i = 0 THEN empty
                                    ELSE [g[i - 1] EXCEPT ![pairs[i][1]] = pairs[i][2]]]
           read == CHOOSE g : Builds(g)
<1>1. Lists(q, Present(f)) /\ Present(f) \subseteq D
  <2>1. Present(f) \subseteq D
    BY DEF Present
  <2>2. IsFiniteSet(Present(f))
    BY <2>1, FS_Subset
  <2> QED
    BY <2>1, <2>2, SetToSeqLists
<1>2. n \in Nat
  BY <1>1 DEF Lists
<1>3. pairs = [i \in 1..n |-> <<q[i], f[q[i]]>>]
  BY <1>1 DEF Lists, Pairs
<1>4. Len(pairs) = n
  <2> HIDE DEF n, q, pairs
  <2> QED
    BY <1>2, <1>3
<1>5. UpTo(f, q, 0) = empty
  BY DEF UpTo
<1>6. ASSUME NEW i \in 1..n
      PROVE  UpTo(f, q, i) = [UpTo(f, q, i - 1) EXCEPT ![pairs[i][1]] = pairs[i][2]]
  <2>1. UpTo(f, q, i) = [UpTo(f, q, i - 1) EXCEPT ![q[i]] = f[q[i]]]
    <3> HIDE DEF q
    <3> QED
      BY <1>1, UpToNext
  <2>2. pairs[i][1] = q[i] /\ pairs[i][2] = f[q[i]]
    <3> HIDE DEF q, pairs, n
    <3> QED
      BY <1>3
  <2> HIDE DEF q, pairs
  <2> QED
    BY <2>1, <2>2
<1>7. Builds(want)
  <2> HIDE DEF q, n, pairs, empty
  <2> QED
    BY <1>2, <1>5, <1>6
<1>8. Builds(read)
  <2> HIDE DEF Builds, want
  <2> QED
    BY <1>7
<1>9. InStep(read, want, n)
  <2>1. /\ read[0] = empty
        /\ \A i \in 1..n :
              read[i] = [read[i - 1] EXCEPT ![pairs[i][1]] = pairs[i][2]]
    <3> HIDE DEF n, pairs, empty, read
    <3>1. 0 \in 0..n /\ \A i \in 1..n : i \in 0..n /\ i # 0
      BY <1>2
    <3> QED
      BY <1>8, <3>1, Zenon
  <2>2. /\ want[0] = empty
        /\ \A i \in 1..n :
              want[i] = [want[i - 1] EXCEPT ![pairs[i][1]] = pairs[i][2]]
    <3>1. 0 \in 0..n /\ \A i \in 1..n : i \in 0..n /\ i # 0 /\ i - 1 \in 0..n
      BY <1>2
    <3>2. \A i \in 0..n : want[i] = UpTo(f, q, i)
      OBVIOUS
    <3> HIDE DEF want, q, n, pairs, empty
    <3> QED
      BY <1>5, <1>6, <3>1, <3>2
  <2> HIDE DEF n, pairs, empty, read, want
  <2> QED
    BY <2>1, <2>2 DEF InStep
<1>10. \A i \in 0..n : read[i] = want[i]
  <2> HIDE DEF read, want, n
  <2> QED
    BY <1>2, <1>9, Alike
<1>11. read[n] = f
  <2>1. want[n] = UpTo(f, q, n)
    BY <1>2
  <2>2. UpTo(f, q, n) = f
    <3> HIDE DEF q
    <3> QED
      BY <1>1, UpToLast DEF n
  <2> HIDE DEF read, want, n
  <2> QED
    BY <1>2, <1>10, <2>1, <2>2
<1>12. ReadPairs(empty, pairs) = read[n]
  <2> HIDE DEF empty, pairs, n
  <2> QED
    BY <1>4 DEF ReadPairs
<1> QED
  BY <1>11, <1>12

\* Pushing the elements of a list one after another at the tail gives the list:
\* save_list with the loop of rdb_load.
LEMMA ReadElementsOK ==
    ASSUME NEW list \in Seq(Elem)
    PROVE  ReadElements(list) = list
<1> DEFINE n == Len(list)
           want == [i \in 0..n |-> SubSeq(list, 1, i)]
           Builds(g) ==
               g = [i \in 0..n |-> IF i = 0 THEN obj_create_list.list
                                    ELSE push_tail(g[i - 1], <<list[i]>>)]
           read == CHOOSE g : Builds(g)
<1>1. n \in Nat
  OBVIOUS
<1>2. SubSeq(list, 1, 0) = obj_create_list.list
  BY DEF obj_create_list
<1>3. ASSUME NEW i \in 1..n
      PROVE  SubSeq(list, 1, i) = push_tail(SubSeq(list, 1, i - 1), <<list[i]>>)
  BY DEF push_tail
<1>4. \A i \in 0..n : want[i] = SubSeq(list, 1, i)
  OBVIOUS
<1>5. 0 \in 0..n /\ \A i \in 1..n : i \in 0..n /\ i # 0 /\ i - 1 \in 0..n
  BY <1>1
<1>6. Builds(want)
  <2>1. ASSUME NEW i \in 0..n
        PROVE  want[i] = IF i = 0 THEN obj_create_list.list
                         ELSE push_tail(want[i - 1], <<list[i]>>)
    <3>1. i = 0 \/ i \in 1..n
      BY <1>1
    <3> HIDE DEF want, n
    <3> QED
      BY <1>2, <1>3, <1>4, <1>5, <3>1
  <2> DEFINE made == [i \in 0..n |-> IF i = 0 THEN obj_create_list.list
                                      ELSE push_tail(want[i - 1], <<list[i]>>)]
  <2>2. \A i \in 0..n : want[i] = made[i]
    BY <2>1
  <2>3. DOMAIN want = 0..n /\ DOMAIN made = 0..n
    OBVIOUS
  <2>4. want = [i \in 0..n |-> want[i]] /\ made = [i \in 0..n |-> made[i]]
    OBVIOUS
  <2>5. want = made
    <3> HIDE DEF want, made
    <3> QED
      BY <2>2, <2>4
  <2> QED
    BY <2>5
<1>7. Builds(read)
  <2> HIDE DEF Builds, want
  <2> QED
    BY <1>6
<1>8. InStep(read, want, n)
  <2>1. /\ read[0] = obj_create_list.list
        /\ \A i \in 1..n : read[i] = push_tail(read[i - 1], <<list[i]>>)
    <3> HIDE DEF n, read
    <3> QED
      BY <1>5, <1>7, Zenon
  <2>2. /\ want[0] = obj_create_list.list
        /\ \A i \in 1..n : want[i] = push_tail(want[i - 1], <<list[i]>>)
    <3> HIDE DEF want, n
    <3> QED
      BY <1>2, <1>3, <1>4, <1>5
  <2> HIDE DEF n, read, want
  <2> QED
    BY <2>1, <2>2 DEF InStep
<1>9. \A i \in 0..n : read[i] = want[i]
  <2> HIDE DEF read, want, n
  <2> QED
    BY <1>1, <1>8, Alike
<1>10. read[n] = list
  <2>1. SubSeq(list, 1, n) = list
    OBVIOUS
  <2>2. n \in 0..n
    BY <1>1
  <2> HIDE DEF read, want, n
  <2> QED
    BY <1>4, <1>9, <2>1, <2>2
<1>11. ReadElements(list) = read[n]
  BY DEF ReadElements
<1> QED
  BY <1>10, <1>11

\* The object an entry is read as is the one it was written of, of whatever type.
LEMMA ObjectSurvives ==
    ASSUME DatabasesOK, NEW d \in DB, NEW k \in Key, keys[d][k] # None
    PROVE  LoadedObject(Entry(d, k)) = keys[d][k]
<1> DEFINE o == keys[d][k]
           e == Entry(d, k)
<1>1. o \in Object
  BY DEF DatabasesOK
<1>2. /\ e.type = o.type /\ e.val = SavedValue(o)
      /\ e.encoding = IF o.type = "string" THEN o.enc ELSE RAW
  BY DEF Entry
<1> HIDE DEF e
<1>3. CASE o \in String
  <2>1. o.type = "string" /\ o = obj_create_string(o.str, o.enc)
    BY <1>3 DEF String, obj_create_string
  <2>2. e.val = o.str
    BY <1>2, <2>1 DEF SavedValue
  <2>3. LoadedObject(e) = obj_create_string(e.val, e.encoding)
    BY <1>2, <2>1 DEF LoadedObject
  <2> QED
    BY <1>2, <2>1, <2>2, <2>3 DEF e
<1>4. CASE o \in List
  <2>1. o.type = "list" /\ o.list \in Seq(Elem) /\ o = [obj_create_list EXCEPT !.list = o.list]
    BY <1>4 DEF List, obj_create_list
  <2>2. e.val = o.list
    BY <1>2, <2>1 DEF SavedValue
  <2>3. LoadedObject(e) = [obj_create_list EXCEPT !.list = ReadElements(e.val)]
    BY <1>2, <2>1 DEF LoadedObject
  <2>4. ReadElements(o.list) = o.list
    BY <2>1, ReadElementsOK
  <2> QED
    BY <2>1, <2>2, <2>3, <2>4 DEF e
<1>5. CASE o \in Hash
  <2>1. o.type = "hash" /\ o.fields \in [Field -> Payload \cup {None}]
        /\ o = [obj_create_hash EXCEPT !.fields = o.fields]
    BY <1>5 DEF Hash, obj_create_hash
  <2>2. e.val = Pairs(o.fields)
    BY <1>2, <2>1 DEF SavedValue
  <2>3. LoadedObject(e) =
          [obj_create_hash EXCEPT !.fields = ReadPairs([f \in Field |-> None], e.val)]
    BY <1>2, <2>1 DEF LoadedObject, obj_create_hash
  <2>4. ReadPairs([f \in Field |-> None], Pairs(o.fields)) = o.fields
    BY <2>1, ReadPairsOK, RdbStoreAssumption
  <2> QED
    BY <2>1, <2>2, <2>3, <2>4 DEF e
<1>6. CASE o \in ZSet
  <2>1. o.type = "zset" /\ o.scores \in [Member -> Score \cup {None}]
        /\ o = [obj_create_zset EXCEPT !.scores = o.scores]
    BY <1>6 DEF ZSet, obj_create_zset
  <2>2. e.val = Pairs(o.scores)
    BY <1>2, <2>1 DEF SavedValue
  <2>3. LoadedObject(e) =
          [obj_create_zset EXCEPT !.scores = ReadPairs([m \in Member |-> None], e.val)]
    BY <1>2, <2>1 DEF LoadedObject, obj_create_zset
  <2>4. ReadPairs([m \in Member |-> None], Pairs(o.scores)) = o.scores
    BY <2>1, ReadPairsOK, RdbStoreAssumption
  <2> QED
    BY <2>1, <2>2, <2>3, <2>4 DEF e
<1> QED
  BY <1>1, <1>3, <1>4, <1>5, <1>6 DEF Object, e

\* The deadline a key has in a snapshot.
SavedDeadline(d, k) == IF db_get_expire(d, k) >= 0 THEN expires[d][k] ELSE None

\* One of the first i entries is that of key k of database d.
Met(q, i, d, k) == \E j \in 1..i : q[j] = <<d, k>>

\* What has been loaded of f when the first i entries were read.
LoadedPart(f, q, i) ==
    [d \in DB |-> [k \in Key |-> IF Met(q, i, d, k) THEN f[d][k] ELSE None]]

\* The i-th pass changes one place of what was loaded of f.
PassOn(f, q, i, d, k) ==
    LoadedPart(f, q, i) = [LoadedPart(f, q, i - 1) EXCEPT ![d][k] = f[d][k]]

LoadedUpTo(q, i) ==
    [keys    |-> LoadedPart(keys, q, i),
     expires |-> LoadedPart([d \in DB |-> [k \in Key |-> SavedDeadline(d, k)]], q, i)]

\* A pass of the loop that loads changes one place of a map of maps.
LEMMA LoadedPartNext ==
    ASSUME NEW f, NEW q, Lists(q, Places), NEW i \in 1..Len(q), NEW d, NEW k, q[i] = <<d, k>>
    PROVE  PassOn(f, q, i, d, k)
<1>1. Len(q) \in Nat /\ q[i] \in Places
  BY DEF Lists
<1>2. d \in DB /\ k \in Key
  BY <1>1 DEF Places
<1>3. 1..i = 1..(i - 1) \cup {i}
  BY <1>1
<1>4. \A b \in DB, x \in Key : Met(q, i, b, x) <=> (b = d /\ x = k) \/ Met(q, i - 1, b, x)
  BY <1>3 DEF Met
<1> DEFINE old == LoadedPart(f, q, i - 1)
           new == LoadedPart(f, q, i)
           next == [old EXCEPT ![d][k] = f[d][k]]
<1>5. /\ new = [b \in DB |-> [x \in Key |-> IF Met(q, i, b, x) THEN f[b][x] ELSE None]]
      /\ old = [b \in DB |-> [x \in Key |-> IF Met(q, i - 1, b, x) THEN f[b][x] ELSE None]]
  BY DEF LoadedPart
<1>6. next = [b \in DB |-> [x \in Key |-> IF b = d /\ x = k THEN f[d][k] ELSE old[b][x]]]
  <2> HIDE DEF old
  <2>1. DOMAIN old = DB /\ \A b \in DB : old[b] = [x \in Key |-> old[b][x]]
    BY <1>5
  <2>2. next = [b \in DB |-> IF b = d THEN [old[d] EXCEPT ![k] = f[d][k]] ELSE old[b]]
    BY <1>2, <1>5
  <2> HIDE DEF next
  <2> QED
    BY <1>2, <2>1, <2>2
<1>7. \A b \in DB, x \in Key :
        (IF Met(q, i, b, x) THEN f[b][x] ELSE None)
          = (IF b = d /\ x = k THEN f[d][k] ELSE old[b][x])
  <2> HIDE DEF old
  <2> QED
    BY <1>4, <1>5
<1>8. new = next
  <2> HIDE DEF old, new, next
  <2> QED
    BY <1>5, <1>6, <1>7
<1> QED
  BY <1>8 DEF PassOn

\* The entry of a place has its deadline, if that is written.
LEMMA DeadlineSurvives ==
    ASSUME DatabasesOK, NEW d \in DB, NEW k \in Key
    PROVE  /\ Entry(d, k).db = d /\ Entry(d, k).key = k
           /\ Entry(d, k).dl = SavedDeadline(d, k)
<1>1. expires[d][k] \in Int \cup {None} /\ None \notin Int
  BY ObjectsAssumption DEF DatabasesOK
<1> QED
  BY <1>1 DEF Entry, SavedDeadline, db_get_expire

\* Loading the next entry.
LEMMA LoadNext ==
    ASSUME DatabasesOK, NEW q, Lists(q, Places), NEW i \in 1..Len(q)
    PROVE  LoadedUpTo(q, i) = LoadEntry(LoadedUpTo(q, i - 1), Entry(q[i][1], q[i][2]))
<1> DEFINE d == q[i][1]
           k == q[i][2]
           saved == [b \in DB |-> [x \in Key |-> SavedDeadline(b, x)]]
           old == LoadedUpTo(q, i - 1)
<1>1. q[i] = <<d, k>> /\ d \in DB /\ k \in Key /\ keys[d][k] # None
  BY DEF Lists, Places
<1> HIDE DEF d, k
<1>2. LoadedPart(keys, q, i) = [LoadedPart(keys, q, i - 1) EXCEPT ![d][k] = keys[d][k]]
  <2>1. PassOn(keys, q, i, d, k)
    BY <1>1, LoadedPartNext
  <2> QED
    BY <2>1 DEF PassOn
<1>3. LoadedPart(saved, q, i) = [LoadedPart(saved, q, i - 1) EXCEPT ![d][k] = saved[d][k]]
  <2>1. PassOn(saved, q, i, d, k)
    <3> HIDE DEF saved
    <3> QED
      BY <1>1, LoadedPartNext
  <2> QED
    BY <2>1 DEF PassOn
<1>4. saved[d][k] = SavedDeadline(d, k)
  BY <1>1
<1>5. LoadedPart(saved, q, i - 1)[d][k] \in {None, saved[d][k]}
  <2> HIDE DEF saved
  <2> QED
    BY <1>1 DEF LoadedPart
<1>6. saved[d][k] = IF Entry(d, k).dl = None THEN LoadedPart(saved, q, i - 1)[d][k]
                    ELSE Entry(d, k).dl
  <2>1. Entry(d, k).dl = saved[d][k]
    BY <1>1, <1>4, DeadlineSurvives
  <2> HIDE DEF saved
  <2> QED
    BY <1>5, <2>1
<1>7. LoadEntry(old, Entry(d, k)) =
        [old EXCEPT !.keys[d][k] = keys[d][k], !.expires[d][k] = saved[d][k]]
  <2>1. old.expires[d][k] = LoadedPart(saved, q, i - 1)[d][k]
    BY DEF LoadedUpTo
  <2>2. Entry(d, k).db = d /\ Entry(d, k).key = k
    BY <1>1, DeadlineSurvives
  <2>3. LoadedObject(Entry(d, k)) = keys[d][k]
    BY <1>1, ObjectSurvives
  <2> HIDE DEF old, saved
  <2> QED
    BY <1>6, <2>1, <2>2, <2>3 DEF LoadEntry
<1>8. old = [keys |-> LoadedPart(keys, q, i - 1), expires |-> LoadedPart(saved, q, i - 1)]
      /\ LoadedUpTo(q, i) = [keys |-> LoadedPart(keys, q, i), expires |-> LoadedPart(saved, q, i)]
  BY DEF LoadedUpTo
<1>9. LoadedUpTo(q, i) = LoadEntry(old, Entry(d, k))
  <2> HIDE DEF old, saved
  <2> QED
    BY <1>2, <1>3, <1>7, <1>8
<1> QED
  BY <1>9 DEF d, k

\* Loading what was saved gives every key its object, and every deadline that was
\* written.
LEMMA LoadSaved ==
    ASSUME DatabasesOK, ExpiresHaveKeys
    PROVE  rdb_load(rdb_save) =
             [keys |-> keys,
              expires |-> [d \in DB |-> [k \in Key |-> SavedDeadline(d, k)]]]
<1> DEFINE q == SetToSeq(Places)
           n == Len(q)
           file == rdb_save
           empty == [d \in DB |-> [k \in Key |-> None]]
           first == [keys |-> empty, expires |-> empty]
           want == [i \in 0..n |-> LoadedUpTo(q, i)]
           made == [i \in 0..n |-> IF i = 0 THEN first ELSE LoadEntry(want[i - 1], file[i])]
           Builds(g) ==
               g = [i \in 0..n |-> IF i = 0 THEN first ELSE LoadEntry(g[i - 1], file[i])]
           read == CHOOSE g : Builds(g)
<1>1. Lists(q, Places)
  <2>1. IsFiniteSet(DB \X Key)
    BY RdbStoreAssumption, FS_Product
  <2>2. Places \subseteq DB \X Key
    BY DEF Places
  <2>3. IsFiniteSet(Places)
    BY <2>1, <2>2, FS_Subset
  <2> QED
    BY <2>3, SetToSeqLists
<1>2. n \in Nat
  BY <1>1 DEF Lists
<1>3. file = [i \in 1..n |-> Entry(q[i][1], q[i][2])]
  BY <1>1 DEF Lists, rdb_save
<1>4. Len(file) = n
  <2> HIDE DEF n, q, file
  <2> QED
    BY <1>2, <1>3
<1>5. LoadedUpTo(q, 0) = first
  BY DEF LoadedUpTo, LoadedPart, Met
<1>6. ASSUME NEW i \in 1..n
      PROVE  LoadedUpTo(q, i) = LoadEntry(LoadedUpTo(q, i - 1), file[i])
  <2>1. LoadedUpTo(q, i) = LoadEntry(LoadedUpTo(q, i - 1), Entry(q[i][1], q[i][2]))
    <3> HIDE DEF q
    <3> QED
      BY <1>1, LoadNext
  <2> HIDE DEF q, n, file
  <2> QED
    BY <1>3, <2>1
<1>7. 0 \in 0..n /\ \A i \in 1..n : i \in 0..n /\ i # 0 /\ i - 1 \in 0..n
  BY <1>2
<1>8. \A i \in 0..n : want[i] = LoadedUpTo(q, i)
  OBVIOUS
<1>9. want = made
  <2>1. ASSUME NEW i \in 0..n
        PROVE  want[i] = IF i = 0 THEN first ELSE LoadEntry(want[i - 1], file[i])
    <3>1. i = 0 \/ i \in 1..n
      BY <1>2
    <3> HIDE DEF want, n, q, file, first
    <3> QED
      BY <1>5, <1>6, <1>7, <1>8, <3>1
  <2>2. \A i \in 0..n : want[i] = made[i]
    BY <2>1
  <2>3. want = [i \in 0..n |-> want[i]] /\ made = [i \in 0..n |-> made[i]]
    OBVIOUS
  <2> HIDE DEF want, made
  <2> QED
    BY <2>2, <2>3
<1>10. Builds(read)
  <2>1. Builds(want)
    BY <1>9
  <2> HIDE DEF Builds, want
  <2> QED
    BY <2>1
<1>11. InStep(read, want, n)
  <2>1. /\ read[0] = first
        /\ \A i \in 1..n : read[i] = LoadEntry(read[i - 1], file[i])
    <3> HIDE DEF n, read, file, first
    <3> QED
      BY <1>7, <1>10, Zenon
  <2>2. /\ want[0] = first
        /\ \A i \in 1..n : want[i] = LoadEntry(want[i - 1], file[i])
    <3> HIDE DEF want, n, file, first, q
    <3> QED
      BY <1>5, <1>6, <1>7, <1>8
  <2> HIDE DEF n, read, want, file, first
  <2> QED
    BY <2>1, <2>2 DEF InStep
<1>12. \A i \in 0..n : read[i] = want[i]
  <2> HIDE DEF read, want, n
  <2> QED
    BY <1>2, <1>11, Alike
<1>13. rdb_load(file) = read[n]
  <2> HIDE DEF file, n
  <2> QED
    BY <1>4 DEF rdb_load
<1>14. read[n] = LoadedUpTo(q, n)
  <2> HIDE DEF read, want, n, q
  <2> QED
    BY <1>2, <1>8, <1>12
<1>15. \A d \in DB, k \in Key :
         /\ Met(q, n, d, k) <=> keys[d][k] # None
         /\ keys[d][k] = None => SavedDeadline(d, k) = None
  <2>1. ASSUME NEW d \in DB, NEW k \in Key
        PROVE  Met(q, n, d, k) <=> keys[d][k] # None
    <3>1. <<d, k>> \in Places <=> keys[d][k] # None
      BY DEF Places
    <3> HIDE DEF q
    <3> QED
      BY <1>1, <3>1 DEF Lists, Met
  <2>2. ASSUME NEW d \in DB, NEW k \in Key, keys[d][k] = None
        PROVE  SavedDeadline(d, k) = None
    BY <2>2 DEF SavedDeadline, ExpiresHaveKeys
  <2> QED
    BY <2>1, <2>2
<1>16. LoadedUpTo(q, n) = [keys |-> keys,
                           expires |-> [d \in DB |-> [k \in Key |-> SavedDeadline(d, k)]]]
  <2>1. LoadedPart(keys, q, n) = keys
    <3> HIDE DEF q, n
    <3> QED
      BY <1>15 DEF LoadedPart, DatabasesOK
  <2>2. LoadedPart([d \in DB |-> [k \in Key |-> SavedDeadline(d, k)]], q, n)
          = [d \in DB |-> [k \in Key |-> SavedDeadline(d, k)]]
    <3> HIDE DEF q, n
    <3> QED
      BY <1>15 DEF LoadedPart
  <2> QED
    BY <2>1, <2>2 DEF LoadedUpTo
<1> QED
  BY <1>13, <1>14, <1>16

\* Closing and opening: the databases are those saved.
LEMMA ReopenSavedOK ==
    ASSUME Inv, ReopenSaved
    PROVE  /\ keys' = keys
           /\ expires' = [d \in DB |-> [k \in Key |-> SavedDeadline(d, k)]]
           /\ Inv'
<1>1. KeyspaceInv
  BY InvSplit
<1>2. rdb_load(rdb_save) = [keys |-> keys,
                            expires |-> [d \in DB |-> [k \in Key |-> SavedDeadline(d, k)]]]
  BY <1>1, LoadSaved DEF KeyspaceInv
<1>3. /\ keys' = rdb_load(rdb_save).keys /\ expires' = rdb_load(rdb_save).expires
      /\ now' = now /\ appended' = None
  BY DEF ReopenSaved, aof_append
<1>4. keys' = keys /\ expires' = [d \in DB |-> [k \in Key |-> SavedDeadline(d, k)]]
  BY <1>2, <1>3
<1>5. \A d \in DB, k \in Key : SavedDeadline(d, k) \in {expires[d][k], None}
  BY DEF SavedDeadline
<1>6. KeyspaceInv'
  BY <1>1, <1>4, <1>5 DEF KeyspaceInv, DatabasesOK, ExpiresHaveKeys
<1>7. Tidy
  BY <1>3, QuietOK
<1> QED
  BY <1>4, <1>6, <1>7, InvJoin

\* What is found saved satisfies the invariant.
LEMMA RdbInitOK == RdbInit => Inv
<1> SUFFICES ASSUME RdbInit PROVE Inv
  OBVIOUS
<1>1. PICK s \in Found : keys = s.keys /\ expires = s.expires
  BY DEF RdbInit
<1>2. DatabasesOK /\ ExpiresHaveKeys
  BY <1>1, RdbStoreAssumption DEF DatabasesOK, ExpiresHaveKeys
<1>3. now \in 0..MaxTime /\ appended \in Record \cup {None}
  BY KeyspaceAssumption DEF RdbInit
<1> QED
  BY <1>2, <1>3 DEF Inv, TypeOK

\* The invariant of the commands holds through any closings and openings.
LEMMA RdbInvariance == RdbSpec => []Inv
<1>1. Inv /\ [Next \/ ReopenSaved]_vars => Inv'
  BY NextOK, InvJoin, ReopenSavedOK, InvStutter DEF Proper
<1> QED
  BY <1>1, RdbInitOK, PTL DEF RdbSpec

\* Whatever is in the databases of whatever type, closing the store and opening it
\* again gives every key the object it had, elements in their order and encoding
\* included, and every deadline not before the epoch.
THEOREM SavedIsLoaded == RdbSpec => ReopenKeeps
<1>1. Inv /\ ReopenSaved =>
        /\ keys' = keys
        /\ \A d \in DB, k \in Key :
              expires'[d][k] = IF db_get_expire(d, k) >= 0 THEN expires[d][k] ELSE None
  BY ReopenSavedOK DEF SavedDeadline
<1> QED
  BY <1>1, RdbInvariance, PTL DEF ReopenKeeps
=============================================================================
