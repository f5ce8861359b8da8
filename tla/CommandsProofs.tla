--------------------------- MODULE CommandsProofs ---------------------------
(***************************************************************************)
(* Theorems about Commands for any databases, keys, values and clock: the  *)
(* dicts keep their types and stay consistent, and keys and deadlines go   *)
(* only when they may.                                                     *)
(*                                                                         *)
(* TypeOK and ExpiresHaveKeys are inductive together: that a deadline has  *)
(* a key is what makes an expired key an existing one, and the types are   *)
(* what makes the update of one key leave the others.                      *)
(***************************************************************************)
EXTENDS Commands, TLAPS

-----------------------------------------------------------------------------
(* What the building blocks of the commands preserve: each lemma is about  *)
(* one operator of Keyspace, and is cited for every command built from     *)
(* that operator.                                                          *)

KeyspaceInv == DatabasesOK /\ ExpiresHaveKeys

\* A step that removes no key but those past their deadline.
LosesOnlyExpired ==
    \A d \in DB, k \in Key :
        keys[d][k] # None /\ keys'[d][k] = None => db_is_expired(d, k)

\* A step that leaves the deadline of every live key that stays.
KeepsDeadlines ==
    \A d \in DB, k \in Key :
        keys[d][k] # None /\ ~db_is_expired(d, k) /\ keys'[d][k] # None
        => expires'[d][k] = expires[d][k]

\* What every step but those of DELETE, SET, EXPIRE, PEXPIRE and PERSIST does.
Orderly == KeyspaceInv' /\ LosesOnlyExpired /\ KeepsDeadlines

\* A lookup gives an object or nothing, and only a key that is there can be
\* found expired (db_lookup, db_is_expired).
LEMMA LookupOK ==
    ASSUME KeyspaceInv, NEW d \in DB, NEW k \in Key
    PROVE  /\ db_lookup(d, k) \in Object \cup {None}
           /\ db_lookup(d, k) # None => keys[d][k] = db_lookup(d, k)
           /\ db_is_expired(d, k) => keys[d][k] # None
BY DEF KeyspaceInv, DatabasesOK, ExpiresHaveKeys, db_lookup, db_is_expired

\* Deleting any set of keys from both dicts keeps them consistent, and touches
\* no other key (db_del).
LEMMA DelOK ==
    ASSUME KeyspaceInv, NEW d \in DB, NEW S, db_del(d, S)
    PROVE  /\ KeyspaceInv'
           /\ KeepsDeadlines
           /\ \A e \in DB, k \in Key :
                keys[e][k] # None /\ keys'[e][k] = None => e = d /\ k \in S
BY DEF KeyspaceInv, DatabasesOK, ExpiresHaveKeys, db_del, Without, KeepsDeadlines

\* Lazy expiry of any set of keys removes only expired ones (lazy_expire).
LEMMA LazyOK ==
    ASSUME KeyspaceInv, NEW d \in DB, NEW S, lazy_expire(d, S)
    PROVE  Orderly
BY DelOK DEF lazy_expire, Orderly, LosesOnlyExpired, Expired

\* Storing an object after a lookup drops the deadline of an expired key,
\* keeps that of a live one, and leaves no deadline without a key
\* (db_lookup_write, db_set).
LEMMA LookupThenSetOK ==
    ASSUME KeyspaceInv, NEW d \in DB, NEW k \in Key, NEW o \in Object,
           LookupThenSet(d, k, o)
    PROVE  Orderly
<1>1. None \notin Object
  BY KeyspaceAssumption
<1>2. KeyspaceInv'
  BY <1>1 DEF KeyspaceInv, DatabasesOK, ExpiresHaveKeys, LookupThenSet, Without
<1>3. LosesOnlyExpired
  BY <1>1 DEF KeyspaceInv, DatabasesOK, LookupThenSet, LosesOnlyExpired
<1>4. KeepsDeadlines
  BY DEF KeyspaceInv, DatabasesOK, LookupThenSet, Without, Expired, KeepsDeadlines
<1> QED
  BY <1>2, <1>3, <1>4 DEF Orderly

\* A deadline set on a key that a lookup found belongs to a key (db_set_expire).
LEMMA SetExpireOK ==
    ASSUME KeyspaceInv, NEW d \in DB, NEW k \in Key, NEW t \in Int,
           db_lookup(d, k) # None, db_set_expire(d, k, t)
    PROVE  KeyspaceInv' /\ LosesOnlyExpired
BY LookupOK DEF KeyspaceInv, DatabasesOK, ExpiresHaveKeys, db_set_expire, LosesOnlyExpired

\* A step that leaves both dicts alone.
LEMMA StutterOK ==
    ASSUME KeyspaceInv, UNCHANGED databases
    PROVE  Orderly
BY DEF KeyspaceInv, DatabasesOK, ExpiresHaveKeys, databases, Orderly,
       LosesOnlyExpired, KeepsDeadlines

\* The sweeper deletes what it samples from both dicts, and samples only
\* expired keys (sweep_db).
LEMMA SweepOK ==
    ASSUME KeyspaceInv, NEW S, sweep_db(S)
    PROVE  Orderly
BY DEF KeyspaceInv, DatabasesOK, ExpiresHaveKeys, sweep_db, Orderly,
       LosesOnlyExpired, KeepsDeadlines, Expired

-----------------------------------------------------------------------------
(* The invariant. *)

Inv == TypeOK /\ ExpiresHaveKeys

\* What a step leaves beside the databases.
Tidy == now' \in 0..MaxTime /\ appended' \in Record \cup {None}

\* The objects Content takes for none.
Empty == {obj_create_list, obj_create_hash, obj_create_zset}

\* The record of a step is about key k of database d.
Logs(d, k) ==
    appended' # None /\ appended'.db = d /\ appended'.key = k

\* Record r makes n of object o, and, if o is an empty container, of none.
Tells(o, r, n) ==
    /\ replay_cmd(o, r) = n
    /\ o \in Empty => replay_cmd(None, r) = n

\* What becomes of one key in a step: it goes; it stays, and so does its deadline
\* if it has passed; or a new object takes its place, which the record tells of
\* unless it is an empty one, and which a past deadline is not passed on to unless
\* by SET.
Gone(d, k) == ~Logs(d, k) /\ keys'[d][k] = None

Stays(d, k) ==
    /\ ~Logs(d, k) /\ keys'[d][k] = keys[d][k]
    /\ db_is_expired(d, k) =>
          \/ expires'[d][k] = expires[d][k]
          \/ Answered("PERSIST")' /\ expires'[d][k] = None

Made(d, k) ==
    /\ IF Logs(d, k) THEN Tells(db_lookup(d, k), appended', keys'[d][k])
       ELSE db_lookup(d, k) = None /\ keys'[d][k] \in Empty
    /\ db_is_expired(d, k) =>
          \/ expires'[d][k] = None
          \/ Logs(d, k) /\ appended'.cmd = "SET"

Straight ==
    /\ now' >= now
    /\ \A d \in DB, k \in Key : Gone(d, k) \/ Stays(d, k) \/ Made(d, k)

\* A step of any command but those on keys and deadlines.
Ordinary == Orderly /\ Tidy /\ Straight

\* The invariant is that of the databases and two types
LEMMA InvSplit == Inv => /\ KeyspaceInv
                         /\ now \in 0..MaxTime /\ appended \in Record \cup {None}
BY DEF Inv, TypeOK, KeyspaceInv

\* and is restored by a step that keeps both.
LEMMA InvJoin == KeyspaceInv' /\ Tidy => Inv'
BY DEF Inv, TypeOK, KeyspaceInv, Tidy

\* A step that writes no record and takes no time.
LEMMA QuietOK ==
    ASSUME Inv, appended' = None, now' = now
    PROVE  Tidy
BY DEF Inv, TypeOK, Tidy, Record

-----------------------------------------------------------------------------
(* Reads.  All are a lazy expiry of the key and an answer.                 *)

\* A step that only collects expired keys.
LEMMA LazyReadOK ==
    ASSUME Inv, NEW d \in DB, NEW S, lazy_expire(d, S), appended' = None, now' = now
    PROVE  Ordinary
<1>1. Straight
  BY InvSplit DEF KeyspaceInv, DatabasesOK, lazy_expire, db_del, Without, Expired,
     Straight, Gone, Stays, Logs
<1> QED
  BY <1>1, LazyOK, QuietOK, InvSplit DEF Ordinary

\* GET, TYPE and the encoding.
LEMMA StringReadOK ==
    ASSUME Inv, NEW d \in DB, NEW k \in Key,
           py_get(d, k) \/ py_get_encoding(d, k) \/ py_type(d, k)
    PROVE  Ordinary
<1>1. lazy_expire(d, {k}) /\ appended' = None /\ now' = now
  BY DEF py_get, py_get_encoding, py_type, ReadTyped, aof_append
<1> QED
  BY <1>1, LazyReadOK

\* LLEN and LRANGE.
LEMMA ListReadOK ==
    ASSUME Inv, NEW d \in DB, NEW k \in Key,
           py_llen(d, k) \/ \E a, b \in Ends : py_lrange(d, k, a, b)
    PROVE  Ordinary
<1>1. lazy_expire(d, {k}) /\ appended' = None /\ now' = now
  BY DEF py_llen, py_lrange, ReadList, aof_append
<1> QED
  BY <1>1, LazyReadOK

\* The reads of hash.c.
LEMMA HashReadOK ==
    ASSUME Inv, NEW d \in DB, NEW k \in Key,
           \/ \E f \in Field : py_hget(d, k, f) \/ py_hexists(d, k, f)
           \/ \E fs \in SUBSET Field : py_hmget(d, k, fs)
           \/ py_hgetall(d, k) \/ py_hkeys(d, k) \/ py_hvals(d, k) \/ py_hlen(d, k)
    PROVE  Ordinary
<1>1. lazy_expire(d, {k}) /\ appended' = None /\ now' = now
  <2>1. CASE \E f \in Field : py_hget(d, k, f) \/ py_hexists(d, k, f)
    BY <2>1 DEF py_hget, py_hexists, ReadTyped, aof_append
  <2>2. CASE \E fs \in SUBSET Field : py_hmget(d, k, fs)
    BY <2>2 DEF py_hmget, ReadTyped, aof_append
  <2>3. CASE py_hgetall(d, k) \/ py_hkeys(d, k) \/ py_hvals(d, k) \/ py_hlen(d, k)
    BY <2>3 DEF py_hgetall, py_hkeys, py_hvals, hash_collect, py_hlen, ReadTyped, aof_append
  <2> QED
    BY <2>1, <2>2, <2>3
<1> QED
  BY <1>1, LazyReadOK

\* The reads of sorted_set.c.
LEMMA ZSetReadOK ==
    ASSUME Inv, NEW d \in DB, NEW k \in Key,
           \/ \E a, b \in Ends : py_zrange(d, k, a, b) \/ py_zrevrange(d, k, a, b)
           \/ \E a, b \in Scores : py_zrangebyscore(d, k, a, b)
           \/ \E m \in Member : \/ py_zrank(d, k, m) \/ py_zrevrank(d, k, m)
                                \/ py_zscore(d, k, m)
           \/ py_zcard(d, k)
    PROVE  Ordinary
<1>1. lazy_expire(d, {k}) /\ appended' = None /\ now' = now
  <2>1. CASE \E a, b \in Ends : py_zrange(d, k, a, b) \/ py_zrevrange(d, k, a, b)
    BY <2>1 DEF py_zrange, py_zrevrange, py_zrange_common, ReadTyped, aof_append
  <2>2. CASE \E a, b \in Scores : py_zrangebyscore(d, k, a, b)
    BY <2>2 DEF py_zrangebyscore, ReadTyped, aof_append
  <2>3. CASE \E m \in Member : \/ py_zrank(d, k, m) \/ py_zrevrank(d, k, m)
                               \/ py_zscore(d, k, m)
    BY <2>3 DEF py_zrank, py_zrevrank, py_zrank_common, py_zscore, ReadTyped, aof_append
  <2>4. CASE py_zcard(d, k)
    BY <2>4 DEF py_zcard, ReadTyped, aof_append
  <2> QED
    BY <2>1, <2>2, <2>3, <2>4
<1> QED
  BY <1>1, LazyReadOK

-----------------------------------------------------------------------------
(* Objects.                                                                *)

\* A reversed list is a list of the same elements.
LEMMA ReverseOK ==
    ASSUME NEW S, NEW s \in Seq(S)
    PROVE  Reverse(s) \in Seq(S)
<1> DEFINE n == Len(s)
<1>1. n \in Nat /\ \A i \in 1..n : s[n - i + 1] \in S
  OBVIOUS
<1>2. Reverse(s) = [i \in 1..n |-> s[n - i + 1]]
  BY DEF Reverse
<1>3. Reverse(s) \in [1..n -> S]
  BY <1>1, <1>2
<1> QED
  BY <1>1, <1>3

\* A wrapped sum is a long long.
LEMMA WrapOK ==
    ASSUME NEW n \in Int
    PROVE  Wrap(n) \in Number
<1> DEFINE range == MaxInt - MinInt + 1
<1>1. MinInt \in Int /\ MaxInt \in Int /\ range \in Nat \ {0}
  BY ObjectsAssumption
<1>2. (n - MinInt) % range \in 0..(range - 1)
  BY <1>1
<1> QED
  BY <1>1, <1>2 DEF Wrap, Number

\* The type tag of an object says which set it is of.
LEMMA TypeTag ==
    ASSUME NEW o \in Object
    PROVE  /\ o.type = "string" => o \in String
           /\ o.type = "list" => o \in List
           /\ o.type = "hash" => o \in Hash
           /\ o.type = "zset" => o \in ZSet
BY DEF Object, String, List, Hash, ZSet

\* The objects a command creates are objects.
LEMMA FreshOK ==
    /\ obj_create_list \in List /\ obj_create_list \in Object
    /\ obj_create_hash \in Hash /\ obj_create_hash \in Object
    /\ obj_create_zset \in ZSet /\ obj_create_zset \in Object
    /\ obj_create_string(0, RAW) \in String /\ obj_create_string(0, RAW) \in Object
BY ObjectsAssumption
   DEF obj_create_list, obj_create_hash, obj_create_zset, obj_create_string,
       Object, String, List, Hash, ZSet, Payload, Number

\* A write command works on an object.
LEMMA FoundOrOK ==
    ASSUME KeyspaceInv, NEW d \in DB, NEW k \in Key, NEW fresh \in Object
    PROVE  FoundOr(d, k, fresh) \in Object
BY LookupOK DEF FoundOr

\* A command that is refused before it looks anything up.
LEMMA UnchangedOK ==
    ASSUME Inv, UNCHANGED <<databases, now>>, appended' = None
    PROVE  Ordinary
<1>1. Straight
  BY InvSplit DEF databases, Straight, Stays, Logs
<1> QED
  BY <1>1, StutterOK, QuietOK, InvSplit DEF Ordinary

\* The WRONGTYPE exit changes nothing.
LEMMA WrongTypeOK ==
    ASSUME Inv, NEW cmd, NEW d, NEW k, NEW type, WrongType(cmd, d, k, type)
    PROVE  Ordinary
BY UnchangedOK DEF WrongType, aof_append

\* A partial mapping is one into any larger range, and so is a single pair.
LEMMA MappingOK ==
    ASSUME NEW D, NEW R, NEW T, R \subseteq T, NEW m \in Mapping(D, R)
    PROVE  /\ m \in Mapping(D, T) /\ DOMAIN m \subseteq D
           /\ \A x \in DOMAIN m : m[x] \in T
<1>1. PICK S \in SUBSET D : m \in [S -> R]
  BY DEF Mapping
<1>2. m \in [S -> T]
  BY <1>1
<1> QED
  BY <1>1, <1>2 DEF Mapping

\* One field with its value is a mapping.
LEMMA PairOK ==
    ASSUME NEW D, NEW R, NEW x \in D, NEW v \in R
    PROVE  [y \in {x} |-> v] \in Mapping(D, R)
<1>1. {x} \in SUBSET D /\ [y \in {x} |-> v] \in [{x} -> R]
  OBVIOUS
<1> QED
  BY <1>1 DEF Mapping

-----------------------------------------------------------------------------
(* Records.  Replaying the record of a write on the object the write found *)
(* makes the object it stored: `found' is what the lookup gives, o what    *)
(* the command works on.                                                   *)

\* The empty containers are objects, and their types tell them apart.
LEMMA EmptyOK ==
    /\ Empty \subseteq Object /\ None \notin Object
    /\ \A o \in Empty : /\ o.type # "string"
                        /\ o.type = "list" => o = obj_create_list
                        /\ o.type = "hash" => o = obj_create_hash
                        /\ o.type = "zset" => o = obj_create_zset
BY FreshOK, KeyspaceAssumption
   DEF Empty, obj_create_list, obj_create_hash, obj_create_zset

\* Each record makes of the object found, or of none, what the command made of it: SET,
LEMMA SetTells ==
    ASSUME NEW found, NEW d, NEW k, NEW v, NEW e
    PROVE  Tells(found, [cmd |-> "SET", db |-> d, key |-> k, val |-> v, enc |-> e],
                 obj_create_string(v, e))
BY DEF Tells, replay_cmd

\* INCRBY,
LEMMA IncrbyTells ==
    ASSUME NEW found \in Object \cup {None}, NEW d, NEW k, NEW n,
           NEW o, o = IF found = None THEN obj_create_string(0, RAW) ELSE found,
           o.type = "string", IsInteger(o.str)
    PROVE  Tells(found, [cmd |-> "INCRBY", db |-> d, key |-> k, amount |-> n],
                 obj_create_string(Wrap(o.str + n), RAW))
<1>1. found \notin Empty
  BY EmptyOK
<1>2. o.str = IF found = None THEN 0
              ELSE IF found.type = "string" THEN strtoll(found.str) ELSE 0
  BY DEF obj_create_string, strtoll
<1> QED
  BY <1>1, <1>2 DEF Tells, replay_cmd, ReplayIncrby

\* LPUSH and RPUSH,
LEMMA PushTells ==
    ASSUME NEW found \in Object \cup {None}, NEW d, NEW k, NEW vals,
           NEW o, o = IF found = None THEN obj_create_list ELSE found,
           o.type = "list"
    PROVE  /\ Tells(found, [cmd |-> "LPUSH", db |-> d, key |-> k, vals |-> vals],
                    [o EXCEPT !.list = push_head(o.list, vals)])
           /\ Tells(found, [cmd |-> "RPUSH", db |-> d, key |-> k, vals |-> vals],
                    [o EXCEPT !.list = push_tail(o.list, vals)])
BY EmptyOK DEF Tells, replay_cmd, ReplayOn

\* A push of nothing.
LEMMA PushNothing ==
    ASSUME NEW o \in List
    PROVE  /\ [o EXCEPT !.list = push_head(o.list, <<>>)] = o
           /\ [o EXCEPT !.list = push_tail(o.list, <<>>)] = o
<1>1. o.list \in Seq(Elem)
  BY DEF List
<1>2. Reverse(<<>>) = <<>>
  <2>1. Reverse(<<>>) \in Seq({}) /\ Len(Reverse(<<>>)) = 0
    BY ReverseOK DEF Reverse
  <2> QED
    BY <2>1
<1>3. push_head(o.list, <<>>) = o.list /\ push_tail(o.list, <<>>) = o.list
  BY <1>1, <1>2 DEF push_head, push_tail
<1> QED
  BY <1>3 DEF List

\* HSET,
LEMMA HashTells ==
    ASSUME NEW found \in Object \cup {None}, NEW d, NEW k, NEW m,
           NEW o, o = IF found = None THEN obj_create_hash ELSE found,
           o.type = "hash"
    PROVE  Tells(found, [cmd |-> "HSET", db |-> d, key |-> k, fields |-> m],
                 [o EXCEPT !.fields = Overlay(o.fields, m)])
BY EmptyOK DEF Tells, replay_cmd, ReplayOn

\* Only what was there is dropped, and the record names all of it.
LEMMA DroppedPresent ==
    ASSUME NEW D, NEW R, NEW f \in [D -> R], NEW S \in SUBSET D
    PROVE  /\ Dropped(f, S \cap Present(f)) = Dropped(f, S)
           /\ S \cap Present(f) = {} => Dropped(f, S) = f
BY DEF Dropped, Present

\* HDEL, unless nothing was removed,
LEMMA HdelTells ==
    ASSUME NEW found \in Object, NEW d, NEW k, NEW fs \in SUBSET Field,
           found.type = "hash", NEW gone, gone = fs \cap Present(found.fields)
    PROVE  LET n == [found EXCEPT !.fields = Dropped(found.fields, fs)]
           IN  IF gone = {} THEN n = found
               ELSE Tells(found, [cmd |-> "HDEL", db |-> d, key |-> k, removed |-> gone], n)
<1>1. found \in Hash /\ found.fields \in [Field -> Payload \cup {None}]
  BY TypeTag DEF Hash
<1>2. /\ Dropped(found.fields, gone) = Dropped(found.fields, fs)
      /\ gone = {} => Dropped(found.fields, fs) = found.fields
  <2> DEFINE f == found.fields
             R == Payload \cup {None}
  <2>1. /\ Dropped(f, fs \cap Present(f)) = Dropped(f, fs)
        /\ fs \cap Present(f) = {} => Dropped(f, fs) = f
    <3>1. f \in [Field -> R]
      BY <1>1
    <3> HIDE DEF f, R
    <3> QED
      BY <3>1, DroppedPresent
  <2> QED
    BY <2>1
<1>3. CASE gone = {}
  BY <1>1, <1>2, <1>3 DEF Hash
<1>4. CASE gone # {}
  <2>1. found \notin Empty
    <3>1. Present(obj_create_hash.fields) = {}
      BY DEF Present, obj_create_hash
    <3> QED
      BY <1>4, <3>1, EmptyOK
  <2>2. found # None
    BY EmptyOK
  <2> QED
    BY <1>2, <1>4, <2>1, <2>2 DEF Tells, replay_cmd, ReplayOn
<1> QED
  BY <1>3, <1>4

\* and ZREM.
LEMMA ZremTells ==
    ASSUME NEW found \in Object, NEW d, NEW k, NEW ms \in SUBSET Member,
           found.type = "zset", NEW gone, gone = ms \cap Present(found.scores)
    PROVE  LET n == [found EXCEPT !.scores = Dropped(found.scores, ms)]
           IN  IF gone = {} THEN n = found
               ELSE Tells(found, [cmd |-> "ZREM", db |-> d, key |-> k, removed |-> gone], n)
<1>1. found \in ZSet /\ found.scores \in [Member -> Score \cup {None}]
  BY TypeTag DEF ZSet
<1>2. /\ Dropped(found.scores, gone) = Dropped(found.scores, ms)
      /\ gone = {} => Dropped(found.scores, ms) = found.scores
  <2> DEFINE f == found.scores
             R == Score \cup {None}
  <2>1. /\ Dropped(f, ms \cap Present(f)) = Dropped(f, ms)
        /\ ms \cap Present(f) = {} => Dropped(f, ms) = f
    <3>1. f \in [Member -> R]
      BY <1>1
    <3> HIDE DEF f, R
    <3> QED
      BY <3>1, DroppedPresent
  <2> QED
    BY <2>1
<1>3. CASE gone = {}
  BY <1>1, <1>2, <1>3 DEF ZSet
<1>4. CASE gone # {}
  <2>1. found \notin Empty
    <3>1. Present(obj_create_zset.scores) = {}
      BY DEF Present, obj_create_zset
    <3> QED
      BY <1>4, <3>1, EmptyOK
  <2>2. found # None
    BY EmptyOK
  <2> QED
    BY <1>2, <1>4, <2>1, <2>2 DEF Tells, replay_cmd, ReplayOn
<1> QED
  BY <1>3, <1>4

\* Scores that are those of o but where m has another one.
LEMMA ZAddTells ==
    ASSUME NEW found \in Object \cup {None}, NEW d, NEW k, NEW m,
           NEW o \in ZSet, o = IF found = None THEN obj_create_zset ELSE found,
           NEW scores \in [Member -> Score \cup {None}],
           \A x \in Member : x \in DOMAIN m => scores[x] = m[x],
           \A x \in Member : x \notin DOMAIN m => scores[x] = o.scores[x]
    PROVE  Tells(found, [cmd |-> "ZADD", db |-> d, key |-> k, scores |-> m],
                 [o EXCEPT !.scores = scores])
<1>1. scores = [x \in Member |-> IF x \in DOMAIN m THEN m[x] ELSE o.scores[x]]
  OBVIOUS
<1>2. o.type = "zset"
  BY DEF ZSet
<1> QED
  BY <1>1, <1>2, EmptyOK DEF Tells, replay_cmd, ReplayOn

-----------------------------------------------------------------------------
(* Writes that replace or mutate one object.                               *)

\* The common end of them: an object is stored, and one record written that tells
\* of it, or none if nothing changes or the object is empty.
LEMMA StoredOK ==
    ASSUME Inv, NEW d \in DB, NEW k \in Key, NEW o \in Object,
           LookupThenSet(d, k, o), now' = now, appended' \in Record \cup {None},
           IF appended' = None
             THEN \/ db_lookup(d, k) = o
                  \/ db_lookup(d, k) = None /\ o \in Empty
             ELSE /\ appended'.db = d /\ appended'.key = k
                  /\ Tells(db_lookup(d, k), appended', o)
    PROVE  Ordinary
<1>1. /\ keys'[d][k] = o /\ None # o
      /\ db_is_expired(d, k) => expires'[d][k] = None
      /\ \A e \in DB, x \in Key : e # d \/ x # k =>
            keys'[e][x] = keys[e][x] /\ expires'[e][x] = expires[e][x]
  BY InvSplit, KeyspaceAssumption
     DEF LookupThenSet, Without, Expired, KeyspaceInv, DatabasesOK
<1>2. Gone(d, k) \/ Stays(d, k) \/ Made(d, k)
  <2>1. CASE appended' # None
    BY <1>1, <2>1 DEF Made, Logs
  <2>2. CASE appended' = None /\ db_lookup(d, k) = o
    BY <1>1, <2>2 DEF Stays, Logs, db_lookup
  <2>3. CASE appended' = None /\ db_lookup(d, k) = None /\ o \in Empty
    BY <1>1, <2>3 DEF Made, Logs
  <2> QED
    BY <2>1, <2>2, <2>3
<1>3. \A e \in DB, x \in Key : e # d \/ x # k => Stays(e, x)
  BY <1>1 DEF Stays, Logs
<1>4. now' >= now
  BY InvSplit
<1>5. Straight
  BY <1>2, <1>3, <1>4 DEF Straight
<1> QED
  BY <1>5, LookupThenSetOK, InvSplit DEF Tidy, Ordinary

\* A command that looks a key up, stores an object and logs what it did.
LEMMA StoreOK ==
    ASSUME Inv, NEW d \in DB, NEW k \in Key, NEW o \in Object,
           LookupThenSet(d, k, o), now' = now, appended' \in Record,
           appended'.db = d, appended'.key = k,
           Tells(db_lookup(d, k), appended', o)
    PROVE  Ordinary
BY StoredOK, CommandsAssumption

\* One that stores what was there, or an empty container, and logs nothing.
LEMMA StoreQuietOK ==
    ASSUME Inv, NEW d \in DB, NEW k \in Key, NEW o \in Object,
           LookupThenSet(d, k, o), now' = now, appended' = None,
           \/ db_lookup(d, k) = o
           \/ db_lookup(d, k) = None /\ o \in Empty
    PROVE  Ordinary
BY StoredOK

\* The writers, one by one: INCRBY,
LEMMA IncrbyOK ==
    ASSUME Inv, NEW d \in DB, NEW k \in Key, NEW n \in Amounts, py_incrby(d, k, n)
    PROVE  Ordinary
<1> DEFINE o == FoundOr(d, k, obj_create_string(0, RAW))
           sum == Wrap(o.str + n)
<1>1. n \in Number /\ n \in Int
  BY ObjectsAssumption, CommandsAssumption DEF Number
<1>2. o \in Object
  BY FoundOrOK, FreshOK, InvSplit
<1>3. CASE o.type = "string" /\ IsInteger(o.str) /\ ~WrongType("INCRBY", d, k, "string")
  <2>1. sum \in Number
    BY <1>1, <1>3, WrapOK, ObjectsAssumption DEF IsInteger, Number
  <2>2. obj_create_string(sum, RAW) \in Object
    BY <2>1, ObjectsAssumption DEF obj_create_string, Object, String, Payload
  <2>3. /\ LookupThenSet(d, k, obj_create_string(sum, RAW)) /\ now' = now
        /\ appended' = [cmd |-> "INCRBY", db |-> d, key |-> k, amount |-> n]
    BY <1>3 DEF py_incrby, aof_append
  <2>4. appended' \in Record
    BY <1>1, <2>3 DEF Record
  <2>5. Tells(db_lookup(d, k), appended', obj_create_string(sum, RAW))
    BY <1>3, <2>3, LookupOK, InvSplit, IncrbyTells DEF FoundOr
  <2> QED
    BY <2>2, <2>3, <2>4, <2>5, StoreOK
<1>4. CASE ~(o.type = "string" /\ IsInteger(o.str)) \/ WrongType("INCRBY", d, k, "string")
  BY <1>4, WrongTypeOK, UnchangedOK DEF py_incrby, aof_append
<1> QED
  BY <1>3, <1>4

\* LPUSH and RPUSH,
LEMMA PushOK ==
    ASSUME Inv, NEW d \in DB, NEW k \in Key, NEW vals \in Pushes,
           py_lpush(d, k, vals) \/ py_rpush(d, k, vals)
    PROVE  Ordinary
<1> DEFINE o == FoundOr(d, k, obj_create_list)
<1>1. vals \in Seq(Elem)
  BY CommandsAssumption
<1>2. o \in Object
  BY FoundOrOK, FreshOK, InvSplit
<1>3. CASE WrongType("LPUSH", d, k, "list") \/ WrongType("RPUSH", d, k, "list")
  BY <1>3, WrongTypeOK
<1>4. CASE ~(WrongType("LPUSH", d, k, "list") \/ WrongType("RPUSH", d, k, "list"))
  <2>1. /\ o.type = "list" /\ now' = now
        /\ \/ /\ LookupThenSet(d, k, [o EXCEPT !.list = push_head(o.list, vals)])
              /\ appended' = PushRecord("LPUSH", d, k, vals)
           \/ /\ LookupThenSet(d, k, [o EXCEPT !.list = push_tail(o.list, vals)])
              /\ appended' = PushRecord("RPUSH", d, k, vals)
    BY <1>4 DEF py_lpush, py_rpush, Push, aof_append
  <2>2. PICK list \in {push_head(o.list, vals), push_tail(o.list, vals)},
             cmd \in {"LPUSH", "RPUSH"} :
          /\ LookupThenSet(d, k, [o EXCEPT !.list = list])
          /\ appended' = PushRecord(cmd, d, k, vals)
          /\ Tells(db_lookup(d, k), [cmd |-> cmd, db |-> d, key |-> k, vals |-> vals],
                   [o EXCEPT !.list = list])
    BY <2>1, LookupOK, InvSplit, PushTells DEF FoundOr
  <2>3. o \in List /\ list \in Seq(Elem)
    <3>1. o \in List /\ o.list \in Seq(Elem)
      BY <1>2, <2>1, TypeTag DEF List
    <3>2. Reverse(vals) \in Seq(Elem)
      BY <1>1, ReverseOK
    <3>3. Reverse(vals) \o o.list \in Seq(Elem) /\ o.list \o vals \in Seq(Elem)
      BY <1>1, <3>1, <3>2
    <3> QED
      BY <2>2, <3>1, <3>3 DEF push_head, push_tail
  <2>4. [o EXCEPT !.list = list] \in Object
    BY <2>3 DEF List, Object
  <2>5. CASE vals # <<>>
    <3>1. appended' = [cmd |-> cmd, db |-> d, key |-> k, vals |-> vals]
      BY <2>2, <2>5 DEF PushRecord
    <3>2. appended' \in Record
      BY <1>1, <3>1 DEF Record
    <3> QED
      BY <2>1, <2>2, <2>4, <3>1, <3>2, StoreOK
  <2>6. CASE vals = <<>>
    <3>1. appended' = None
      BY <2>2, <2>6 DEF PushRecord, Record
    <3>2. [o EXCEPT !.list = list] = o
      BY <2>2, <2>3, <2>6, PushNothing
    <3>3. o = db_lookup(d, k) \/ (db_lookup(d, k) = None /\ o \in Empty)
      BY DEF FoundOr, Empty
    <3> QED
      BY <1>2, <2>1, <2>2, <3>1, <3>2, <3>3, StoreQuietOK
  <2> QED
    BY <2>5, <2>6
<1> QED
  BY <1>3, <1>4

\* A hash with some fields replaced or dropped is a hash.
LEMMA HashObject ==
    ASSUME NEW o \in Object, o.type = "hash",
           NEW fields \in [Field -> Payload \cup {None}]
    PROVE  [o EXCEPT !.fields = fields] \in Object
<1>1. o \in Hash
  BY TypeTag
<1> QED
  BY <1>1 DEF Hash, Object

\* HSET and HMSET,
LEMMA HashApplyOK ==
    ASSUME Inv, NEW d \in DB, NEW k \in Key, NEW m \in Mapping(Field, Values),
           py_hset(d, k, m) \/ py_hmset(d, k, m)
    PROVE  Ordinary
<1> DEFINE o == FoundOr(d, k, obj_create_hash)
<1>1. o \in Object
  BY FoundOrOK, FreshOK, InvSplit
<1>2. m \in Mapping(Field, Payload) /\ DOMAIN m \subseteq Field
      /\ \A f \in DOMAIN m : m[f] \in Payload
  BY MappingOK, CommandsAssumption
<1>3. CASE NothingToDo("HSET", d, k, 0) \/ NothingToDo("HMSET", d, k, TRUE)
  BY <1>3, UnchangedOK DEF NothingToDo, aof_append
<1>4. CASE WrongType("HSET", d, k, "hash") \/ WrongType("HMSET", d, k, "hash")
  BY <1>4, WrongTypeOK
<1>5. CASE /\ o.type = "hash" /\ now' = now
           /\ LookupThenSet(d, k, [o EXCEPT !.fields = Overlay(o.fields, m)])
           /\ appended' = [cmd |-> "HSET", db |-> d, key |-> k, fields |-> m]
  <2>1. Overlay(o.fields, m) \in [Field -> Payload \cup {None}]
    BY <1>1, <1>2, <1>5, TypeTag DEF Overlay, Hash
  <2>2. appended' \in Record
    BY <1>2, <1>5 DEF Record
  <2>3. Tells(db_lookup(d, k), appended', [o EXCEPT !.fields = Overlay(o.fields, m)])
    BY <1>5, LookupOK, InvSplit, HashTells DEF FoundOr
  <2> QED
    BY <1>1, <1>5, <2>1, <2>2, <2>3, HashObject, StoreOK
<1> QED
  BY <1>3, <1>4, <1>5 DEF py_hset, py_hmset, hash_apply_fields, aof_append

\* HDEL,
LEMMA HdelOK ==
    ASSUME Inv, NEW d \in DB, NEW k \in Key, NEW fs \in SUBSET Field,
           py_hdel(d, k, fs)
    PROVE  Ordinary
<1> DEFINE o == FoundOr(d, k, obj_create_hash)
           removed == fs \cap Present(o.fields)
<1>1. o \in Object
  BY FoundOrOK, FreshOK, InvSplit
<1>2. CASE WrongType("HDEL", d, k, "hash")
  BY <1>2, WrongTypeOK
<1>3. CASE ~WrongType("HDEL", d, k, "hash")
  <2>1. /\ o.type = "hash" /\ now' = now
        /\ IF db_lookup(d, k) = None
             THEN lazy_expire(d, {k})
             ELSE LookupThenSet(d, k, [o EXCEPT !.fields = Dropped(@, fs)])
        /\ appended' = IF removed = {} THEN None
             ELSE [cmd |-> "HDEL", db |-> d, key |-> k, removed |-> removed]
    BY <1>3 DEF py_hdel, aof_append
  <2>2. IF removed = {} THEN appended' = None ELSE appended' \in Record
    BY <2>1 DEF Record
  <2>3. CASE db_lookup(d, k) = None
    <3>1. removed = {}
      BY <2>3 DEF FoundOr, Present, obj_create_hash
    <3> QED
      BY <2>1, <2>3, <3>1, LazyReadOK
  <2>4. CASE db_lookup(d, k) # None
    <3> DEFINE n == [o EXCEPT !.fields = Dropped(o.fields, fs)]
    <3>1. Dropped(o.fields, fs) \in [Field -> Payload \cup {None}]
      BY <1>1, <2>1, TypeTag DEF Dropped, Hash
    <3>2. LookupThenSet(d, k, n) /\ n \in Object
      BY <1>1, <2>1, <2>4, <3>1, HashObject
    <3>3. o = db_lookup(d, k)
      BY <2>4 DEF FoundOr
    <3>4. IF removed = {} THEN n = o
          ELSE Tells(o, [cmd |-> "HDEL", db |-> d, key |-> k, removed |-> removed], n)
      BY <1>1, <2>1, HdelTells
    <3> HIDE DEF n, o, removed
    <3> QED
      BY <2>1, <2>2, <3>2, <3>3, <3>4, StoreOK, StoreQuietOK
  <2> QED
    BY <2>3, <2>4
<1> QED
  BY <1>2, <1>3

\* HINCRBY,
LEMMA HincrbyOK ==
    ASSUME Inv, NEW d \in DB, NEW k \in Key, NEW f \in Field, NEW n \in Amounts,
           py_hincrby(d, k, f, n)
    PROVE  Ordinary
<1> DEFINE o   == FoundOr(d, k, obj_create_hash)
           old == IF o.fields[f] = None THEN 0 ELSE o.fields[f]
           sum == Wrap(old + n)
<1>1. n \in Int
  BY CommandsAssumption, ObjectsAssumption DEF Number
<1>2. o \in Object
  BY FoundOrOK, FreshOK, InvSplit
<1>3. CASE WrongType("HINCRBY", d, k, "hash")
  BY <1>3, WrongTypeOK
<1>4. CASE UNCHANGED <<databases, now>> /\ appended' = None
  BY <1>4, UnchangedOK
<1>5. CASE /\ o.type = "hash" /\ IsInteger(old) /\ now' = now
           /\ LookupThenSet(d, k, [o EXCEPT !.fields[f] = sum])
           /\ appended' = [cmd |-> "HSET", db |-> d, key |-> k,
                           fields |-> [x \in {f} |-> sum]]
  <2>1. sum \in Payload
    BY <1>1, <1>5, WrapOK, ObjectsAssumption DEF IsInteger, Number, Payload
  <2>2. o \in Hash
    BY <1>2, <1>5, TypeTag
  <2>3. [o EXCEPT !.fields[f] = sum] \in Object
    BY <2>1, <2>2 DEF Hash, Object
  <2>4. [x \in {f} |-> sum] \in Mapping(Field, Payload)
    BY <2>1, PairOK
  <2>5. appended' \in Record
    BY <1>5, <2>4 DEF Record
  <2>6. [o EXCEPT !.fields[f] = sum]
          = [o EXCEPT !.fields = Overlay(o.fields, [x \in {f} |-> sum])]
    <3> HIDE DEF o, sum
    <3> QED
      BY <2>2 DEF Hash, Overlay
  <2>7. Tells(db_lookup(d, k), appended', [o EXCEPT !.fields[f] = sum])
    <3> HIDE DEF sum
    <3> QED
      BY <1>5, <2>6, LookupOK, InvSplit, HashTells DEF FoundOr
  <2> QED
    BY <1>5, <2>3, <2>5, <2>7, StoreOK
<1> QED
  BY <1>3, <1>4, <1>5 DEF py_hincrby, aof_append

\* (a sorted set with other scores is a sorted set)
LEMMA ZSetObject ==
    ASSUME NEW o \in Object, o.type = "zset",
           NEW scores \in [Member -> Score \cup {None}]
    PROVE  [o EXCEPT !.scores = scores] \in Object
<1>1. o \in ZSet
  BY TypeTag
<1> QED
  BY <1>1 DEF ZSet, Object

\* ZADD with any options,
LEMMA ZaddOK ==
    ASSUME Inv, NEW d \in DB, NEW k \in Key, NEW m \in Mapping(Member, Scores),
           NEW opt, py_zadd(d, k, m, opt)
    PROVE  Ordinary
<1> DEFINE o       == FoundOr(d, k, obj_create_zset)
           scores  == zset_add(o.scores, m, opt)
           applied == {x \in Member : scores[x] # o.scores[x]}
<1>1. o \in Object
  BY FoundOrOK, FreshOK, InvSplit
<1>2. DOMAIN m \subseteq Member /\ \A x \in DOMAIN m : m[x] \in Score
  BY MappingOK, CommandsAssumption
<1>3. CASE UNCHANGED <<databases, now>> /\ appended' = None
  BY <1>3, UnchangedOK
<1>4. CASE WrongType("ZADD", d, k, "zset")
  BY <1>4, WrongTypeOK
<1>5. CASE /\ o.type = "zset" /\ now' = now
           /\ LookupThenSet(d, k, [o EXCEPT !.scores = scores])
           /\ appended' = ZAddRecord(d, k, m, applied)
  <2>1. o.scores \in [Member -> Score \cup {None}]
    BY <1>1, <1>5, TypeTag DEF ZSet
  <2>2. scores \in [Member -> Score \cup {None}]
    BY <1>2, <2>1 DEF zset_add
  <2>3. applied \subseteq DOMAIN m
    BY <1>2, <2>1 DEF zset_add
  <2>4. [x \in applied |-> m[x]] \in Mapping(Member, Score)
    <3>1. applied \in SUBSET Member /\ [x \in applied |-> m[x]] \in [applied -> Score]
      BY <1>2, <2>3
    <3> QED
      BY <3>1 DEF Mapping
  <2> DEFINE n == [o EXCEPT !.scores = scores]
             changed == [x \in applied |-> m[x]]
  <2>5. n \in Object /\ o \in ZSet
    BY <1>1, <1>5, <2>2, ZSetObject, TypeTag
  <2>6. LookupThenSet(d, k, n) /\ now' = now
    BY <1>5
  <2>7. CASE applied # {}
    <3>1. appended' = [cmd |-> "ZADD", db |-> d, key |-> k, scores |-> changed]
      BY <1>5, <2>7 DEF ZAddRecord
    <3>2. appended' \in Record
      BY <2>4, <3>1 DEF Record
    <3>3. /\ \A x \in Member : x \in DOMAIN changed => scores[x] = changed[x]
          /\ \A x \in Member : x \notin DOMAIN changed => scores[x] = o.scores[x]
      BY <2>3 DEF zset_add
    <3>4. o = IF db_lookup(d, k) = None THEN obj_create_zset ELSE db_lookup(d, k)
      BY DEF FoundOr
    <3>5. Tells(db_lookup(d, k), appended', n)
      <4> HIDE DEF changed, scores, o
      <4> QED
        BY <2>2, <2>5, <3>1, <3>3, <3>4, LookupOK, InvSplit, ZAddTells
    <3> HIDE DEF n
    <3> QED
      BY <2>5, <2>6, <3>1, <3>2, <3>5, StoreOK
  <2>8. CASE applied = {}
    <3>1. appended' = None
      BY <1>5, <2>8 DEF ZAddRecord, Record
    <3>2. scores = o.scores
      BY <2>1, <2>2, <2>8
    <3>3. n = o
      BY <2>5, <3>2 DEF ZSet
    <3>4. o = db_lookup(d, k) \/ (db_lookup(d, k) = None /\ o \in Empty)
      BY DEF FoundOr, Empty
    <3> HIDE DEF n, o
    <3> QED
      BY <2>5, <2>6, <3>1, <3>3, <3>4, StoreQuietOK
  <2> QED
    BY <2>7, <2>8
<1> QED
  BY <1>3, <1>4, <1>5 DEF py_zadd, ZRefuse, aof_append

\* ZREM,
LEMMA ZremOK ==
    ASSUME Inv, NEW d \in DB, NEW k \in Key, NEW ms \in SUBSET Member,
           py_zrem(d, k, ms)
    PROVE  Ordinary
<1> DEFINE o == FoundOr(d, k, obj_create_zset)
           removed == ms \cap Present(o.scores)
<1>1. o \in Object
  BY FoundOrOK, FreshOK, InvSplit
<1>2. CASE WrongType("ZREM", d, k, "zset")
  BY <1>2, WrongTypeOK
<1>3. CASE ~WrongType("ZREM", d, k, "zset")
  <2>1. /\ o.type = "zset" /\ now' = now
        /\ IF db_lookup(d, k) = None
             THEN lazy_expire(d, {k})
             ELSE LookupThenSet(d, k, [o EXCEPT !.scores = Dropped(@, ms)])
        /\ appended' = IF removed = {} THEN None
             ELSE [cmd |-> "ZREM", db |-> d, key |-> k, removed |-> removed]
    BY <1>3 DEF py_zrem, aof_append
  <2>2. IF removed = {} THEN appended' = None ELSE appended' \in Record
    BY <2>1 DEF Record
  <2>3. CASE db_lookup(d, k) = None
    <3>1. removed = {}
      BY <2>3 DEF FoundOr, Present, obj_create_zset
    <3> QED
      BY <2>1, <2>3, <3>1, LazyReadOK
  <2>4. CASE db_lookup(d, k) # None
    <3> DEFINE n == [o EXCEPT !.scores = Dropped(o.scores, ms)]
    <3>1. Dropped(o.scores, ms) \in [Member -> Score \cup {None}]
      BY <1>1, <2>1, TypeTag DEF Dropped, ZSet
    <3>2. LookupThenSet(d, k, n) /\ n \in Object
      BY <1>1, <2>1, <2>4, <3>1, ZSetObject
    <3>3. o = db_lookup(d, k)
      BY <2>4 DEF FoundOr
    <3>4. IF removed = {} THEN n = o
          ELSE Tells(o, [cmd |-> "ZREM", db |-> d, key |-> k, removed |-> removed], n)
      BY <1>1, <2>1, ZremTells
    <3> HIDE DEF n, o, removed
    <3> QED
      BY <2>1, <2>2, <3>2, <3>3, <3>4, StoreOK, StoreQuietOK
  <2> QED
    BY <2>3, <2>4
<1> QED
  BY <1>2, <1>3

\* The sum of two scores is a score or not a number.
LEMMA ScoreSumOK ==
    ASSUME NEW a \in Score, NEW b \in Score
    PROVE  ScoreSum(a, b) \in Score \cup {None}
BY ObjectsAssumption DEF ScoreSum, Score

\* and ZINCRBY.
LEMMA ZincrbyOK ==
    ASSUME Inv, NEW d \in DB, NEW k \in Key, NEW m \in Member, NEW n \in Amounts,
           py_zincrby(d, k, n, m)
    PROVE  Ordinary
<1> DEFINE o   == FoundOr(d, k, obj_create_zset)
           old == IF o.scores[m] = None THEN 0 ELSE o.scores[m]
           sum == ScoreSum(old, n)
<1>1. n \in Score
  BY CommandsAssumption
<1>2. o \in Object
  BY FoundOrOK, FreshOK, InvSplit
<1>3. CASE WrongType("ZINCRBY", d, k, "zset")
  BY <1>3, WrongTypeOK
<1>4. CASE UNCHANGED <<databases, now>> /\ appended' = None
  BY <1>4, UnchangedOK
<1>5. CASE /\ o.type = "zset" /\ sum # None /\ now' = now
           /\ LookupThenSet(d, k, [o EXCEPT !.scores[m] = sum])
           /\ appended' = [cmd |-> "ZADD", db |-> d, key |-> k,
                           scores |-> [x \in {m} |-> sum]]
  <2>1. o \in ZSet
    BY <1>2, <1>5, TypeTag
  <2>2. old \in Score
    BY <2>1, ObjectsAssumption DEF ZSet, Score
  <2>3. sum \in Score
    BY <1>1, <1>5, <2>2, ScoreSumOK
  <2>4. [o EXCEPT !.scores[m] = sum] \in Object
    BY <2>1, <2>3 DEF ZSet, Object
  <2>5. [x \in {m} |-> sum] \in Mapping(Member, Score)
    BY <2>3, PairOK
  <2>6. appended' \in Record
    BY <1>5, <2>5 DEF Record
  <2> DEFINE scores == [o.scores EXCEPT ![m] = sum]
             one    == [x \in {m} |-> sum]
  <2>7. [o EXCEPT !.scores[m] = sum] = [o EXCEPT !.scores = scores]
    BY <2>1 DEF ZSet
  <2>8. /\ scores \in [Member -> Score \cup {None}]
        /\ \A x \in Member : x \in DOMAIN one => scores[x] = one[x]
        /\ \A x \in Member : x \notin DOMAIN one => scores[x] = o.scores[x]
    BY <2>1, <2>3 DEF ZSet
  <2>9. o = IF db_lookup(d, k) = None THEN obj_create_zset ELSE db_lookup(d, k)
    BY DEF FoundOr
  <2>10. Tells(db_lookup(d, k), appended', [o EXCEPT !.scores[m] = sum])
    <3>1. appended' = [cmd |-> "ZADD", db |-> d, key |-> k, scores |-> one]
      BY <1>5
    <3> HIDE DEF scores, one, o
    <3> QED
      BY <2>1, <2>7, <2>8, <2>9, <3>1, LookupOK, InvSplit, ZAddTells
  <2> QED
    BY <1>5, <2>4, <2>6, <2>10, StoreOK
<1> QED
  BY <1>3, <1>4, <1>5 DEF py_zincrby, ZRefuse, aof_append

-----------------------------------------------------------------------------
(* The commands that are about keys and deadlines.                         *)

\* An orderly step loses no key early and keeps the deadlines.
LEMMA OrderlyStep == Orderly => LossStep /\ DeadlineStep
BY DEF Orderly, LosesOnlyExpired, KeepsDeadlines, LossStep, DeadlineStep

\* A deadline is a number or None.
LEMMA DeadlineInt ==
    ASSUME Inv, NEW d \in DB, NEW k \in Key
    PROVE  expires[d][k] \in Int \cup {None} /\ None \notin Int
BY ObjectsAssumption DEF Inv, TypeOK, DatabasesOK

\* SET stores an object, and a deadline only in the future.
LEMMA SetOK ==
    ASSUME Inv, NEW d \in DB, NEW k \in Key, NEW v \in Values, NEW e \in Encoding,
           NEW opt \in SetOptions, py_set(d, k, v, e, opt)
    PROVE  KeyspaceInv' /\ Tidy /\ LossStep /\ DeadlineStep /\ Straight
<1> DEFINE found  == db_lookup(d, k) # None
           purged == IF opt.nx \/ opt.xx THEN Expired(d, {k}) ELSE {}
           kept   == Without(expires, d, purged)
<1>1. v \in Payload /\ opt.px \in Int /\ opt.ex \in Int /\ MsPerSec \in Nat \ {0}
      /\ now \in 0..MaxTime /\ MaxTime \in Nat
  BY CommandsAssumption, KeyspaceAssumption, InvSplit DEF SetOption
<1>2. CASE db_del(d, purged) /\ appended' = None /\ now' = now
  <2>1. KeyspaceInv' /\ KeepsDeadlines
        /\ \A f \in DB, x \in Key :
             keys[f][x] # None /\ keys'[f][x] = None => f = d /\ x \in purged
    BY <1>2, DelOK, InvSplit
  <2>2. LosesOnlyExpired
    BY <2>1 DEF LosesOnlyExpired, Expired
  <2>3. Straight
    BY <1>2, InvSplit DEF KeyspaceInv, DatabasesOK, db_del, Without, Straight, Gone, Stays, Logs
  <2> QED
    BY <1>2, <2>1, <2>2, <2>3, OrderlyStep, QuietOK DEF Orderly
<1>3. CASE /\ keys' = [keys EXCEPT ![d][k] = obj_create_string(v, e)]
           /\ \E t \in IF opt.px > 0 \/ opt.ex > 0 THEN Later ELSE {now} :
                /\ now' = t
                /\ expires' =
                     IF opt.px > 0 THEN [kept EXCEPT ![d][k] = t + opt.px]
                     ELSE IF opt.ex > 0
                       THEN [kept EXCEPT ![d][k] = t + opt.ex * MsPerSec]
                       ELSE kept
           /\ appended' = [cmd |-> "SET", db |-> d, key |-> k, val |-> v, enc |-> e]
           /\ reply' = [cmd |-> "SET", db |-> d, key |-> k, val |-> TRUE]
  <2> DEFINE o == obj_create_string(v, e)
  <2>1. o \in Object /\ o # None
    BY <1>1, KeyspaceAssumption DEF obj_create_string, Object, String
  <2>2. now' \in 0..MaxTime
    BY <1>1, <1>3 DEF Later
  <2>3. Tidy
    BY <1>1, <1>3, <2>2 DEF Tidy, Record
  <2>4. /\ keys \in [DB -> [Key -> Object \cup {None}]]
        /\ expires \in [DB -> [Key -> Int \cup {None}]]
        /\ ExpiresHaveKeys
    BY DEF Inv, TypeOK, DatabasesOK
  <2>5. /\ keys' \in [DB -> [Key -> Object \cup {None}]]
        /\ \A f \in DB, x \in Key :
             keys'[f][x] = IF f = d /\ x = k THEN o ELSE keys[f][x]
    BY <1>3, <2>1, <2>4
  <2>6. /\ kept \in [DB -> [Key -> Int \cup {None}]]
        /\ \A f \in DB, x \in Key :
             kept[f][x] = IF f = d /\ x \in purged THEN None ELSE expires[f][x]
    BY <2>4 DEF Without
  <2>7. PICK ms \in Int :
           \/ expires' = kept
           \/ ms > now' /\ expires' = [kept EXCEPT ![d][k] = ms]
    <3>1. now' \in Int
      BY <1>1, <2>2
    <3>2. CASE opt.px > 0
      <4>1. now' + opt.px \in Int /\ now' + opt.px > now'
        BY <1>1, <3>1, <3>2
      <4> QED
        BY <1>3, <3>2, <4>1
    <3>3. CASE ~(opt.px > 0) /\ opt.ex > 0
      <4>1. opt.ex * MsPerSec \in Int /\ opt.ex * MsPerSec > 0
        BY <1>1, <3>3
      <4>2. now' + opt.ex * MsPerSec \in Int /\ now' + opt.ex * MsPerSec > now'
        BY <3>1, <4>1
      <4> QED
        BY <1>3, <3>3, <4>2
    <3>4. CASE ~(opt.px > 0) /\ ~(opt.ex > 0)
      <4>1. expires' = kept
        BY <1>3, <3>4
      <4> QED
        BY <4>1
    <3> QED
      BY <3>2, <3>3, <3>4
  <2>8. /\ expires' \in [DB -> [Key -> Int \cup {None}]]
        /\ \A f \in DB, x \in Key :
             \/ expires'[f][x] = kept[f][x]
             \/ f = d /\ x = k /\ expires'[f][x] = ms /\ ms > now'
    <3> HIDE DEF kept
    <3>1. CASE expires' = kept
      BY <2>6, <3>1
    <3>2. CASE ms > now' /\ expires' = [kept EXCEPT ![d][k] = ms]
      BY <2>6, <3>2
    <3> QED
      BY <2>7, <3>1, <3>2
  <2>9. ExpiresHaveKeys'
    <3> SUFFICES ASSUME NEW f \in DB, NEW x \in Key, expires'[f][x] # None
                 PROVE  keys'[f][x] # None
      BY DEF ExpiresHaveKeys
    <3>1. CASE f = d /\ x = k
      BY <2>1, <2>5, <3>1
    <3>2. CASE ~(f = d /\ x = k)
      <4>1. kept[f][x] # None
        BY <2>8, <3>2
      <4>2. expires[f][x] # None
        BY <2>6, <4>1
      <4> QED
        BY <2>4, <2>5, <3>2, <4>2 DEF ExpiresHaveKeys
    <3> QED
      BY <3>1, <3>2
  <2>10. LossStep
    BY <2>1, <2>5 DEF LossStep
  <2>11. DeadlineStep
    <3> SUFFICES ASSUME NEW f \in DB, NEW x \in Key,
                        ~db_is_expired(f, x), expires'[f][x] # expires[f][x]
                 PROVE  /\ f = d /\ x = k
                        /\ expires'[f][x] # None /\ expires'[f][x] > now'
      BY <1>3 DEF DeadlineStep, Answered
    <3>1. kept[f][x] = expires[f][x]
      BY <2>6 DEF Expired
    <3> QED
      BY <2>8, <3>1, DeadlineInt
  <2>12. Straight
    <3>1. Made(d, k)
      <4>1. /\ appended' = [cmd |-> "SET", db |-> d, key |-> k, val |-> v, enc |-> e]
            /\ appended' # None
        BY <1>1, <1>3, CommandsAssumption DEF Record
      <4>2. keys'[d][k] = o
        BY <2>5
      <4>3. Tells(db_lookup(d, k), appended', o)
        BY <4>1, SetTells
      <4> QED
        BY <4>1, <4>2, <4>3 DEF Made, Logs
    <3>2. ASSUME NEW f \in DB, NEW x \in Key, ~(f = d /\ x = k)
          PROVE  Stays(f, x)
      <4>1. keys'[f][x] = keys[f][x] /\ expires'[f][x] = kept[f][x] /\ ~Logs(f, x)
        BY <1>3, <2>5, <2>8, <3>2 DEF Logs
      <4>2. kept[f][x] = expires[f][x]
        BY <2>6, <3>2 DEF Expired
      <4> QED
        BY <4>1, <4>2 DEF Stays
    <3>3. now' >= now
      BY <1>1, <1>3 DEF Later
    <3> QED
      BY <3>1, <3>2, <3>3 DEF Straight
  <2> QED
    BY <2>3, <2>5, <2>8, <2>9, <2>10, <2>11, <2>12 DEF KeyspaceInv, DatabasesOK
<1> QED
  BY <1>2, <1>3 DEF py_set, aof_append, Respond

\* DELETE removes only keys of its list.
LEMMA DeleteOK ==
    ASSUME Inv, NEW d \in DB, NEW list, py_delete(d, list)
    PROVE  KeyspaceInv' /\ Tidy /\ LossStep /\ DeadlineStep /\ Straight
<1>1. /\ KeyspaceInv' /\ KeepsDeadlines
      /\ \A e \in DB, k \in Key :
           keys[e][k] # None /\ keys'[e][k] = None => e = d /\ k \in Range(list)
  BY DelOK, InvSplit DEF py_delete
<1>2. Tidy
  BY QuietOK DEF py_delete, aof_append
<1>3. Answered("DELETE")' /\ reply'.db = d /\ reply'.key = list
  BY DEF py_delete, Respond, Answered
<1>4. Straight
  BY InvSplit DEF KeyspaceInv, DatabasesOK, py_delete, aof_append, db_del, Without,
     Straight, Gone, Stays, Logs
<1> QED
  BY <1>1, <1>2, <1>3, <1>4 DEF LossStep, DeadlineStep, KeepsDeadlines

\* EXPIRE and PEXPIRE give a deadline to a key that was found, and to no other.
LEMMA ExpireInOK ==
    ASSUME Inv, NEW cmd \in {"EXPIRE", "PEXPIRE"}, NEW d \in DB, NEW k \in Key,
           NEW ms \in Int, ExpireIn(cmd, d, k, ms)
    PROVE  KeyspaceInv' /\ Tidy /\ LossStep /\ DeadlineStep /\ Straight
<1>1. CASE db_lookup(d, k) = None
  <2>1. lazy_expire(d, {k}) /\ appended' = None /\ now' = now
    BY <1>1 DEF ExpireIn, aof_append
  <2> QED
    BY <2>1, LazyReadOK, OrderlyStep DEF Orderly, Ordinary
<1>2. CASE db_lookup(d, k) # None
  <2>1. PICK t \in Later : now' = t /\ db_set_expire(d, k, t + ms)
    BY <1>2 DEF ExpireIn
  <2>2. /\ appended' = None /\ reply'.cmd = cmd /\ reply'.db = d /\ reply'.key = k
        /\ expires' = [expires EXCEPT ![d][k] = t + ms]
    BY <1>2, <2>1 DEF ExpireIn, aof_append, Respond, db_set_expire
  <2>3. t \in 0..MaxTime /\ t + ms \in Int
    BY KeyspaceAssumption, InvSplit DEF Later
  <2>4. KeyspaceInv' /\ LosesOnlyExpired
    BY <1>2, <2>1, <2>3, SetExpireOK, InvSplit
  <2>5. Tidy
    BY <2>1, <2>2, <2>3 DEF Tidy, Record
  <2>6. \A e \in DB, x \in Key : expires'[e][x] # expires[e][x] => e = d /\ x = k
    BY <2>2 DEF Inv, TypeOK, DatabasesOK
  <2>7. Straight
    <3>1. keys' = keys /\ ~db_is_expired(d, k) /\ now' >= now
      BY <1>2, <2>1, <2>3, KeyspaceAssumption, InvSplit DEF db_set_expire, db_lookup, Later
    <3> QED
      BY <2>2, <2>6, <3>1 DEF Straight, Stays, Logs
  <2> QED
    BY <2>2, <2>4, <2>5, <2>6, <2>7 DEF LosesOnlyExpired, LossStep, DeadlineStep, Answered
<1> QED
  BY <1>1, <1>2

\* PERSIST takes the deadline of its key and touches nothing else.
LEMMA PersistOK ==
    ASSUME Inv, NEW d \in DB, NEW k \in Key, py_persist(d, k)
    PROVE  KeyspaceInv' /\ Tidy /\ LossStep /\ DeadlineStep /\ Straight
<1>1. /\ keys' = keys /\ now' = now /\ appended' = None
      /\ reply'.cmd = "PERSIST" /\ reply'.db = d /\ reply'.key = k
      /\ expires' \in {expires, [expires EXCEPT ![d][k] = None]}
  BY DEF py_persist, aof_append, Respond
<1>2. /\ DatabasesOK'
      /\ \A e \in DB, x \in Key : \/ expires'[e][x] = expires[e][x]
                                  \/ e = d /\ x = k /\ expires'[e][x] = None
  <2>1. DatabasesOK
    BY DEF Inv, TypeOK
  <2>2. CASE expires' = expires
    BY <1>1, <2>1, <2>2 DEF DatabasesOK
  <2>3. CASE expires' = [expires EXCEPT ![d][k] = None]
    BY <1>1, <2>1, <2>3 DEF DatabasesOK
  <2> QED
    BY <1>1, <2>2, <2>3
<1>3. KeyspaceInv'
  BY <1>1, <1>2 DEF Inv, KeyspaceInv, ExpiresHaveKeys
<1>4. LossStep /\ DeadlineStep
  BY <1>1, <1>2 DEF LossStep, DeadlineStep, Answered
<1>5. Straight
  BY <1>1, <1>2, InvSplit DEF Straight, Stays, Logs, Answered
<1> QED
  BY <1>1, <1>3, <1>4, <1>5, QuietOK

\* TTL and PTTL collect an expired key and let the clock move.
LEMMA TtlOK ==
    ASSUME Inv, NEW d \in DB, NEW k \in Key, py_ttl(d, k) \/ py_pttl(d, k)
    PROVE  Ordinary
<1>1. lazy_expire(d, {k}) /\ appended' = None /\ now' \in Later
  BY DEF py_ttl, py_pttl, Remaining, aof_append
<1>2. Tidy
  BY <1>1, KeyspaceAssumption, InvSplit DEF Later, Tidy, Record
<1>3. Straight
  <2>1. now' >= now /\ now \in Int /\ now' \in Int
    BY <1>1, <1>2, KeyspaceAssumption, InvSplit DEF Later, Tidy
  <2> QED
    BY <1>1, <2>1, InvSplit DEF KeyspaceInv, DatabasesOK, lazy_expire, db_del, Without,
       Expired, Straight, Gone, Stays, Logs
<1> QED
  BY <1>1, <1>2, <1>3, LazyOK, InvSplit DEF Ordinary

-----------------------------------------------------------------------------
(* The steps of Next.                                                      *)

\* What every step keeps and does.
Proper == KeyspaceInv' /\ Tidy /\ LossStep /\ DeadlineStep /\ Straight

\* What holds of ordinary steps holds of all.
LEMMA OrdinaryProper == Ordinary => Proper
BY OrderlyStep DEF Orderly, Ordinary, Proper

\* The cases of Next: commands on several keys,
LEMMA KeyCommandOK ==
    ASSUME Inv, NEW d \in DB, KeyCommand(d)
    PROVE  Proper
<1>1. CASE \E list \in KeyLists : py_delete(d, list)
  BY <1>1, DeleteOK DEF Proper
<1>2. CASE \E list \in KeyLists : py_exists(d, list)
  <2>1. \E S : lazy_expire(d, S) /\ appended' = None /\ now' = now
    BY <1>2 DEF py_exists, aof_append
  <2> QED
    BY <2>1, LazyReadOK, OrdinaryProper
<1>3. CASE \E k \in Key : py_type(d, k)
  BY <1>3, StringReadOK, OrdinaryProper
<1>4. CASE py_dbsize(d)
  BY <1>4, UnchangedOK, OrdinaryProper DEF py_dbsize, aof_append
<1> QED
  BY <1>1, <1>2, <1>3, <1>4 DEF KeyCommand

\* on strings,
LEMMA StringCommandOK ==
    ASSUME Inv, NEW d \in DB, NEW k \in Key, StringCommand(d, k)
    PROVE  Proper
<1>1. CASE py_get(d, k) \/ py_get_encoding(d, k)
  BY <1>1, StringReadOK, OrdinaryProper
<1>2. CASE \E v \in Values, e \in Encoding, opt \in SetOptions : py_set(d, k, v, e, opt)
  BY <1>2, SetOK DEF Proper
<1>3. CASE \E n \in Amounts : py_incrby(d, k, n)
  BY <1>3, IncrbyOK, OrdinaryProper
<1> QED
  BY <1>1, <1>2, <1>3 DEF StringCommand

\* on deadlines,
LEMMA ExpiryCommandOK ==
    ASSUME Inv, NEW d \in DB, NEW k \in Key, ExpiryCommand(d, k)
    PROVE  Proper
<1>1. CASE \E n \in Delays : py_expire(d, k, n) \/ py_pexpire(d, k, n)
  <2>1. PICK n \in Delays : py_expire(d, k, n) \/ py_pexpire(d, k, n)
    BY <1>1
  <2>2. n \in Int /\ n * MsPerSec \in Int
    BY CommandsAssumption, KeyspaceAssumption
  <2> QED
    BY <2>1, <2>2, ExpireInOK DEF py_expire, py_pexpire, Proper
<1>2. CASE py_persist(d, k)
  BY <1>2, PersistOK DEF Proper
<1>3. CASE py_ttl(d, k) \/ py_pttl(d, k)
  BY <1>3, TtlOK, OrdinaryProper
<1> QED
  BY <1>1, <1>2, <1>3 DEF ExpiryCommand

\* on lists, hashes and sorted sets,
LEMMA ContainerCommandOK ==
    ASSUME Inv, NEW d \in DB, NEW k \in Key,
           ListCommand(d, k) \/ HashCommand(d, k) \/ ZSetCommand(d, k)
    PROVE  Proper
<1>1. CASE ListCommand(d, k)
  BY <1>1, PushOK, ListReadOK, OrdinaryProper DEF ListCommand
<1>2. CASE HashCommand(d, k)
  BY <1>2, HashApplyOK, HdelOK, HincrbyOK, HashReadOK, OrdinaryProper DEF HashCommand
<1>3. CASE ZSetCommand(d, k)
  BY <1>3, ZaddOK, ZremOK, ZincrbyOK, ZSetReadOK, OrdinaryProper DEF ZSetCommand
<1> QED
  BY <1>1, <1>2, <1>3

\* and the sweeper and the clock.
LEMMA EnvironmentOK ==
    ASSUME Inv, Sweep \/ Tick
    PROVE  Proper
<1>1. CASE Sweep
  <2>1. \E S : sweep_db(S)
    BY <1>1 DEF Sweep
  <2>2. Orderly
    BY <2>1, SweepOK, InvSplit
  <2>3. Tidy
    BY <2>1, QuietOK DEF sweep_db, aof_append
  <2>4. Straight
    BY <2>1, InvSplit DEF KeyspaceInv, DatabasesOK, sweep_db, aof_append, Expired,
       Straight, Gone, Stays, Logs
  <2> QED
    BY <2>2, <2>3, <2>4, OrdinaryProper DEF Ordinary
<1>2. CASE Tick
  <2>1. Orderly
    BY <1>2, StutterOK, InvSplit DEF Tick
  <2>2. Tidy
    BY <1>2, KeyspaceAssumption, InvSplit DEF Tick, aof_append, Tidy, Record
  <2>3. Straight
    BY <1>2, InvSplit DEF Tick, databases, aof_append, Straight, Stays, Logs
  <2> QED
    BY <2>1, <2>2, <2>3, OrdinaryProper DEF Ordinary
<1> QED
  BY <1>1, <1>2

\* Every step keeps the invariant and treats keys and deadlines properly.
LEMMA NextOK == Inv /\ Next => Proper
BY KeyCommandOK, StringCommandOK, ExpiryCommandOK, ContainerCommandOK, EnvironmentOK
   DEF Next, Command

\* Empty databases satisfy the invariant.
LEMMA InitOK == Init => Inv
BY KeyspaceAssumption DEF Init, Inv, TypeOK, DatabasesOK, ExpiresHaveKeys, Record

\* The invariant is about the variables of Commands only.
LEMMA InvStutter == Inv /\ UNCHANGED vars => Inv'
BY DEF Inv, TypeOK, DatabasesOK, ExpiresHaveKeys, vars

-----------------------------------------------------------------------------
(* The theorems.                                                           *)

\* Both dicts keep their types and every deadline has a key.
THEOREM Invariance == Spec => []Inv
<1>1. Inv /\ [Next]_vars => Inv'
  BY NextOK, InvStutter, InvJoin DEF Proper
<1> QED
  BY <1>1, InitOK, PTL DEF Spec

\* Whatever commands, sweeps and ticks come in whatever order, the dicts hold
\* objects and deadlines and only replayable records are written.
THEOREM TypeCorrect == Spec => []TypeOK
BY Invariance, PTL DEF Inv

\* No deadline ever outlives its key, to strike the key's next value.
THEOREM DeadlinesBelongToKeys == Spec => []ExpiresHaveKeys
BY Invariance, PTL DEF Inv

\* A key leaves a database only by a DELETE that names it or past its deadline.
THEOREM KeysAreNotLostEarly == Spec => NoEarlyLoss
<1>1. Inv /\ [Next]_vars => [LossStep]_databases
  <2>1. UNCHANGED vars => UNCHANGED databases
    BY DEF vars, databases
  <2> QED
    BY <2>1, NextOK DEF Proper
<1> QED
  BY <1>1, Invariance, PTL DEF Spec, NoEarlyLoss

\* Only SET with EX or PX, EXPIRE, PEXPIRE and PERSIST of a live key change its
\* deadline, and SET only puts it in the future.
THEOREM DeadlinesAreKept == Spec => DeadlineKept
<1>1. Inv /\ [Next]_vars => [DeadlineStep]_databases
  <2>1. UNCHANGED vars => UNCHANGED databases
    BY DEF vars, databases
  <2> QED
    BY <2>1, NextOK DEF Proper
<1> QED
  BY <1>1, Invariance, PTL DEF Spec, DeadlineKept

\* What a step makes of a key whose data are past their deadline is what its record
\* makes of nothing.
LEMMA StraightRevival ==
    ASSUME Inv, Proper
    PROVE  RevivalStep
<1> SUFFICES ASSUME NEW d \in DB, NEW k \in Key, db_is_expired(d, k),
                    db_lookup(d, k)' # None, ~Answered("PERSIST")'
             PROVE  Content(keys'[d][k]) = Content(FromNothing(d, k)')
  BY DEF RevivalStep
<1>1. keys'[d][k] # None /\ ~(expires'[d][k] # None /\ now' > expires'[d][k])
  BY DEF db_lookup, db_is_expired
<1>2. now' >= now /\ now \in Int /\ now' \in Int
      /\ expires[d][k] \in Int /\ None \notin Int
  BY InvSplit, DeadlineInt, KeyspaceAssumption DEF Proper, Tidy, Straight, db_is_expired
<1>3. db_lookup(d, k) = None
  BY DEF db_lookup
<1>4. ~Gone(d, k)
  BY <1>1 DEF Gone
<1>5. ~Stays(d, k)
  BY <1>1, <1>2 DEF Stays, db_is_expired
<1>6. Made(d, k)
  BY <1>4, <1>5 DEF Proper, Straight
<1>7. FromNothing(d, k)' = IF Logs(d, k) THEN replay_cmd(None, appended') ELSE None
  BY DEF FromNothing, Logs
<1>8. CASE Logs(d, k)
  BY <1>3, <1>6, <1>7, <1>8 DEF Made, Tells
<1>9. CASE ~Logs(d, k)
  BY <1>6, <1>7, <1>9, EmptyOK DEF Made, Content, Empty
<1> QED
  BY <1>8, <1>9

\* Data past their deadline never come back: what a command stores under such a key
\* is what it stores under an absent one.
THEOREM DeadStayDead == Spec => NothingRevived
<1>1. Inv /\ [Next]_vars => [RevivalStep]_databases
  <2>1. UNCHANGED vars => UNCHANGED databases
    BY DEF vars, databases
  <2> QED
    BY <2>1, NextOK, StraightRevival
<1> QED
  BY <1>1, Invariance, PTL DEF Spec, NothingRevived

-----------------------------------------------------------------------------
(* TTL. *)

\* A deadline that a lookup found ahead is at most one millisecond behind at the
\* second read of the clock, and that rounds to 0.
LEMMA CDivOK ==
    ASSUME NEW ms \in Int, ms >= -1
    PROVE  CDiv(ms, MsPerSec) >= 0 /\ CDiv(ms, MsPerSec) \in Int
<1>1. 1 \div MsPerSec = 0
  BY KeyspaceAssumption
<1> QED
  BY <1>1, KeyspaceAssumption DEF CDiv

\* Whatever the clock does between the lookup and the subtraction, the division makes
\* a sentinel of no other answer (py_ttl).
LEMMA TtlAnswer ==
    ASSUME Inv, NEW d \in DB, NEW k \in Key, py_ttl(d, k)
    PROVE  TtlSentinels'
<1>1. PICK t \in Later :
        /\ now' = t
        /\ reply' = [cmd |-> "TTL", db |-> d, key |-> k,
                     val |-> IF db_lookup(d, k) = None THEN -2
                             ELSE IF db_get_expire(d, k) < 0 THEN -1
                             ELSE CDiv(expires[d][k] - t, MsPerSec)]
  BY DEF py_ttl, Remaining, Respond
<1>2. IF db_is_expired(d, k) THEN keys'[d][k] = None
      ELSE keys'[d][k] = keys[d][k] /\ expires'[d][k] = expires[d][k]
  BY InvSplit DEF py_ttl, Remaining, lazy_expire, db_del, Without, Expired,
                  KeyspaceInv, DatabasesOK
<1>3. expires[d][k] \in Int \cup {None} /\ None \notin Int /\ now \in Nat /\ t \in {now, now + 1}
  BY DeadlineInt, InvSplit, KeyspaceAssumption DEF Later
<1>4. reply'.db = d /\ reply'.key = k
  BY <1>1
<1>5. CASE db_lookup(d, k) = None
  <2>1. reply'.val = -2 /\ keys'[d][k] = None
    BY <1>1, <1>2, <1>5 DEF db_lookup
  <2> QED
    BY <1>4, <2>1 DEF TtlSentinels, Sentinel
<1>6. CASE db_lookup(d, k) # None /\ expires[d][k] = None
  <2>1. reply'.val = -1 /\ keys'[d][k] # None /\ expires'[d][k] = None
    BY <1>1, <1>2, <1>6 DEF db_lookup, db_get_expire
  <2> QED
    BY <1>4, <2>1 DEF TtlSentinels, Sentinel
<1>7. CASE db_lookup(d, k) # None /\ expires[d][k] # None
  <2>1. expires[d][k] >= now
    BY <1>3, <1>7 DEF db_lookup, db_is_expired
  <2>2. reply'.val = CDiv(expires[d][k] - t, MsPerSec)
    BY <1>1, <1>3, <1>7, <2>1 DEF db_get_expire
  <2>3. expires[d][k] - t \in Int /\ expires[d][k] - t >= -1
    BY <1>3, <1>7, <2>1
  <2>4. reply'.val >= 0
    BY <2>2, <2>3, CDivOK
  <2>5. keys'[d][k] # None /\ expires'[d][k] # None
    BY <1>2, <1>7 DEF db_lookup
  <2> QED
    BY <1>4, <2>4, <2>5 DEF TtlSentinels, Sentinel
<1> QED
  BY <1>5, <1>6, <1>7

\* No other step answers as TTL does.
OtherAnswer == ~Answered("TTL")'

\* Every other command answers under its own name:
LEMMA AnswerNames ==
    ASSUME NEW cmd, cmd # "TTL", NEW d, NEW k, NEW x
    PROVE  /\ Respond(cmd, d, k, x) => OtherAnswer
           /\ WrongType(cmd, d, k, x) => OtherAnswer
           /\ ZRefuse(cmd, d, k, x) => OtherAnswer
BY DEF WrongType, ZRefuse, Respond, Answered, OtherAnswer

\* those on several keys,
LEMMA KeyAnswers ==
    ASSUME NEW d \in DB, KeyCommand(d)
    PROVE  OtherAnswer
<1>1. \A list : py_delete(d, list) \/ py_exists(d, list) => OtherAnswer
  BY DEF py_delete, py_exists, Respond, Answered, OtherAnswer
<1>2. \A k \in Key : py_type(d, k) => OtherAnswer
  BY DEF py_type, Respond, Answered, OtherAnswer
<1>3. py_dbsize(d) => OtherAnswer
  BY DEF py_dbsize, Respond, Answered, OtherAnswer
<1> QED
  BY <1>1, <1>2, <1>3 DEF KeyCommand

\* on strings,
LEMMA StringAnswers ==
    ASSUME NEW d \in DB, NEW k \in Key, StringCommand(d, k)
    PROVE  OtherAnswer
<1>1. py_get(d, k) \/ py_get_encoding(d, k) => OtherAnswer
  BY DEF py_get, py_get_encoding, ReadTyped, Respond, Answered, OtherAnswer
<1>2. \A v, e, opt : py_set(d, k, v, e, opt) => OtherAnswer
  BY DEF py_set, Respond, Answered, OtherAnswer
<1>3. \A n : py_incrby(d, k, n) => OtherAnswer
  BY AnswerNames DEF py_incrby
<1> QED
  BY <1>1, <1>2, <1>3 DEF StringCommand

\* on deadlines, TTL apart,
LEMMA ExpiryAnswers ==
    ASSUME NEW d \in DB, NEW k \in Key, ExpiryCommand(d, k)
    PROVE  OtherAnswer \/ py_ttl(d, k)
<1>1. \A n : py_expire(d, k, n) \/ py_pexpire(d, k, n) => OtherAnswer
  BY DEF py_expire, py_pexpire, ExpireIn, Respond, Answered, OtherAnswer
<1>2. py_persist(d, k) => OtherAnswer
  BY DEF py_persist, Respond, Answered, OtherAnswer
<1>3. py_pttl(d, k) => OtherAnswer
  BY DEF py_pttl, Remaining, Respond, Answered, OtherAnswer
<1> QED
  BY <1>1, <1>2, <1>3 DEF ExpiryCommand

\* on lists,
LEMMA ListAnswers ==
    ASSUME NEW d \in DB, NEW k \in Key, ListCommand(d, k)
    PROVE  OtherAnswer
<1>1. \A vals : py_lpush(d, k, vals) \/ py_rpush(d, k, vals) => OtherAnswer
  BY DEF py_lpush, py_rpush, Push, WrongType, Respond, Answered, OtherAnswer
<1>2. \A i, j : py_lrange(d, k, i, j) => OtherAnswer
  BY DEF py_lrange, ReadList, Respond, Answered, OtherAnswer
<1>3. py_llen(d, k) => OtherAnswer
  BY DEF py_llen, ReadList, Respond, Answered, OtherAnswer
<1> QED
  BY <1>1, <1>2, <1>3 DEF ListCommand

\* on hashes,
LEMMA HashAnswers ==
    ASSUME NEW d \in DB, NEW k \in Key, HashCommand(d, k)
    PROVE  OtherAnswer
<1>1. \A m : py_hset(d, k, m) => OtherAnswer
  BY DEF py_hset, hash_apply_fields, NothingToDo, WrongType, Respond, Answered, OtherAnswer
<1>2. \A m : py_hmset(d, k, m) => OtherAnswer
  BY DEF py_hmset, hash_apply_fields, NothingToDo, WrongType, Respond, Answered, OtherAnswer
<1>3. \A fs : py_hdel(d, k, fs) => OtherAnswer
  BY DEF py_hdel, WrongType, Respond, Answered, OtherAnswer
<1>4. \A f, n : py_hincrby(d, k, f, n) => OtherAnswer
  BY AnswerNames DEF py_hincrby
<1>5. \A f : py_hget(d, k, f) => OtherAnswer
  BY DEF py_hget, ReadTyped, Respond, Answered, OtherAnswer
<1>6. \A f : py_hexists(d, k, f) => OtherAnswer
  BY DEF py_hexists, ReadTyped, Respond, Answered, OtherAnswer
<1>7. \A fs : py_hmget(d, k, fs) => OtherAnswer
  BY DEF py_hmget, ReadTyped, Respond, Answered, OtherAnswer
<1>8. py_hgetall(d, k) \/ py_hlen(d, k) => OtherAnswer
  BY DEF py_hgetall, py_hlen, ReadTyped, Respond, Answered, OtherAnswer
<1>9. py_hkeys(d, k) \/ py_hvals(d, k) => OtherAnswer
  BY DEF py_hkeys, py_hvals, hash_collect, ReadTyped, Respond, Answered, OtherAnswer
<1> QED
  BY <1>1, <1>2, <1>3, <1>4, <1>5, <1>6, <1>7, <1>8, <1>9 DEF HashCommand

\* and on sorted sets.
LEMMA ZSetAnswers ==
    ASSUME NEW d \in DB, NEW k \in Key, ZSetCommand(d, k)
    PROVE  OtherAnswer
<1>1. \A m, opt : py_zadd(d, k, m, opt) => OtherAnswer
  BY AnswerNames DEF py_zadd
<1>2. \A ms : py_zrem(d, k, ms) => OtherAnswer
  BY DEF py_zrem, WrongType, Respond, Answered, OtherAnswer
<1>3. \A m, n : py_zincrby(d, k, n, m) => OtherAnswer
  BY AnswerNames DEF py_zincrby
<1>4. \A i, j : py_zrange(d, k, i, j) \/ py_zrevrange(d, k, i, j) => OtherAnswer
  BY DEF py_zrange, py_zrevrange, py_zrange_common, ReadTyped, Respond, Answered, OtherAnswer
<1>5. \A i, j : py_zrangebyscore(d, k, i, j) => OtherAnswer
  BY DEF py_zrangebyscore, ReadTyped, Respond, Answered, OtherAnswer
<1>6. \A m : py_zrank(d, k, m) \/ py_zrevrank(d, k, m) => OtherAnswer
  BY DEF py_zrank, py_zrevrank, py_zrank_common, ReadTyped, Respond, Answered, OtherAnswer
<1>7. \A m : py_zscore(d, k, m) => OtherAnswer
  BY DEF py_zscore, ReadTyped, Respond, Answered, OtherAnswer
<1>8. py_zcard(d, k) => OtherAnswer
  BY DEF py_zcard, ReadTyped, Respond, Answered, OtherAnswer
<1> QED
  BY <1>1, <1>2, <1>3, <1>4, <1>5, <1>6, <1>7, <1>8 DEF ZSetCommand

\* So the property of the last answer is preserved by every step.
LEMMA TtlStep ==
    ASSUME Inv, Next
    PROVE  TtlSentinels'
<1>1. CASE Sweep \/ Tick
  BY <1>1 DEF Sweep, sweep_db, Tick, NoReply, TtlSentinels, Answered
<1>2. CASE Command
  <2>1. PICK d \in DB :
          \/ KeyCommand(d)
          \/ \E k \in Key : \/ StringCommand(d, k) \/ ExpiryCommand(d, k)
                           \/ ListCommand(d, k) \/ HashCommand(d, k) \/ ZSetCommand(d, k)
    BY <1>2 DEF Command
  <2>2. OtherAnswer \/ \E k \in Key : py_ttl(d, k)
    BY <2>1, KeyAnswers, StringAnswers, ExpiryAnswers, ListAnswers, HashAnswers, ZSetAnswers
  <2> QED
    BY <2>2, TtlAnswer DEF TtlSentinels, OtherAnswer
<1> QED
  BY <1>1, <1>2 DEF Next

\* TTL answers -2 for a missing key, -1 for one without a deadline and never another
\* negative number, although it reads the clock twice.
THEOREM TtlIsHonest == Spec => []TtlSentinels
<1>1. Inv /\ TtlSentinels /\ [Next]_vars => TtlSentinels'
  <2>1. TtlSentinels /\ UNCHANGED vars => TtlSentinels'
    BY DEF TtlSentinels, Answered, Sentinel, vars
  <2> QED
    BY <2>1, TtlStep
<1>2. Init => TtlSentinels
  BY DEF Init, NoReply, TtlSentinels, Answered
<1> QED
  BY <1>1, <1>2, Invariance, PTL DEF Spec
=============================================================================
