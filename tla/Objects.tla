------------------------------ MODULE Objects ------------------------------
(***************************************************************************)
(* The values a key can hold (object.c) and what the commands compute with *)
(* them: pure operators, no state.                                         *)
(*                                                                         *)
(* A string is what INCRBY tells apart: a number strtoll reads whole, by   *)
(* its value, or some other text.  Lists are sequences, hashes and sorted  *)
(* sets are functions with None for what is absent; a sorted set is the    *)
(* map its dict and its skiplist both hold.  Scores are doubles: finite    *)
(* ones are the integers strictly between -Inf and Inf.                    *)
(***************************************************************************)
EXTENDS Integers, Sequences, FiniteSets, SequencesExt

CONSTANTS None,             \* absence: a NULL object, deadline, field, record
          MinInt, MaxInt,   \* the range of long long
          Text,             \* strings strtoll does not read whole
          Encoding, RAW,    \* the encoding tag SET stores with a string
          Elem,             \* list elements
          Field, Member,    \* of hashes, of sorted sets
          Inf               \* the infinite score

Number  == MinInt..MaxInt
Payload == Number \cup Text
Score   == (-Inf)..Inf

ASSUME ObjectsAssumption ==
    /\ MinInt \in Int /\ MaxInt \in Int /\ MinInt <= 0 /\ 0 <= MaxInt
    /\ Inf \in Nat \ {0}
    /\ RAW \in Encoding
    /\ Text \cap Int = {}
    /\ None \notin Payload \cup Score \cup Int

String == [type : {"string"}, str : Payload, enc : Encoding]
List   == [type : {"list"}, list : Seq(Elem)]
Hash   == [type : {"hash"}, fields : [Field -> Payload \cup {None}]]
ZSet   == [type : {"zset"}, scores : [Member -> Score \cup {None}]]

Object == String \cup List \cup Hash \cup ZSet

obj_create_string(v, e) == [type |-> "string", str |-> v, enc |-> e]
obj_create_list == [type |-> "list", list |-> <<>>]
obj_create_hash == [type |-> "hash", fields |-> [f \in Field |-> None]]
obj_create_zset == [type |-> "zset", scores |-> [m \in Member |-> None]]

\* What a partial mapping may be: the dict argument of HSET, HMSET and ZADD.
Mapping(D, R) == UNION {[S -> R] : S \in SUBSET D}

Present(f) == {x \in DOMAIN f : f[x] # None}

-----------------------------------------------------------------------------
(* Strings: val += amount on a long long, where overflow wraps.            *)

\* Seeded fault: the sum is kept in a wider type.
Unwrapped(n) == n

Wrap(n) == ((n - MinInt) % (MaxInt - MinInt + 1)) + MinInt

IsInteger(v) == v \in Number

\* strtoll without a look at where it stopped: 0 for a text.
strtoll(v) == IF IsInteger(v) THEN v ELSE 0

-----------------------------------------------------------------------------
(* Lists. *)

push_head(list, vals) == Reverse(vals) \o list
push_tail(list, vals) == list \o vals

\* LRANGE and ZRANGE: negative indexes count from the end, then both ends are
\* clamped; both are inclusive and start at 0.
Slice(seq, start, stop) ==
    LET len   == Len(seq)
        from0 == IF start < 0 THEN len + start ELSE start
        to0   == IF stop < 0 THEN len + stop ELSE stop
        from  == IF from0 < 0 THEN 0 ELSE from0
        to    == IF to0 >= len THEN len - 1 ELSE to0
    IN  IF from <= to THEN SubSeq(seq, from + 1, to + 1) ELSE <<>>

-----------------------------------------------------------------------------
(* Hashes. *)

\* The fields of m put over those of a hash.
Overlay(fields, m) ==
    [f \in Field |-> IF f \in DOMAIN m THEN m[f] ELSE fields[f]]

Dropped(f, S) == [x \in DOMAIN f |-> IF x \in S THEN None ELSE f[x]]

-----------------------------------------------------------------------------
(* Sorted sets. *)

\* The zset_add of one member is refused by the options.
Refused(old, score, opt) ==
    IF old = None THEN opt.xx
    ELSE \/ opt.nx
         \/ opt.gt /\ score <= old
         \/ opt.lt /\ score >= old

zset_add(scores, m, opt) ==
    [x \in Member |->
        IF x \in DOMAIN m /\ ~Refused(scores[x], m[x], opt)
          THEN m[x] ELSE scores[x]]

\* Addition of doubles; None is NaN.
ScoreSum(a, b) ==
    IF {a, b} = {Inf, -Inf} THEN None
    ELSE IF a \in {Inf, -Inf} THEN a
    ELSE IF b \in {Inf, -Inf} THEN b
    ELSE IF a + b > Inf THEN Inf
    ELSE IF a + b < -Inf THEN -Inf
    ELSE a + b

\* The members in the order of the skiplist: by score, then by member.
Precedes(scores, a, b) ==
    scores[a] < scores[b] \/ (scores[a] = scores[b] /\ a < b)

Ranked(scores) ==
    LET members == Present(scores)
    IN  CHOOSE q \in [1..Cardinality(members) -> members] :
            \A j \in DOMAIN q : \A i \in 1..(j - 1) : Precedes(scores, q[i], q[j])
=============================================================================
