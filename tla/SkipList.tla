------------------------------ MODULE SkipList -----------------------------
(***************************************************************************)
(* A sorted set as it is stored: the dict from members to scores and the   *)
(* skiplist of skiplist.c, with the helpers of sorted_set.c that keep the  *)
(* two together and the walks that answer rank and range queries.  Objects *)
(* and ZSetCommands know a sorted set as the map alone; the properties say *)
(* that every answer read off the list is the one computed from the map.   *)
(*                                                                         *)
(* A node is named by its member, a number: sds_cmp is a total order.  The *)
(* link of node x at level i (level[i - 1] in the code) has the next node  *)
(* and the span, how many nodes forward it goes.                           *)
(***************************************************************************)
EXTENDS Objects

CONSTANTS Header,       \* the sentinel node
          MaxLevel,     \* ZSKIPLIST_MAXLEVEL
          Ends          \* start and stop indexes of ranges

ASSUME SkipListAssumption == /\ MaxLevel \in Nat \ {0}
                             /\ Member \subseteq Nat
                             /\ Header \notin Member /\ Header # None
                             /\ Ends \subseteq Int

VARIABLES dict,         \* zs->dict
          zsl           \* zs->zsl: level, length, tail and the nodes

vars == <<dict, zsl>>

Link(forward, span) == [forward |-> forward, span |-> span]

zsl_create ==
    [level |-> 1, length |-> 0, tail |-> None,
     node |-> [x \in {Header} |->
                 [score |-> 0, backward |-> None,
                  level |-> [i \in 1..MaxLevel |-> Link(None, 0)]]]]

Init == dict = [m \in Member |-> None] /\ zsl = zsl_create

-----------------------------------------------------------------------------
(* Searching: from the top level down, along each level for as long as the *)
(* next node, with the rank it would be reached at, is in the set "on".    *)

Members(list) == DOMAIN list.node \ {Header}

Place(x, rank) == [at |-> x, rank |-> rank]

Onward(list, on, i, place) ==
    LET link == list.node[place.at].level[i]
        next == Place(link.forward, place.rank + link.span)
    IN  IF next \in on THEN next ELSE place

\* The loop along a level: it follows no more links than there are nodes.
Along(list, on, i, from) ==
    LET after[n \in 0..list.length] ==
          IF n = 0 THEN from ELSE Onward(list, on, i, after[n - 1])
    IN  after[list.length]

\* The loop over the levels: where it left each of them.
Path(list, on) ==
    LET down[n \in 0..list.level] ==
          IF n = 0 THEN <<>>
          ELSE LET above == down[n - 1]
                   from  == IF n = 1 THEN Place(Header, 0) ELSE Head(above)
               IN  <<Along(list, on, list.level + 1 - n, from)>> \o above
    IN  down[list.level]

node_lt(node, x, score, m) ==
    node[x].score < score \/ (node[x].score = score /\ x < m)

node_gt(node, x, score, m) ==
    node[x].score > score \/ (node[x].score = score /\ x > m)

\* The last node before (score, m) on every level in use, with its rank.
Update(list, score, m) ==
    Path(list, [at : {x \in Members(list) : node_lt(list.node, x, score, m)},
                rank : Int])

\* A search stops at the first level, from the top, that brings it to the place.
StopAt(path, levels) ==
    IF levels = {} THEN Place(None, 0) ELSE path[Max(levels)]

zsl_get_rank(score, m) ==
    LET path == Path(zsl, [at : {x \in Members(zsl) : ~node_gt(zsl.node, x, score, m)},
                           rank : Int])
    IN  StopAt(path, {i \in DOMAIN path : path[i].at = m}).rank

zsl_get_element_by_rank(rank) ==
    LET path == Path(zsl, [at : Members(zsl), rank : {r \in Int : r <= rank}])
    IN  StopAt(path, {i \in DOMAIN path : path[i].rank = rank}).at

-----------------------------------------------------------------------------
(* Changing the list. *)

\* Seeded fault: a level keeps the span the header had when it was last in use.
RaisedStale(list, height) == [list EXCEPT !.level = IF height > @ THEN height ELSE @]

\* The list with its level raised to that of a new node: on the levels that come
\* into use the header's link spans the whole list.
Raised(list, height) ==
    LET raised(i) == list.level < i /\ i <= height
        header    == list.node[Header].level
    IN  [list EXCEPT
           !.level = IF height > @ THEN height ELSE @,
           !.node[Header].level =
               [i \in 1..MaxLevel |->
                  IF raised(i) THEN Link(header[i].forward, list.length) ELSE header[i]]]

\* zsl_insert of a member that is not in the list, at a height drawn at random.
zsl_insert(list, score, m, height) ==
    LET path      == Update(list, score, m)
        top       == Raised(list, height)
        update(i) == IF i <= list.level THEN path[i] ELSE Place(Header, 0)
        between(i) == path[1].rank - update(i).rank
        old(i)    == top.node[update(i).at].level[i]
        next      == old(1).forward
        relinked(i, link) == IF i <= height THEN Link(m, between(i) + 1)
                             ELSE Link(link.forward, link.span + 1)
        new       == [score |-> score,
                      backward |-> IF path[1].at = Header THEN None ELSE path[1].at,
                      level |-> [i \in 1..height |->
                                   Link(old(i).forward, old(i).span - between(i))]]
        kept(x)   == [score |-> top.node[x].score,
                      backward |-> IF x = next THEN m ELSE top.node[x].backward,
                      level |-> [i \in DOMAIN top.node[x].level |->
                          IF i <= top.level /\ update(i).at = x
                            THEN relinked(i, top.node[x].level[i])
                            ELSE top.node[x].level[i]]]
    IN  [level |-> top.level, length |-> top.length + 1,
         tail |-> IF next = None THEN m ELSE top.tail,
         node |-> [x \in DOMAIN top.node \cup {m} |-> IF x = m THEN new ELSE kept(x)]]

\* Seeded fault: a link over the deleted node keeps its span.
UnlinkedShort(i, link, x, gone) ==
    IF link.forward = x THEN Link(gone.level[i].forward, link.span + gone.level[i].span - 1)
    ELSE link

\* A link that led to the deleted node x takes over its link; one that led over it
\* is shorter by one.
Unlinked(i, link, x, gone) ==
    IF link.forward = x THEN Link(gone.level[i].forward, link.span + gone.level[i].span - 1)
    ELSE [link EXCEPT !.span = @ - 1]

\* Seeded fault: the node after the deleted one keeps its backward link.
RebackedNever(list, y, x) == list.node[y].backward

\* The backward link of node y once x is deleted.
Rebacked(list, y, x) ==
    IF y = list.node[x].level[1].forward THEN list.node[x].backward
    ELSE list.node[y].backward

\* zsl_delete: nothing happens unless the node after the path is the one meant.
zsl_delete(list, score, m) ==
    LET path  == Update(list, score, m)
        x     == list.node[path[1].at].level[1].forward
        gone  == list.node[x]
        kept(y) == [score |-> list.node[y].score,
                    backward |-> Rebacked(list, y, x),
                    level |-> [i \in DOMAIN list.node[y].level |->
                        IF i <= list.level /\ path[i].at = y
                          THEN Unlinked(i, list.node[y].level[i], x, gone)
                          ELSE list.node[y].level[i]]]
        node  == [y \in DOMAIN list.node \ {x} |-> kept(y)]
        used  == {i \in 2..list.level : node[Header].level[i].forward # None}
    IN  IF x # m \/ gone.score # score THEN list
        ELSE [level |-> Max(used \cup {1}), length |-> list.length - 1,
              tail |-> IF gone.level[1].forward = None THEN gone.backward ELSE list.tail,
              node |-> node]

-----------------------------------------------------------------------------
(* sorted_set.c, under the write lock: a member enters, moves and leaves   *)
(* in both structures.  Which zset_add the options refuse is in Objects.   *)

AddMember(m, score, height) ==
    /\ dict[m] = None
    /\ dict' = [dict EXCEPT ![m] = score]
    /\ zsl' = zsl_insert(zsl, score, m, height)

ChangeScore(m, score, height) ==
    /\ dict[m] # None /\ dict[m] # score
    /\ zsl' = zsl_insert(zsl_delete(zsl, dict[m], m), score, m, height)
    /\ dict' = [dict EXCEPT ![m] = score]

\* The dict lets go of a member only when the list did.
zset_delete_member(m) ==
    /\ dict[m] # None
    /\ LET list == zsl_delete(zsl, dict[m], m)
       IN  zsl' = list /\ dict' = IF list = zsl THEN dict ELSE [dict EXCEPT ![m] = None]

Next == \E m \in Member :
            \/ \E score \in Score, height \in 1..MaxLevel :
                  AddMember(m, score, height) \/ ChangeScore(m, score, height)
            \/ zset_delete_member(m)

Spec == Init /\ [][Next]_vars

-----------------------------------------------------------------------------
(* The walks of ZRANGE, ZREVRANGE and ZRANGEBYSCORE. *)

Node == Member \cup {Header, None}

Forward  == [x \in DOMAIN zsl.node |-> zsl.node[x].level[1].forward]
Backward == [x \in DOMAIN zsl.node |-> zsl.node[x].backward]

\* The nodes from x on, at most n of them, up to the first that is not in "on".  A
\* walk ends at None; one that comes to a freed node would end there, too, and its
\* range be wrong.
Walk(x, n, step, on) ==
    LET walk[i \in 0..n] ==
          [y \in Node |-> IF i = 0 \/ y \notin on THEN <<>>
                          ELSE <<y>> \o walk[i - 1][step[y]]]
    IN  walk[n][x]

py_zrange_common(start, stop, reverse) ==
    LET len   == zsl.length
        from0 == IF start < 0 THEN len + start ELSE start
        to0   == IF stop < 0 THEN len + stop ELSE stop
        from  == IF from0 < 0 THEN 0 ELSE from0
        to    == IF to0 >= len THEN len - 1 ELSE to0
        first == zsl_get_element_by_rank(IF reverse THEN len - from ELSE from + 1)
        step  == IF reverse THEN Backward ELSE Forward
    IN  IF from <= to /\ len > 0 THEN Walk(first, to - from + 1, step, Members(zsl))
        ELSE <<>>

zrange(start, stop) == py_zrange_common(start, stop, FALSE)

zrevrange(start, stop) == py_zrange_common(start, stop, TRUE)

zrangebyscore(min, max) ==
    LET first  == Forward[Header]
        low    == Walk(first, zsl.length, Forward, {x \in Members(zsl) : zsl.node[x].score < min})
        from   == IF low = <<>> THEN first ELSE Forward[Last(low)]
    IN  IF min <= max
          THEN Walk(from, zsl.length, Forward, {x \in Members(zsl) : zsl.node[x].score <= max})
        ELSE <<>>

-----------------------------------------------------------------------------
(* Properties. *)

\* After any history of insertions, score changes and deletions at any heights, the
\* link of every node, on every level in use that it reaches, leads to the next
\* node that reaches the level, in the order of the dict's scores, or is the last;
\* its span is the distance in ranks; and the list's level is that of its highest
\* node: what the searches of skiplist.c rely on.
WellLinked ==
    LET ranked == Ranked(dict)
        len    == Len(ranked)
        at(p)  == IF p = 0 THEN Header ELSE ranked[p]
        high   == [p \in 0..len |-> DOMAIN zsl.node[at(p)].level]
    IN  /\ DOMAIN zsl.node = {at(p) : p \in 0..len}
        /\ zsl.length = len
        /\ \A p \in 0..len, i \in 1..zsl.level : i \in high[p] =>
              LET later == {r \in (p + 1)..len : i \in high[r]}
              IN  zsl.node[at(p)].level[i] =
                      IF later = {} THEN Link(None, len - p)
                      ELSE Link(at(Min(later)), Min(later) - p)
        /\ zsl.level = Max({1} \cup UNION {high[p] : p \in 1..len})

\* ZRANK answers the position of the member, and the node found at a rank is the
\* one there: sums of spans over levels that came in and out of use.
RanksExact ==
    LET ranked == Ranked(dict)
    IN  \A i \in DOMAIN ranked :
            /\ zsl_get_rank(dict[ranked[i]], ranked[i]) = i
            /\ zsl_get_element_by_rank(i) = ranked[i]

\* Every range read along the links, forward and backward, is the slice of the
\* members ordered by the scores of the dict; a range of scores is the slice from
\* behind those that are lower.
RangesExact ==
    LET ranked == Ranked(dict)
    IN  /\ \A start, stop \in Ends :
              /\ zrange(start, stop) = Slice(ranked, start, stop)
              /\ zrevrange(start, stop) = Slice(Reverse(ranked), start, stop)
        /\ \A min, max \in Score :
              zrangebyscore(min, max) =
                  SubSeq(ranked,
                         Cardinality({m \in Present(dict) : dict[m] < min}) + 1,
                         Cardinality({m \in Present(dict) : dict[m] <= max}))
=============================================================================
