------------------------------ MODULE BufPool ------------------------------
(***************************************************************************)
(* One slab of bufpool.c.  Every dict, entry, iterator, list node, object  *)
(* and small string is a slot of such a slab, whichever store it belongs   *)
(* to, and the threads that allocate and free them hold no lock in common: *)
(* commands have the interpreter lock, the sweeper a write lock, savers    *)
(* (their iterators) a read lock.  So the slab has a mutex.                *)
(*                                                                         *)
(* Memory is addresses 0, 1, ...; page n (from 0) is the PageBytes         *)
(* addresses from n * PageBytes on, its header first.  A free slot holds   *)
(* the link to the next one in its own bytes, which its next owner writes  *)
(* over.                                                                   *)
(***************************************************************************)
EXTENDS Integers, FiniteSets, Sequences, SequencesExt

CONSTANTS Thread,
          SlotSize,             \* SCLASS: the sizes a slab can have
          PageBytes, Header,    \* POOL_PAGE_BYTES, sizeof(page)
          MaxPages,             \* pages malloc has
          NULL, Written         \* no slot; what owners leave in a slot

ASSUME BufPoolAssumption ==
    /\ {PageBytes, Header, MaxPages} \subseteq Nat
    /\ \A sz \in SlotSize : sz \in Nat \ {0} /\ Header + sz <= PageBytes
    /\ NULL \notin Int \cup Thread /\ Written \notin Int \cup {NULL}

\* Where page n begins.
Base(n) == n * PageBytes

Address == 0..(Base(MaxPages) - 1)

VARIABLES sz,           \* the slab's slot size
          free,         \* the head of the recycled-slot list
          bump, end,    \* what is untouched of the current page
          pages,        \* how many pages the slab has
          next,         \* the first word of every slot: a link, or data
          lock,         \* the holder of the mutex, or NULL
          pc,           \* where each thread is
          slot,         \* the slot it gets or gives back
          live          \* slots in the callers' hands

vars == <<sz, free, bump, end, pages, next, lock, pc, slot, live>>

slab == <<sz, free, bump, end, pages, next>>

Init == /\ sz \in SlotSize
        /\ free = NULL /\ bump = 0 /\ end = 0 /\ pages = 0
        /\ next = [a \in Address |-> Written]
        /\ lock = NULL
        /\ pc = [t \in Thread |-> "idle"] /\ slot = [t \in Thread |-> NULL]
        /\ live = {}

Goto(t, label) == pc' = [pc EXCEPT ![t] = label]

-----------------------------------------------------------------------------
(* bufpool_alloc. *)

\* Seeded fault: the mutex is not taken.
AllocUnguarded(t) ==
    /\ pc[t] = "idle" /\ Goto(t, "alloc")
    /\ UNCHANGED <<slab, lock, slot, live>>

AllocLock(t) ==
    /\ pc[t] = "idle" /\ lock = NULL
    /\ lock' = t /\ Goto(t, "alloc")
    /\ UNCHANGED <<slab, slot, live>>

\* p = sl->free.
TakeFree(t) ==
    /\ pc[t] = "alloc" /\ free # NULL
    /\ slot' = [slot EXCEPT ![t] = free]
    /\ Goto(t, "unlink")
    /\ UNCHANGED <<slab, lock, live>>

\* sl->free = sl->free->next.
Unlink(t) ==
    /\ pc[t] = "unlink"
    /\ free' = next[free]
    /\ Goto(t, "alloc_unlock")
    /\ UNCHANGED <<sz, bump, end, pages, next, lock, slot, live>>

\* Seeded fault: a slot need only begin within the page.
RoomForStart == bump < end

Room == bump + sz <= end

\* grow_slab: what is left of the old page is given up.
Grow(t) ==
    /\ pc[t] = "alloc" /\ free = NULL /\ ~Room /\ pages < MaxPages
    /\ pages' = pages + 1
    /\ bump' = Base(pages) + Header
    /\ end' = Base(pages + 1)
    /\ UNCHANGED <<sz, free, next, lock, pc, slot, live>>

\* malloc has no page: NULL is returned.
Fail(t) ==
    /\ pc[t] = "alloc" /\ free = NULL /\ ~Room /\ pages = MaxPages
    /\ lock' = NULL /\ Goto(t, "idle")
    /\ UNCHANGED <<slab, slot, live>>

\* p = sl->bump.
TakeVirgin(t) ==
    /\ pc[t] = "alloc" /\ free = NULL /\ Room
    /\ slot' = [slot EXCEPT ![t] = bump]
    /\ Goto(t, "advance")
    /\ UNCHANGED <<slab, lock, live>>

\* sl->bump += sl->sz.
Advance(t) ==
    /\ pc[t] = "advance"
    /\ bump' = bump + sz
    /\ Goto(t, "alloc_unlock")
    /\ UNCHANGED <<sz, free, end, pages, next, lock, slot, live>>

\* The caller has its slot, and writes to it.
AllocReturn(t) ==
    /\ pc[t] = "alloc_unlock"
    /\ lock' = NULL
    /\ live' = live \cup {slot[t]}
    /\ next' = [next EXCEPT ![slot[t]] = Written]
    /\ slot' = [slot EXCEPT ![t] = NULL]
    /\ Goto(t, "idle")
    /\ UNCHANGED <<sz, free, bump, end, pages>>

-----------------------------------------------------------------------------
(* bufpool_free, of a slot its caller got from bufpool_alloc. *)

\* Seeded fault: the mutex is not taken.
FreeUnguarded(t, s) ==
    /\ pc[t] = "idle" /\ s \in live
    /\ live' = live \ {s}
    /\ slot' = [slot EXCEPT ![t] = s]
    /\ Goto(t, "link")
    /\ UNCHANGED <<slab, lock>>

FreeLock(t, s) ==
    /\ pc[t] = "idle" /\ s \in live /\ lock = NULL
    /\ lock' = t
    /\ live' = live \ {s}
    /\ slot' = [slot EXCEPT ![t] = s]
    /\ Goto(t, "link")
    /\ UNCHANGED slab

\* s->next = sl->free.
FreeLink(t) ==
    /\ pc[t] = "link"
    /\ next' = [next EXCEPT ![slot[t]] = free]
    /\ Goto(t, "head")
    /\ UNCHANGED <<sz, free, bump, end, pages, lock, slot, live>>

\* sl->free = s.
FreeHead(t) ==
    /\ pc[t] = "head"
    /\ free' = slot[t]
    /\ slot' = [slot EXCEPT ![t] = NULL]
    /\ lock' = NULL /\ Goto(t, "idle")
    /\ UNCHANGED <<sz, bump, end, pages, next, live>>

-----------------------------------------------------------------------------
Next == \E t \in Thread :
            \/ AllocLock(t) \/ TakeFree(t) \/ Unlink(t)
            \/ Grow(t) \/ Fail(t) \/ TakeVirgin(t) \/ Advance(t) \/ AllocReturn(t)
            \/ \E s \in Address : FreeLock(t, s)
            \/ FreeLink(t) \/ FreeHead(t)

Spec == Init /\ [][Next]_vars

-----------------------------------------------------------------------------
(* What must hold. *)

Bytes(s) == s..(s + sz - 1)

\* The slots one meets in i steps along the links, from any address.
Along[i \in 0..Cardinality(Address)] ==
    [a \in Address \cup {NULL, Written} |->
        IF a \notin Address \/ i = 0 THEN <<>> ELSE <<a>> \o Along[i - 1][next[a]]]

\* The list, and the slots a thread has taken off it or is about to put on it.
FreeList == Along[Cardinality(Address)][free]

InHand == {slot[t] : t \in Thread} \ {NULL}

Untouched == bump..(end - 1)

Page(n) == (Base(n) + Header)..(Base(n + 1) - 1)

\* No byte has two owners: live slots, the slots threads are handing over, and the
\* rest of the current page are apart, and each slot is inside one page, behind its
\* header.
NoOverlap ==
    /\ \A s \in live \cup InHand :
         /\ \E n \in 0..(pages - 1) : Bytes(s) \subseteq Page(n)
         /\ \A r \in (live \cup InHand) \ {s} : Bytes(s) \cap Bytes(r) = {}
    /\ live \cap InHand = {}
    /\ \A t, u \in Thread : t # u /\ slot[t] # NULL => slot[t] # slot[u]
    /\ lock = NULL => \A s \in live : Bytes(s) \cap Untouched = {}

\* What owners write into their slots never becomes a link: between two calls the
\* recycled slots form a list without a cycle that ends in NULL, and none of them
\* is live.
FreeListSound ==
    lock = NULL =>
        /\ IsInjective(FreeList)
        /\ ToSet(FreeList) \cap live = {}
        /\ FreeList # <<>> => next[Last(FreeList)] = NULL

\* The slots a page is cut into.
Cut(n) == {s \in {Base(n) + Header + k * sz : k \in 0..PageBytes} : Bytes(s) \subseteq Page(n)}

\* Between two calls every slot ever handed out is live or on the list: a free is
\* never lost, so a pool that has a free slot never asks for another page.
NothingLost ==
    lock = NULL =>
        \A n \in 0..(pages - 1) : \A s \in Cut(n) :
            s \notin Untouched => s \in live \cup ToSet(FreeList)
=============================================================================
