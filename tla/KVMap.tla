------------------------------- MODULE KVMap -------------------------------
(***************************************************************************)
(* What dict.c promises its callers: a finite map with add, replace, find, *)
(* delete and size, each of them atomic.  Nothing of tables, chains or     *)
(* rehashing is visible here.  Dict.tla is shown to implement it.          *)
(***************************************************************************)
EXTENDS Integers, FiniteSets

CONSTANTS Key, Val,
          NULL          \* "no entry", the NULL a lookup returns

VARIABLES map,          \* the value stored under each key, or NULL
          ret           \* what the last call returned

vars == <<map, ret>>

Results == Val \cup {NULL} \cup -1..Cardinality(Key)

TypeOK == /\ map \in [Key -> Val \cup {NULL}]
          /\ ret \in Results

Present == {k \in Key : map[k] # NULL}

Init == /\ map = [k \in Key |-> NULL]
        /\ ret = 0

\* dict_add refuses a key that is there; dict_replace overwrites it.
Add(k, v) ==
    IF map[k] = NULL
      THEN map' = [map EXCEPT ![k] = v] /\ ret' = 0
      ELSE ret' = -1 /\ UNCHANGED map

Replace(k, v) == map' = [map EXCEPT ![k] = v] /\ ret' = 0

Find(k) == ret' = map[k] /\ UNCHANGED map

Delete(k) == /\ ret' = IF map[k] = NULL THEN -1 ELSE 0
             /\ map' = [map EXCEPT ![k] = NULL]

Size == ret' = Cardinality(Present) /\ UNCHANGED map

Next == \/ \E k \in Key, v \in Val : Add(k, v) \/ Replace(k, v)
        \/ \E k \in Key : Find(k) \/ Delete(k)
        \/ Size

Spec == Init /\ [][Next]_vars
=============================================================================
