------------------------------- MODULE MCDict ------------------------------
(***************************************************************************)
(* Instances of Dict for TLC.  The hash makes keys collide in the smaller  *)
(* tables and part in the larger ones, so chains split while they move.    *)
(***************************************************************************)
EXTENDS Dict

MCKey == 1..5

\* Size 2 has chains of three and two keys, size 4 uses every bucket and still
\* chains 1 with 5, size 8 keeps all five keys apart.
MCHash == [k \in MCKey |-> CASE k = 1 -> 1 [] k = 2 -> 2 [] k = 3 -> 7
                             [] k = 4 -> 0 [] k = 5 -> 5]
=============================================================================
