---------------------------- MODULE MCDurability ---------------------------
(***************************************************************************)
(* Instances of Durability for TLC.  Savers are alike and so are inodes.   *)
(***************************************************************************)
EXTENDS Durability

MCSymmetry == Permutations(Saver) \cup Permutations(Inode)

Store(mode, always, saves) == [mode |-> mode, always |-> always, saves |-> saves]

MCConfigs == {Store("rdb", FALSE, TRUE), Store("aof", FALSE, FALSE),
              Store("aof", TRUE, FALSE), Store("hybrid", FALSE, FALSE)}

MCBuffered == {Store("aof", FALSE, FALSE)}

MCMaxWrites == [mode \in Mode |-> CASE mode = "rdb" -> 2 [] mode = "aof" -> 4
                                    [] mode = "hybrid" -> 1]
=============================================================================
