----------------------------- MODULE MCCommands ----------------------------
(***************************************************************************)
(* Instances of Commands and RdbStore for TLC.  Long long has two bits, so  *)
(* sums wrap; a second has two milliseconds, so TTL and PTTL round         *)
(* differently.                                                            *)
(***************************************************************************)
EXTENDS RdbStore

CONSTANT FMT

Option(ex, px, nx, xx) == [ex |-> ex, px |-> px, nx |-> nx, xx |-> xx]

\* Plain, EX, PX, both, NX, XX with EX, and NX with XX.
MCSetOptions ==
    {Option(-1, -1, FALSE, FALSE), Option(1, -1, FALSE, FALSE),
     Option(-1, 1, FALSE, FALSE), Option(1, 1, FALSE, FALSE),
     Option(-1, -1, TRUE, FALSE), Option(1, -1, FALSE, TRUE),
     Option(-1, -1, TRUE, TRUE)}

MCMinInt == -2
MCDelays == {-1, 1}

MCKeyLists == {<<1>>, <<1, 1>>}
MCPushes == {<<>>, <<"a">>}
MCPairPushes == {<<>>, <<"a", "b">>}
MCAmounts == {-2, 1}

Opt(nx, xx, gt, lt, ch) == [nx |-> nx, xx |-> xx, gt |-> gt, lt |-> lt, ch |-> ch]

MCZAddOptions ==
    {Opt(FALSE, FALSE, FALSE, FALSE, FALSE), Opt(TRUE, FALSE, FALSE, FALSE, TRUE),
     Opt(FALSE, TRUE, TRUE, FALSE, FALSE), Opt(FALSE, FALSE, FALSE, TRUE, TRUE)}

\* A snapshot with a slot to spare: key 1 of database 0.  Beside it database 0 has a
\* list, and database 1 a string that outlives the clock and a sorted set.
MCFound ==
    LET string == [type |-> "string", str |-> 1, enc |-> FMT]
        list   == [type |-> "list", list |-> <<"b", "a", "b">>]
        zset   == [type |-> "zset", scores |-> [m \in Member |-> m - 2]]
    IN  {[keys    |-> [d \in DB |-> IF d = 0 THEN <<None, list>> ELSE <<string, zset>>],
          expires |-> [d \in DB |-> IF d = 0 THEN <<None, None>> ELSE <<MaxTime + 2, None>>]]}

\* The clients use the spare key only.
MCNext == \/ KeyCommand(0)
          \/ StringCommand(0, 1) \/ ExpiryCommand(0, 1) \/ ListCommand(0, 1)
          \/ HashCommand(0, 1) \/ ZSetCommand(0, 1)
          \/ Sweep \/ Tick \/ ReopenSaved

MCSpec == RdbInit /\ [][MCNext]_vars
=============================================================================
