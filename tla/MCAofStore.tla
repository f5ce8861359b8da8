----------------------------- MODULE MCAofStore ----------------------------
(***************************************************************************)
(* Instances of AofStore for TLC.  Long long has two bits, so sums wrap.   *)
(***************************************************************************)
EXTENDS AofStore

Option(ex, px, nx, xx) == [ex |-> ex, px |-> px, nx |-> nx, xx |-> xx]

MCPlainSet == {Option(-1, -1, FALSE, FALSE)}

MCMinInt == -1
MCEnds == {-2, 0, 1}
MCKeyLists == {<<1>>}
MCPushes == {<<>>, <<"a">>, <<"a", "b">>}

Opt(nx, xx, gt, lt, ch) == [nx |-> nx, xx |-> xx, gt |-> gt, lt |-> lt, ch |-> ch]

\* Plain, NX, XX and GT.
MCZAddOptions ==
    {Opt(FALSE, FALSE, FALSE, FALSE, FALSE), Opt(TRUE, FALSE, FALSE, FALSE, FALSE),
     Opt(FALSE, TRUE, FALSE, FALSE, FALSE), Opt(FALSE, FALSE, TRUE, FALSE, FALSE)}
=============================================================================
