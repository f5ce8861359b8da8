----------------------------- MODULE MCSkipList ----------------------------
EXTENDS SkipList

MCMinInt == 0
MCEnds == {-2, -1, 0, 1, 3, 4}
=============================================================================
