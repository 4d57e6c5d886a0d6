---------------------------- MODULE MCSaveStates ----------------------------
(* Instances of SaveStates for TLC.                                        *)
EXTENDS SaveStates, TLC

CONSTANTS early, late

MCContents == {early, late}

ContentsAreAlike == Permutations(MCContents)
=============================================================================
