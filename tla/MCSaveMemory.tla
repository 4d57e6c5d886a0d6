---------------------------- MODULE MCSaveMemory ----------------------------
(* Instances of SaveMemory for TLC.                                        *)
EXTENDS SaveMemory, TLC

CONSTANTS gameA, gameB, blank, progress

MCGames    == {gameA, gameB}
MCContents == {blank, progress}

GamesAreAlike == Permutations(MCGames)
=============================================================================
