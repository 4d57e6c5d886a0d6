CONSTANTS
  gameA = gameA
  gameB = gameB
  blank = blank
  progress = progress
  Nothing = Nothing
  Games <- MCGames
  Contents <- MCContents
  Blank = blank
  Locations = {0, 1, 2}
SPECIFICATION Spec
INVARIANTS
  CopyIsFile
PROPERTY BeginsWhereItEnded
SYMMETRY GamesAreAlike
