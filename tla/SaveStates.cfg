CONSTANTS
  early = early
  late = late
  Nothing = Nothing
  Slots = {1, 2, 3}
  Shown = {1, 2}
  Contents <- MCContents
  Locations = {0, 1}
SPECIFICATION Spec
INVARIANTS
  SlotHoldsLatest
  MenuListsFiles
SYMMETRY ContentsAreAlike
