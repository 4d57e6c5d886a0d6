CONSTANTS
  NoSystem = NoSystem
  allowed = allowed
  forbidden = forbidden
  Systems <- MCSystems
  ForbiddenSystems <- MCForbidden
  ConfirmAnswers = {TRUE, FALSE}
  LoadOutcomes = {"loaded", "refused", "no_av"}
  Disallowed = {TRUE, FALSE}
  LegacyDll = FALSE
SPECIFICATION Spec
INVARIANTS
  TypeOK
  FsmAgreesWithCore
  UsesOnlyLoadedGame
  InitPairedWithDeinit
  HardcoreHasCleanSettings
  AchievementsFollowGame
CHECK_DEADLOCK FALSE
