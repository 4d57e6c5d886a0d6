CONSTANTS
  NoSystem = NoSystem
  allowed = allowed
  forbidden = forbidden
  Systems <- MCSystems
  ForbiddenSystems <- MCForbidden
  ConfirmAnswers = {TRUE}
  LoadOutcomes = {"loaded", "refused", "no_av"}
  Disallowed = {TRUE, FALSE}
  LegacyDll = FALSE
SPECIFICATION FairSpec
INVARIANTS
  NeverLoadsOverGame
PROPERTIES
  HandlersEnd
  ExitQuits
CHECK_DEADLOCK FALSE
