CONSTANTS
  NoSystem = NoSystem
  allowed = allowed
  forbidden = forbidden
  Systems <- MCSystems
  ForbiddenSystems <- MCForbidden
  ConfirmAnswers = {TRUE, FALSE}
  LoadOutcomes = {"loaded", "refused", "no_av"}
  Disallowed = {TRUE, FALSE}
  LegacyDll = FALSE
SPECIFICATION Spec
INVARIANT NeverLoadsOverGame
CHECK_DEADLOCK FALSE
