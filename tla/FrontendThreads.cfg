CONSTANTS
  NoSystem = NoSystem
  allowed = allowed
  forbidden = forbidden
  Systems <- MCSystems
  ForbiddenSystems <- MCForbidden
  ConfirmAnswers = {TRUE}
  LoadOutcomes = {"loaded", "refused"}
  Disallowed = {FALSE}
  LegacyDll = TRUE
SPECIFICATION ThreadsSpec
CONSTRAINT FewMisuses
INVARIANT ExtractedFileHasOwner
CHECK_DEADLOCK FALSE
