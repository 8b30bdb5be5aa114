SPECIFICATION ServingSpec
CONSTANTS
  MaxRequestBytes = 2
  ServerBuffer = 1
  LongestBody = 4
  Stateless = TRUE
  mantle = mantle
  other = other
  HostNames <- MCHostNames
  AllowedNames <- MCAllowedNames
  Retries = 1
  Changes = 2
  DeclaredActions = 3
INVARIANTS
  ServingTypeOK GatesKeepOut BodyIsSound
  NothingOlderReturns SeenCommitsOnly TitleAsAsked
  MergesWhatWasReviewed MergedIsNotPending
  ReviewInOrder AnchorsAreWhole HookIsSound
  DeletionToldTruly SchemaFits
PROPERTIES GitLabOnlyAfterGates EveryRequestEnds KeepsToCatalogue
\* The one request ends, and a POST may have been answered with nothing more to do.
CHECK_DEADLOCK FALSE
