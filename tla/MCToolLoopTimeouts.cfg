SPECIFICATION Spec
CONSTANTS
  Names <- MCNames
  Tools <- MCTools
  Allowed <- MCRecordingAllowed
  Permissions <- MCPermissions
  Strict = TRUE
  Responses <- MCResponses
  Arguments = {"valid", "malformed"}
  Sizes = {1, 3}
  MaxRounds = 2
  MaxToolCalls = 3
  MaxResponse = 2
  MaxObservation = 2
  MaxContext = 5
  Deadline = 2
  Horizon = 3
INVARIANTS
  TimeoutsAreClassified
CHECK_DEADLOCK FALSE
