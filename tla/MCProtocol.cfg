SPECIFICATION Spec
CONSTANTS
  Commands <- MCCommands
  Responses <- MCResponses
  Wide = {"u"}
  MaxSent = 2
INVARIANT InSync
CHECK_DEADLOCK FALSE
