SPECIFICATION Spec
CONSTANTS
  Headers <- MCHeaders
  Sources <- MCSources
  MaxSteps = 200
INVARIANTS ExpanderFollowsC ReplaceFollowsC PipelineFollowsC ErrorsDelivered NoPanic Terminates
CHECK_DEADLOCK FALSE
