SPECIFICATION Spec
CONSTANT MaxLines = 10
INVARIANTS
  TypeOK
  SelectionAgrees
  NoFalseError
  DepthTracksNesting
CHECK_DEADLOCK FALSE
