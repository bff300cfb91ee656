SPECIFICATION Spec
CONSTANTS
  MAX_DEPTH = 30
  Sources <- MCSources
INVARIANTS ParsesGrammar DisplayReparses TokensKept NoPanic Recovers Terminates
PROPERTY ReadsInOrder
CHECK_DEADLOCK FALSE
