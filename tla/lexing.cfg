SPECIFICATION Spec
CONSTANTS
  IntBits = 4
  DirectiveNames <- MCDirectives
  Texts <- MCTexts
INVARIANTS
  LexerFollowsC
  PrintedFollowsC
  MalformedReported
  NoPanic
