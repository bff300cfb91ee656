SPECIFICATION FairSpec
CONSTANTS
  Programs <- MCPrograms
  Family = "structure"
INVARIANTS
  TypeOK
  BlockStateTracksBuilder
  VerifierAccepts
  ContextMatchesNesting
  BreakScope
PROPERTY Returns
