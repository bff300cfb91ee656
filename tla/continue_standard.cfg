SPECIFICATION SSpec
CONSTANTS
  Programs <- MCPrograms
  Family = "continues"
INVARIANT ContinueFollowsStandard
