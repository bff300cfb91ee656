SPECIFICATION SFairSpec
CONSTANTS
  Programs <- MCPrograms
  Family = "executed"
INVARIANT CodeFollowsSource
PROPERTY CodeArrives
