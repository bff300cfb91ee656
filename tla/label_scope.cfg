SPECIFICATION Spec
CONSTANTS
  Programs <- MCPrograms
  Family = "labels"
INVARIANT VerifierAccepts
