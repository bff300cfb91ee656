SPECIFICATION Spec
CONSTANTS
  FileDecls <- MCFileDecls
  BodyDecls <- MCBodyDecls
  Definitions <- MCDefinitions
  MaxItems = 4
INVARIANTS
  ValidNeverPanics
  ExternalCompiles
  RedefinitionCaught
  SymbolAgrees
  UseDenotes
