SPECIFICATION Spec
CONSTANT
  Scenarios <- HardLinks
INVARIANTS
  TokensAreFound
