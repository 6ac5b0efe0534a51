SPECIFICATION Spec
CONSTANTS
  W = 2
  K = 2
  MaxLen = 5
  Names = {a, b}
  SurplusBits = TRUE
INVARIANTS NoGhostBits
