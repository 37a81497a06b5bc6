SPECIFICATION Spec
CONSTANTS
  Users = {ann, bob}
  Flows = {f1, f2}
  MaxMints = 2
  MaxMoves = 3
  None = none
  MaxRaces = 1
SYMMETRY Identities
INVARIANT NeverInherits
CONSTRAINT Bounds
CHECK_DEADLOCK FALSE
