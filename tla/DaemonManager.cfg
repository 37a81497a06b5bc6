SPECIFICATION Spec
CONSTANTS
  Users = {ann, bob}
  Flows = {f1, f2}
  MaxMints = 2
  MaxMoves = 3
  None = none
  MaxRaces = 1
SYMMETRY Identities
INVARIANTS TypeOK CachedTokenIsTheUsers DaemonServesTheSession LoggedOutIsOff GuardHasOneHolder
CONSTRAINT Bounds
CHECK_DEADLOCK FALSE
