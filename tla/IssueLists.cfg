SPECIFICATION Spec
CONSTANTS
  Issues = {1, 2, 3}
  Statuses = {1, 2}
  Me = me
  Other = other
  Owners = {me, other}
  Board = board
  Mine = mine
  MyLists = {mine}
  ListOwners <- MCListOwners
  Undecidable = {}
  PageSize = 1
  None = none
  Mutations = {m1}
  Drafts <- MCDrafts
  Start <- MCStart
  MaxCommits = 2
  MaxMoves = 4
INVARIANTS TypeOK SettledListIsRight
CONSTRAINT Bounds
CHECK_DEADLOCK FALSE
