SPECIFICATION Spec
CONSTANTS
  Clients = {c1, c2}
  Calls = {e1}
  MaxPosts = 2
  MaxJoins = 2
INVARIANTS RunsAsApproved DialogsCleared
PROPERTIES CallsEnd
CHECK_DEADLOCK FALSE
