SPECIFICATION FairSpec
CONSTANTS
  Users = {u1, u2}
  Workers = {w1, w2}
  MaxInvitations = 2
  Expires = TRUE
  Resends = FALSE
INVARIANTS NotMutual
 
CHECK_DEADLOCK FALSE
