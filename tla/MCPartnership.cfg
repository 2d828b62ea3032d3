SPECIFICATION Spec
CONSTANTS
  Users = {u1, u2, u3}
  Workers = {w1, w2}
  MaxInvitations = 2
  Expires = FALSE
  Resends = TRUE
SYMMETRY Symmetry
INVARIANTS MembersFitStatus OneEach
PROPERTIES RefusedNeverActivates ImplementsPairing
