SPECIFICATION Spec
CONSTANTS
  Users = {u1, u2, u3}
  Files = {f1, f2, f3, f4}
  Workers = {w1, w2}
  Links = {1, 2}
  Sessions = {1, 2}
  MaxSteps = 3
  None = None
SYMMETRY MCSymmetry
CHECK_DEADLOCK FALSE
INVARIANTS AccessEnds LeadsAreLookedAfter
