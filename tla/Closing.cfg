SPECIFICATION MCSpec
CONSTANTS
  Persons = {p1, p2}
  Workers = {w1, w2}
  Clerks = {w1, w2}
  Template <- MCTemplate
  MaxSteps = 2
  MaxDealSteps = 3
  MaxExits = 1
  Commissions = {c1, c2}
  Renewals = {r1, r2}
  Amounts = {3, 4}
  Days = {0, 1}
  None = None
  Pieces = {p1, p2, o}
  Required = {p1, p2}
  MaxUploads = 3
  MaxAsks = 3
  Inside = {w1, w2}
  Outside = {o1, o2}
SYMMETRY MCSymmetry
CHECK_DEADLOCK FALSE
INVARIANTS OneCurrentAssessment MoneyIsAccounted RecordsStand
PROPERTIES ApprovalsAreClear PaidOnceComplete
