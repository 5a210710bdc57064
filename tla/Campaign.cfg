SPECIFICATION FairSpec
CONSTANTS
  Recipients = {1, 2}
  Unmergeable = {2}
  OptingOut = {1}
  Jobs = {1, 2, 3, 4}
  Batch = 1
  MaxAttempts = 2
  Allowance <- MCAllowance
  Sends = 2
  Pauses = 1
  StaffAtOnce = 1
  MaxExits = 1
CONSTRAINT FewTroubles
CHECK_DEADLOCK FALSE
INVARIANTS TypeOK OncePerRecipient RecordsAreTrue
PROPERTIES SendFinishes
