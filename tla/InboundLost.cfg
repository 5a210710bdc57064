SPECIFICATION Spec
CONSTANTS
  ann = ann
  bob = bob
  cat = cat
  cell = cell
  home = home
  e1 = e1
  e2 = e2
  Customers = {ann, bob}
  Phones = {cell, home}
  Sender = cell
  NoPhone = NoPhone
  Nobody = Nobody
  Texts = {e1, e2}
  StopTexts = {e1}
  StartTexts = {e2}
  FirstPhone <- MCBobElsewhere
  DbErrors = TRUE
  StaffAtOnce = 1
  MaxDeliveries = 2
  MaxEdits = 0
  MaxExits = 0
CHECK_DEADLOCK FALSE
INVARIANTS ProcessedMeansApplied
