SPECIFICATION MCSpec
CONSTANTS
  text = text
  update = update
  mail = mail
  twin = twin
  Requests = {text, twin}
  Sms = {text, twin}
  Transactional = {}
  DedupeKey <- MCKey
  MaxAttempts = 2
  LostAnswers = TRUE
  DbErrors = TRUE
  MaxKeywords = 2
  MaxExits = 1
  ann = ann
  bob = bob
  cat = cat
  cell = cell
  home = home
  Customers = {ann, bob, cat}
  Phones = {cell, home}
  Sender = cell
  NoPhone = NoPhone
  Nobody = Nobody
  Texts = {e1, e2}
  StopTexts = {e1}
  StartTexts = {e2}
  FirstPhone <- MCBobElsewhere
  StaffAtOnce = 1
  MaxDeliveries = 1
  MaxEdits = 3
  Jobs = {j1, j2}
  Workers = {w1, w2}
  Keys = {tick}
  NoKey = NoKey
  Tick = tick
  MaxClaims = 3
CHECK_DEADLOCK FALSE
SYMMETRY MCSymmetry
INVARIANTS MessagesAreUnique StopOutlivesMerges LiveKeyUnique LeaseExclusive
PROPERTIES OptOutHolds DeadReopenedOnlyByOverrun
