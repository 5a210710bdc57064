SPECIFICATION MCSpec
CONSTANTS
  text = text
  update = update
  mail = mail
  twin = twin
  Requests = {update, text}
  Sms = {update, text}
  Transactional = {update}
  DedupeKey <- MCKey
  MaxAttempts = 2
  LostAnswers = TRUE
  DbErrors = FALSE
  MaxKeywords = 2
  MaxExits = 0
  Paths = {1, 2}
  Staff = {u1, u2}
  Uploads = {f1}
  NoEdit = NoEdit
  NoRow = NoRow
  MaxAnswers = 2
  MaxForms = 2
  MaxEnds = 1
  Counts = 2
  Calls = {1, 2}
  Free = Free
  Asked = Asked
  MaxChanges = 2
  MaxTroubles = 2
CHECK_DEADLOCK FALSE
INVARIANTS TypesOK NothingForgotten
PROPERTIES EveryMessageSettles UsesQueueByContract ScreensCatchUp
