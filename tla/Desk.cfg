SPECIFICATION MCSpec
CONSTANTS
  TaskIds = {m1, m2}
  Staff = {a, b}
  TaskWorkers = {r1, r2}
  Tickers = {k1, k2}
  Calendar = {1}
  Horizon = 4
  Grace = 1
  Leads = {1}
  Usual = 1
  MaxRequests = 3
  Nothing = Nothing
  People = {a, b}
  Messages = {m1, m2}
  Pictures = {k1, k2}
  Requests = {r1, r2}
  MaxAsked = 3
  Community = Community
  Group = Group
  Nobody = Nobody
SYMMETRY MCSymmetry
CHECK_DEADLOCK FALSE
INVARIANTS TasksAreKept UnreadIsWhatWasNotSeen ChatsKeepFaith
