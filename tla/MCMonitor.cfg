SPECIFICATION MCSpec
CONSTANTS
  s1 = s1
  r1 = r1
  Sessions = {s1, s2}
  Resources = {r1, r2}
  Values = {v1}
  Amounts = {2}
  Ids = {i1, i2, i3}
  Tokens = {t1, t2}
  NoId = NoId
  NoToken = NoToken
  NoValue = NoValue
  QuotaCalls = 2
  QuotaAmount = 3
  QuotaWindow = 1
  Times = {0, 2, 3}
SYMMETRY Symmetry
\* The monitor stops when the journal is as long as its instance allows.
CHECK_DEADLOCK FALSE
INVARIANTS
  RunOnce
  ApprovalSpentOnce
  LastWordWasYes
  OneInFlight
  QuotaHoldsInEveryWindow
  AuditFindsLiveDecisions
