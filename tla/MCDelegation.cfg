SPECIFICATION MCSpec
CONSTANTS
  a1 = a1
  a2 = a2
  t1 = t1
  t2 = t2
  GrantIds = {g1, g2, g3}
  Actors = {a1, a2}
  Workflows = {w1}
  Targets = {t1, t2}
  Permitted = {t1, t2}
  Amounts = {1}
  Offers <- NestedOffers
  Times = {0, 1}
  NoGrant = NoGrant
  NoActor = NoActor
  NoWorkflow = NoWorkflow
  NoTarget = NoTarget
  NoBody = NoBody
  PlainCalls = TRUE
  MaxCommands = 7
  MaxFaults = 2
INVARIANTS
  BudgetsHold
  DispatchesAreCovered
  NoEscalation
  LedgerAgreesWithHistory
CHECK_DEADLOCK FALSE
