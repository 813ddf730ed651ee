SPECIFICATION MCSpec
CONSTANTS
  o1 = o1
  o2 = o2
  p1 = p1
  r1 = r1
  k1 = k1
  x1 = x1
  x2 = x2
  m1 = m1
  m2 = m2
  Calls = {c1, c2, c3}
  Owners = {o1, o2}
  Peers = {p1}
  Resources = {r1}
  TaskIds = {k1}
  ContextIds = {x1, x2}
  MessageIds = {m1, m2}
  Phases = {"working", "rejected"}
  Menu <- AllMenus
  NoTask = NoTask
  NoContext = NoContext
  NoMessage = NoMessage
  NoPhase = NoPhase
  NoRequest = NoRequest
  NoFrame = NoFrame
  MaxFrames = 2
  MaxFaults = 1
INVARIANTS
  OneOwnerPerTask
  NothingSentToEndedTasks
  ReceiptIsTheLastWord
  CloseFindsNothingOpen
PROPERTIES
  FailuresAreRecorded
  KeepsPromise
  FenceComesDown
CHECK_DEADLOCK FALSE
