SPECIFICATION Spec
CONSTANTS
  h1 = h1
  h2 = h2
  c1 = c1
  c2 = c2
  c3 = c3
  s1 = s1
  s2 = s2
  Hosts = {h1, h2}
  Callers = {c1, c2, c3}
  HostOf <- TwoHosts
  Sessions = {s1, s2}
  Resources = {r1}
  Values = {v1, v2}
  Amounts = {0}
  Ids = {i1, i2}
  Tokens = {t1}
  Binaries = {b1, b2}
  Times = {0}
  Menu = {"prepare", "confirm", "refuse", "observe", "user", "execute", "close"}
  MaxStarts = 4
  MaxFaults = 2
  MaxWrites = 1
  NoId = NoId
  NoToken = NoToken
  NoValue = NoValue
  Writer = Writer
  NoHost = NoHost
  NoCaller = NoCaller
  NoSession = NoSession
  NoBinary = NoBinary
  NoProposal = NoProposal
  NoEntry = NoEntry
  NoCall = NoCall
  QuotaCalls = 9
  QuotaAmount = 9
  QuotaWindow = 9
SYMMETRY Symmetry
ACTION_CONSTRAINT FitsNext
INVARIANTS
  EngineAgrees
  RestartsFindTheJournal
  PinnedEngine
  ApprovedAsShown
  SingleWriter
PROPERTIES
  ShutdownWaits
