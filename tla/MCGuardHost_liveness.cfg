SPECIFICATION FairSpec
CONSTANTS
  h1 = h1
  c1 = c1
  c2 = c2
  Hosts = {h1}
  Callers = {c1, c2}
  HostOf <- OneHost
  Sessions = {s1}
  Resources = {r1}
  Values = {v1}
  Amounts = {0}
  Ids = {i1}
  Tokens = {t1}
  Binaries = {b1}
  Times = {0}
  Menu = {"execute", "observe", "close", "user"}
  MaxStarts = 3
  MaxFaults = 1
  MaxWrites = 1
  NoId = NoId
  NoToken = NoToken
  NoValue = NoValue
  Writer = Writer
  NoHost = NoHost
  NoCaller = NoCaller
  NoSession = NoSession
  NoBinary = NoBinary
  NoProposal = NoProposal
  NoEntry = NoEntry
  NoCall = NoCall
  QuotaCalls = 9
  QuotaAmount = 9
  QuotaWindow = 9
PROPERTIES
  CallsReturn
  CallRevivesEngine
  RefinesMonitor
