SPECIFICATION Spec
CONSTANTS
  eve = eve
  wan = wan
  w1 = w1
  w2 = w2
  Peer = {eve}
  Ip = {wan}
  NoIp = NoIp
  Home <- MCHome
  Loopback = {}
  Gate = {g1}
  Writer = {w1, w2}
  Failure = {"write"}
  WarnLimit = 1
  Nobody = Nobody
  Idle = Idle
SYMMETRY AnyWriter
INVARIANTS
  TypeOK
  BannedStayOut
  IsolatedStayOut
  SettingsSaved
  OnlySqueezeBlocks
