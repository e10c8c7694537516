SPECIFICATION SettingSpec
CHECK_DEADLOCK FALSE
CONSTANTS
  Hosts = {h1, h2}
  NoHost = NoHost
  Owners = {w1, w2}
  Capacity = 1
  MaxConn = 3
  MaxSession = 1
  MaxLive = 1
  a = a
  b = b
  Endpoints = {data}
  Data = data
  DataRoom = 3
  OtherRoom = 1
  Workers = {p1, p2, p3}
  Clients = {client}
  Quota = 2
  MaxEmpty = 2
  MaxFaults = 1
SYMMETRY FenceSymmetry
INVARIANTS
  ClaimsStayTrue SpareOffered
  StandingIsLearntOnce RejectedWasErased CarryFollowsCaret
PROPERTIES
  ReadingGuardsSpace LostReadingGuarded
  NothingErasedIsLearnt
