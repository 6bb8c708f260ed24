SPECIFICATION MCSpec
CONSTANTS
  r1 = r1
  r2 = r2
  w1 = w1
  w2 = w2
  q1 = q1
  m1 = m1
  u1 = u1
  u2 = u2
  Blank = Blank
  NoUser = NoUser
  NoId = NoId
  All = star
  Methods <- OneMethod
  MethodLists <- SomeLists
  Writers <- TwoWriters
  Requests <- TwoRequests
  Queries <- OneQuery
  Frames <- SomeFrames
  Handshakes <- SomeHandshakes
  Users = {u1, u2}
  Echoes = {"own", "blank"}
  Capacity = 1
  MaxFaults = 1
INVARIANTS
  TypeOK
  UnleasedIsPending
  RefusedAuthLeavesDevice
  OneAnswer
PROPERTIES
  AnswersAreCurrent
  EveryMessageAnswered
