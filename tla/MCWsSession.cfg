SPECIFICATION Spec
CONSTANTS
  u1 = u1
  u2 = u2
  t1 = t1
  t2 = t2
  t3 = t3
  t4 = t4
  t5 = t5
  t6 = t6
  Users = {u1, u2}
  Anonymous = Anonymous
  NoToken = NoToken
  BadToken = BadToken
  Topics = {t1, t2, t3, t4, t5, t6}
  Owner <- Owners
  OwnTopic <- OwnTopics
  Public = Public
  Members = Members
  Malformed = Malformed
  MaxTopics = 2
  SendBuffer = 2
  OutBuffer = 2
  MaxInbox = 2
  HeartbeatInterval = 2
  ClientTimeout = 3
INVARIANTS
  SessionInv
  PrivateTopicsStayPrivate
PROPERTIES
  AdmittedAsAuthenticated
  ReapedInTime
  DeadConnectionsEnd
CHECK_DEADLOCK FALSE
