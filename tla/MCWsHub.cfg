SPECIFICATION Spec
CONSTANTS
  c1 = c1
  u1 = u1
  Conns = {c1, c2}
  Publishers = {p1, p2}
  Topics = {t1, t2}
  Users = {u1}
  UserOf <- SameUser
  Anonymous = Anonymous
  NoTopic = NoTopic
  Nobody = Nobody
  MaxConnections = 0
  MaxTopics = 0
  SendBuffer = 1
SYMMETRY Symmetry
INVARIANTS
  TypeOK
  IndexesAgreeOnLive
  NothingLeftBehind
