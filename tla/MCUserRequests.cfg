SPECIFICATION Spec
CONSTANTS
  Instances = {i1, i2}
  Slots = {r1, r2}
  Ids = {u1}
  MaxVersion = 2
  Ttl = 2
  Others = 3
  Bodies <- SomeBodies
  BodyLimit = 2
  Pages <- SomePages
  PerPages <- SomePerPages
  NoParam = NoParam
  DefaultPerPage = 2
  MaxPerPage = 3
  Modulus = 8
INVARIANTS
  RequestInv
PROPERTIES
  StaleCopiesGo
  BodiesArriveWhole
  PagesCoverTheTable
