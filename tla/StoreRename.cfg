SPECIFICATION Spec
CONSTANTS
  w1 = w1
  w2 = w2
  s1 = s1
  s2 = s2
  s3 = s3
  c1 = c1
  c2 = c2
  i1 = i1
  i2 = i2
  Expirer = expirer
  NoThread = NoThread
  NoId = NoId
  NoIP = NoIP
  Created = Created
  Workers <- TwoWorkers
  SessionIds <- ThreeIds
  Envs <- OneEnv
  SessionTTL = 1
  MaxSessions = 2
  MaxSessionsPerIP = 2
  Paranoid = TRUE
  MaxTime = 0
  MaxRequests = 3
SYMMETRY Symmetry
INVARIANTS NoOrphanCheckvars
PROPERTY ImplementsRegistry
