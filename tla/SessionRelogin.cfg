SPECIFICATION Spec
CONSTANTS
  t1 = t1
  t2 = t2
  alice = alice
  bob = bob
  Threads = {t1}
  Loggers = {t1}
  Users = {alice, bob}
  NoUser = NoUser
  Logins <- AnyLogin
  StartTLS = {0}
  MaxChanges = 0
  MaxRequests = 3
SYMMETRY UserSymmetry
INVARIANT WhoIsBound
CHECK_DEADLOCK FALSE
