SPECIFICATION Spec
CONSTANTS
  t1 = t1
  t2 = t2
  alice = alice
  bob = bob
  Threads = {t1, t2}
  Loggers = {t1}
  Users = {alice, bob}
  NoUser = NoUser
  Logins <- AnyLogin
  StartTLS = {1, 2}
  MaxChanges = 2
  MaxRequests = 4
SYMMETRY UserSymmetry
INVARIANTS NoForgottenIdentity LoginTakesEffect
CHECK_DEADLOCK FALSE
