SPECIFICATION Spec
CONSTANTS
  t1 = t1  t2 = t2  t3 = t3
  NoThread = NoThread
  Threads = {t1, t2, t3}
  Verbs = {"create", "lock", "trylock", "with", "unlock", "unlock_all"}
  Calls <- MCCalls
  Forgetful = {}
  Kind = "named"
  ObjBound = 1
  CallBound = 2
CHECK_DEADLOCK FALSE
PROPERTIES ImplementsLock
SYMMETRY MCSymmetry
