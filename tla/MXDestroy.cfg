SPECIFICATION FairSpec
CONSTANTS
  t1 = t1  t2 = t2  t3 = t3
  NoThread = NoThread
  Threads = {t1, t2}
  Verbs = {"lock", "trylock", "unlock", "destroy"}
  Calls <- MCCalls
  Forgetful = {t1, t2}
  Kind = "anon"
  ObjBound = 1
  CallBound = 3
CHECK_DEADLOCK FALSE
INVARIANTS CountedLocks NoUseAfterFree
PROPERTIES DestroyedUnheld ArmedIsDestroyed
