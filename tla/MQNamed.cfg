SPECIFICATION FairSpec
CONSTANTS
  t1 = t1  t2 = t2  t3 = t3
  a = a  b = b
  NoThread = NoThread
  Threads = {t1, t2, t3}
  Owner = t1
  Senders = {t1}
  Receivers = {t2, t3}
  Destroyers = {t1}
  Inspectors = {t1}
  Calls <- MCCalls
  Deadlines = {TRUE}
  Msgs = {a, b}
  Patterns <- MCPatterns
  Signalled = {t3}
  Kind = "named"
  MaxSize = 0
  SendBound = 1
  DrainBound = 2
INVARIANTS DeletedOnce
PROPERTIES DestroyedQueueLeft DestroyedQueueDeleted
