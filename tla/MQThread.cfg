SPECIFICATION FairSpec
CONSTANTS
  t1 = t1  t2 = t2  t3 = t3
  a = a  b = b
  NoThread = NoThread
  Threads = {t1, t2, t3}
  Owner = t1
  Senders = {t2, t3}
  Receivers = {t1, t2}
  Destroyers = {t3}
  Inspectors = {}
  Calls <- MCCalls
  Deadlines = {FALSE}
  Msgs = {a, b}
  Patterns <- MCPatterns
  Signalled = {}
  Kind = "thread"
  MaxSize = 0
  SendBound = 2
  DrainBound = 2
INVARIANTS WaitersCounted NoLostWakeup NoUseAfterFree
PROPERTIES ExitCompletes MatchedReaderServed
