SPECIFICATION Spec
CONSTANTS
  t1 = t1  t2 = t2  t3 = t3
  a = a  b = b
  NoThread = NoThread
  Threads = {t1, t2, t3}
  Owner = t1
  Senders = {t1, t2, t3}
  Receivers = {t3}
  Destroyers = {t3}
  Inspectors = {}
  Calls <- MCCalls
  Deadlines = {TRUE}
  Msgs = {a, b}
  Patterns <- MCPatterns
  Signalled = {t2}
  Kind = "anon"
  MaxSize = 2
  SendBound = 5
  DrainBound = 3
SYMMETRY MCSymmetry
CHECK_DEADLOCK FALSE
INVARIANTS NoLostDrain
PROPERTIES ImplementsChannel
