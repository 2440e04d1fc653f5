SPECIFICATION FairSpec
CONSTANTS
  c1 = c1  c2 = c2  c3 = c3  w1 = w1  w2 = w2  w3 = w3
  NoClient = NoClient
  Clients = {c1, c2, c3}
  Verbs1 = {"create", "create_nowait"}
  Verbs2 = {"create", "destroy_pool"}
  Verbs3 = {"create", "create_pool"}
  Calls <- MCCalls
  CallBound = 1
  Signalled = {c2}
  Workers = {w1, w2}
  Size = 1
  Backlog = 1
  FaultBound = 1
CHECK_DEADLOCK FALSE
INVARIANTS SlotsExact OneAnswer
PROPERTIES EveryRequestAnswered
