SPECIFICATION FairSpec
CONSTANTS
  c1 = c1  c2 = c2  n1 = n1
  NoName = NoName  NoCaller = NoCaller
  Callers = {c1, c2}
  Names = {n1}
  Calls = {"create", "join", "detach"}
  Verbs <- MCVerbs
  Options <- MCOptions
  Faults <- MCFaults
  PlainFaults = {"inherit", "options", "id", "pthread", "memory"}
  DetachedFaults = {}
  DetachedNames = {NoName}
  Results = {"SUCCEEDED"}
  SlotBound = 4
  TidBound = 2
CHECK_DEADLOCK FALSE
INVARIANTS SlotOwned JoinsItsOwn AliasTrue
PROPERTIES RunningDetachedReclaimed
