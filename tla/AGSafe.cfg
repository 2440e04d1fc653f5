SPECIFICATION OrderlySpec
CONSTANTS
  s1 = s1  s2 = s2
  NoThread = NoThread  NoStructure = NoStructure
  Anonymous = TRUE
  ThreadMax = 2
  AtomMax = 1
  Structures = {s1,s2}
  Owner = NoThread
  Registrars = {1,2}
  MoveTo = {"global", "local"}
  QueueBound = 2
INVARIANTS NoDangling RefsExact GarbageGoes
SYMMETRY MCSymmetry
