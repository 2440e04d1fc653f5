SPECIFICATION Spec
CONSTANTS
  Cells = 10
  TrailCells = 4
  Frames = 3
  Slots = 2
  Hole = 1
  Scripts <- MCScripts
  AssignYounger = FALSE
INVARIANTS TermsKept AlternativesKept MarkedIsNeeded
