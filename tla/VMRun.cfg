CONSTANTS
  Programs <- MCPrograms
  Goal <- MCGoal
  ClausesOf <- MCClausesOf
  compiled <- compileClause
  meaning <- meaningOf
SPECIFICATION Spec
INVARIANTS AnswersAgree FramesLeftOnce CleanupOnce RoundTrip CodeFits
