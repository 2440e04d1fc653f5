------------------------------ MODULE ControlVM ------------------------------
(***************************************************************************)
(* The virtual machine on the code of the compiler: the answers it gives,  *)
(* against what the manual says that the program means.                    *)
(***************************************************************************)
EXTENDS ControlMachine, BodyCompiler

INSTANCE ControlMeaning

\* What a program means
meaningOf(p) == Meaning(Goal, p)

\* What the compiler makes of a body passes the check, unless there is a cut or
\* a condition in the condition of a soft-cut.
SimpleSoftCuts(c) ==
  \A i, p \in Codes(c) : SoftCondition(c, i, p) => \A k \in (i + 1)..p : ~Cuts(c, k) /\ Op(c, k) # "C_LSCUT"

ASSUME CompilerChecked ==
  \A b \in Programs : SimpleSoftCuts(compileClause(b)) => Checked(compileClause(b))
-----------------------------------------------------------------------------
\* The solutions, and the clauses that are entered on the way to them, are
\* those the manual's reading of the program gives, in the same order, and the
\* query ends as it says. A solution that leaves no alternative is the last.
AnswersAgree ==
  /\ IsPrefix(log, wanted.out)
  /\ mode = "last" => log = wanted.out /\ wanted.end = "fail"
  /\ mode = "done" => log = wanted.out /\ wanted.end = IF ball = "" THEN "fail" ELSE ball

\* clause/2 shows the clause that was compiled.
RoundTrip == mode = "closed" => Decompiled(compileClause(program).codes) = Listed(program)
=============================================================================
