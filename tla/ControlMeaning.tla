--------------------------- MODULE ControlMeaning ---------------------------
(***************************************************************************)
(* What a body means, by the manual: the events and solutions it gives one *)
(* after the other when it is asked for all, and how it ends, by failing,  *)
(* by a cut of its clause or with an exception.  Nothing here knows of     *)
(* frames, choice points or addresses.                                     *)
(***************************************************************************)
EXTENDS Integers, Sequences, SequencesExt

CONSTANT ClausesOf(_, _)   \* of a predicate, in a program

Sol == "solution"

Yields(out, end) == [out |-> out, end |-> end]

\* A, B: B runs for each solution of A, and ends A unless it fails.
Conj(A, B) ==
  LET step(r, x) == CASE r.end # "" -> r
                      [] x = Sol    -> Yields(r.out \o B.out, IF B.end = "fail" THEN "" ELSE B.end)
                      [] OTHER      -> Yields(Append(r.out, x), "")
      r == FoldLeft(step, Yields(<<>>, ""), A.out)
  IN IF r.end = "" THEN Yields(r.out, A.end) ELSE r

\* A ; B, and clause after clause
Alt(A, B) == IF A.end = "fail" THEN Yields(A.out \o B.out, B.end) ELSE A

\* A cut does not get out of a condition or a meta-call.
Opaque(A) == IF A.end = "cut" THEN Yields(A.out, "fail") ELSE A

\* The first solution of a condition, if it has one.
Commit(C, T, E) ==
  LET i == IF Contains(C.out, Sol) THEN SelectInSeq(C.out, LAMBDA x : x = Sol) ELSE 0
  IN IF i # 0 THEN Yields(SubSeq(C.out, 1, i - 1) \o T.out, T.end)
     ELSE Alt(Opaque(C), E)

\* Every solution of the condition, or the else if it has none.
Soft(C, T, E) == IF Contains(C.out, Sol) THEN Conj(Opaque(C), T) ELSE Alt(Opaque(C), E)

True == Yields(<<Sol>>, "fail")
Fail == Yields(<<>>, "fail")

RECURSIVE Meaning(_, _)

MeaningOfClauses(name, program) ==
  Opaque(FoldRight(LAMBDA c, rest : Alt(Yields(<<c.event>> \o c.body.out, c.body.end), rest),
                   [i \in 1..Len(ClausesOf(name, program)) |->
                      [event |-> <<name, i>>, body |-> Meaning(ClausesOf(name, program)[i], program)]],
                   Fail))

Meaning(b, program) ==
  LET M(i) == Meaning(b[i], program) IN
  CASE b[1] = "true" -> True
    [] b[1] = "fail" -> Fail
    [] b[1] = "!"    -> Yields(<<Sol>>, "cut")
    [] b[1] = "throw" -> Yields(<<>>, b[2])
    [] b[1] = ","    -> Conj(M(2), M(3))
    [] b[1] = ";"    -> CASE b[2][1] = "->"  -> Commit(Meaning(b[2][2], program), Meaning(b[2][3], program), M(3))
                          [] b[2][1] = "*->" -> Soft(Meaning(b[2][2], program), Meaning(b[2][3], program), M(3))
                          [] OTHER           -> Alt(M(2), M(3))
    [] b[1] = "->"   -> Commit(M(2), M(3), Fail)
    [] b[1] = "*->"  -> Soft(M(2), M(3), Fail)
    [] b[1] = "\\+"  -> Commit(M(2), Fail, True)
    [] b[1] \in {"call", "cleanup"} -> Opaque(M(2))
    [] b[1] = "catch" -> LET G == Opaque(M(2)) IN
                         IF G.end = b[3] THEN Yields(G.out \o M(4).out, Opaque(M(4)).end) ELSE G
    [] b[1] = "goal" -> MeaningOfClauses(b[2], program)
=============================================================================
