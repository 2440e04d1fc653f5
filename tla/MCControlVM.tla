----------------------------- MODULE MCControlVM -----------------------------
(* Programs for ControlVM: p :- Body.  p :- a.  a.  m.  m. *)
EXTENDS ControlVM

goal(n) == <<"goal", n>>
a == goal("a")
m == goal("m")
cut == <<"!">>
fail == <<"fail">>
throw == <<"throw", "x">>

MCClausesOf(name, p) ==
  CASE name = "p" -> <<p, a>>
    [] name = "a" -> << <<"true">> >>
    [] name = "m" -> << <<"true">>, <<"true">> >>

Leaves == {a, m, cut, fail, throw}

\* Bodies of one connective
Small ==
  Leaves \cup
  {<<op, x, y>> : op \in {",", ";", "->", "*->"}, x \in Leaves, y \in {a, m, cut}} \cup
  {<<op, x>> : op \in {"\\+", "call", "cleanup"}, x \in Leaves} \cup
  {<<"catch", throw, "x", m>>}

\* ... put where it matters what it leaves behind
Around(x) ==
  {x, <<",", x, m>>, <<",", m, x>>, <<",", <<",", m, x>>, fail>>, <<";", x, m>>, <<";", a, x>>, <<";", <<",", x, fail>>, a>>,
   <<";", <<"->", x, m>>, a>>, <<";", <<"->", m, x>>, a>>, <<";", <<"->", fail, a>>, x>>,
   <<";", <<"*->", x, m>>, a>>, <<";", <<"*->", m, x>>, a>>, <<"*->", x, <<",", m, cut>>>>,
   <<"\\+", x>>, <<",", <<"call", x>>, m>>,
   <<",", <<"catch", x, "x", m>>, m>>, <<",", <<"catch", m, "x", a>>, x>>,
   <<",", <<"cleanup", x>>, m>>, <<",", <<"cleanup", x>>, cut>>, <<",", <<"cleanup", m>>, x>>,
   <<"catch", <<",", <<"cleanup", x>>, throw>>, "x", m>>}

Nested == Small \cup {<<"cleanup", <<",", m, x>>>> : x \in {m, cut, throw}}

\* A cut in the condition of *-> that the condition can be entered again
\* without: MCCutAgain is one. README.md says what becomes of it.
RECURSIVE Has(_, _), CutAgain(_)
Has(b, op) == b[1] = op \/ (b[1] \in {",", ";", "->", "*->"} /\ (Has(b[2], op) \/ Has(b[3], op)))
CutAgain(b) ==
  \/ b[1] = "*->" /\ Has(b[2], "!") /\ (Has(b[2], ";") \/ Has(b[2], "*->"))
  \/ b[1] \in {",", ";", "->", "*->"} /\ (CutAgain(b[2]) \/ CutAgain(b[3]))
  \/ b[1] \in {"\\+", "call", "cleanup", "catch"} /\ CutAgain(b[2])

Twice(S) == UNION {Around(y) : y \in UNION {Around(x) : x \in S}}
All == UNION {Around(x) : x \in Nested} \cup Twice(Leaves \cup {<<"->", m, a>>})
MCPrograms == {b \in All : ~CutAgain(b)}
MCGoal == goal("p")

MCCutAgain == {<<";", <<"*->", <<";", a, <<",", m, cut>>>>, fail>>, a>>}
=============================================================================
