---------------------------- MODULE BodyCompiler ----------------------------
(***************************************************************************)
(* Clause bodies, what pl-comp.c compiles them to, and the decompiler that *)
(* clause/2, listing and the tracer read them back with.                   *)
(*                                                                         *)
(* A body is a tuple: its functor and its arguments.  A goal that is not a *)
(* control structure has no arguments that matter, so that there are no    *)
(* variables but those the compiler allots to remember a choice point in.  *)
(* An instruction with its arguments is one element of the code; jumps     *)
(* are relative, as in the source.                                         *)
(***************************************************************************)
EXTENDS Integers, Sequences, SequencesExt

Functor(b) == b[1]
Conditionals == {"->", "*->"}

\* ci->cut: the variable of the condition that a cut is local to
NoCut == [var |-> 0, instruction |-> "I_CUT"]

\* allocChoiceVar(): a variable that no other condition of the clause uses
allocChoiceVar(n) == n + 1

\* The instruction for a cut in a condition.
CutInstruction(arrow, else) ==
  IF ~else THEN "C_LCUTIFTHEN" ELSE IF arrow = "->" THEN "C_LCUT" ELSE "C_LSCUT"

\* compileSubClause()
SubClause(b, call, cut) ==
  CASE Functor(b) = "!"        -> IF cut.var = 0 THEN <<"I_CUT">> ELSE <<cut.instruction, cut.var>>
    [] Functor(b) = "true"     -> <<"I_TRUE">>
    [] Functor(b) = "fail"     -> <<"I_FAIL">>
    [] OTHER                   -> <<call, b>>

RECURSIVE compileBody(_, _, _, _)

\* A -> B ; C and A *-> B ; C
IfThenElse(arrow, A, B, C, call, cut, n) ==
  LET hard  == arrow = "->"
      var   == allocChoiceVar(n)
      local == [var |-> var, instruction |-> CutInstruction(arrow, TRUE)]
      a     == compileBody(A, "I_CALL", local, var)
      b     == compileBody(B, call, cut, a.variables)
      c     == compileBody(C, call, cut, b.variables)
      first == a.codes \o << <<IF hard THEN "C_CUT" ELSE "C_SOFTCUT", var>> >> \o b.codes
                       \o << <<"C_JMP", Len(c.codes)>> >>
  IN [codes |-> << <<IF hard THEN "C_IFTHENELSE" ELSE "C_SOFTIF", var, Len(first)>> >>
                  \o first \o c.codes,
      variables |-> c.variables]

\* A -> B and A *-> B
IfThen(arrow, A, B, call, cut, n) ==
  LET hard  == arrow = "->"
      var   == allocChoiceVar(n)
      local == [var |-> var, instruction |-> CutInstruction(arrow, FALSE)]
      a     == compileBody(A, "I_CALL", local, var)
      b     == compileBody(B, call, cut, a.variables)
  IN [codes |-> << <<IF hard THEN "C_IFTHEN" ELSE "C_SOFTIFTHEN", var>> >> \o a.codes
                  \o << IF hard THEN <<"C_CUT", var>> ELSE <<"C_SCUT">> >>
                  \o b.codes \o << <<"C_END">> >>,
      variables |-> b.variables]

\* \+ A
NotProvable(A, n) ==
  LET var == allocChoiceVar(n)
      a   == compileBody(A, "I_CALL", [var |-> var, instruction |-> CutInstruction("->", TRUE)], var)
  IN [codes |-> << <<"C_NOT", var, Len(a.codes) + 2>> >> \o a.codes
                  \o << <<"C_CUT", var>>, <<"C_FAIL">> >>,
      variables |-> a.variables]

\* A ; B
Disjunction(A, B, call, cut, n) ==
  LET a == compileBody(A, "I_CALL", cut, n)
      b == compileBody(B, call, cut, a.variables)
  IN [codes |-> << <<"C_OR", Len(a.codes) + 1>> >> \o a.codes
                  \o << <<"C_JMP", Len(b.codes)>> >> \o b.codes,
      variables |-> b.variables]

\* A , B
Conjunction(A, B, call, cut, n) ==
  LET a == compileBody(A, "I_CALL", cut, n)
      b == compileBody(B, call, cut, a.variables)
  IN [codes |-> a.codes \o b.codes, variables |-> b.variables]

\* The codes of body, and the number of variables they need after the n in use.
compileBody(body, call, cut, n) ==
  CASE Functor(body) = ","  -> Conjunction(body[2], body[3], call, cut, n)
    [] Functor(body) = ";"  ->
         IF Functor(body[2]) \in Conditionals
         THEN IfThenElse(Functor(body[2]), body[2][2], body[2][3], body[3], call, cut, n)
         ELSE Disjunction(body[2], body[3], call, cut, n)
    [] Functor(body) \in Conditionals -> IfThen(Functor(body), body[2], body[3], call, cut, n)
    [] Functor(body) = "\\+" -> NotProvable(body[2], n)
    [] OTHER                 -> [codes |-> <<SubClause(body, call, cut)>>, variables |-> n]

\* compileClause(), without the head
compileClause(body) ==
  LET c == compileBody(body, "I_DEPART", NoCut, 0)
  IN IF body = <<"true">> THEN [codes |-> << <<"I_EXITFACT">> >>, variables |-> 0]
     ELSE [c EXCEPT !.codes = Append(@, <<"I_EXIT">>)]
-----------------------------------------------------------------------------
\* Mutant: the goals are taken off in the wrong order.
BuildLeft(pushed) == FoldLeft(LAMBDA t, g : <<",", g, t>>, Head(pushed), Tail(pushed))

\* The goals that were pushed become a conjunction: BUILD_TERM(FUNCTOR_comma2)
Build(pushed) == FoldRight(LAMBDA g, t : <<",", g, t>>, Front(pushed), Last(pushed))

RECURSIVE decompileBody(_, _, _, _, _)

\* decompileBody(): from pc up to the instruction end or the address until,
\* with the goals pushed so far.
decompileBody(codes, pc, end, until, pushed) ==
  LET op == codes[pc][1]
      arg == codes[pc][2]
      From(p, e, u)  == decompileBody(codes, p, e, u, <<>>)
      Goes(p, goal)  == decompileBody(codes, p, end, until, Append(pushed, goal))
  IN
  CASE pc = until \/ op \in {end, "I_EXIT", "I_EXITFACT"} -> [pc |-> pc, term |-> Build(pushed)]
    [] op \in {"I_CALL", "I_DEPART"} -> Goes(pc + 1, arg)
    [] op = "I_TRUE" -> Goes(pc + 1, <<"true">>)
    [] op = "I_FAIL" -> Goes(pc + 1, <<"fail">>)
    [] op \in {"I_CUT", "C_LCUT", "C_LSCUT", "C_LCUTIFTHEN"} -> Goes(pc + 1, <<"!">>)
    [] op \in {"C_CUT", "C_JMP"} -> decompileBody(codes, pc + 1, end, until, pushed)
    [] op = "C_OR" ->
         LET a == From(pc + 1, "", pc + 1 + arg)
             b == From(a.pc, "", a.pc + codes[a.pc - 1][2])
         IN Goes(b.pc, <<";", a.term, b.term>>)
    [] op = "C_NOT" ->
         LET a == From(pc + 1, "C_CUT", 0) IN Goes(a.pc + 2, <<"\\+", a.term>>)
    [] op \in {"C_IFTHENELSE", "C_SOFTIF"} ->
         LET hard == op = "C_IFTHENELSE"
             a == From(pc + 1, IF hard THEN "C_CUT" ELSE "C_SOFTCUT", 0)
             b == From(a.pc + 1, "", pc + 1 + codes[pc][3])
             c == From(b.pc, "", b.pc + codes[b.pc - 1][2])
         IN Goes(c.pc, <<";", <<IF hard THEN "->" ELSE "*->", a.term, b.term>>, c.term>>)
    [] op \in {"C_IFTHEN", "C_SOFTIFTHEN"} ->
         LET hard == op = "C_IFTHEN"
             a == From(pc + 1, IF hard THEN "C_CUT" ELSE "C_SCUT", 0)
             b == From(a.pc + 1, "C_END", 0)
         IN Goes(b.pc + 1, <<IF hard THEN "->" ELSE "*->", a.term, b.term>>)

Decompiled(codes) ==
  IF codes = << <<"I_EXITFACT">> >> THEN <<"true">>
  ELSE decompileBody(codes, 1, "", 0, <<>>).term

\* A body as clause/2 shows it: a conjunction nests to the right.
RECURSIVE Listed(_)
Listed(b) ==
  CASE Functor(b) = "," /\ Functor(b[2]) = "," -> Listed(<<",", b[2][2], <<",", b[2][3], b[3]>>>>)
    [] Functor(b) \in {",", ";", "->", "*->"} -> <<Functor(b), Listed(b[2]), Listed(b[3])>>
    [] Functor(b) = "\\+"                  -> <<"\\+", Listed(b[2])>>
    [] OTHER                               -> b
=============================================================================
