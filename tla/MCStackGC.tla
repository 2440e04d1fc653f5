------------------------------ MODULE MCStackGC ------------------------------
(***************************************************************************)
(* Runs of a few mutations with collections between them: assignments      *)
(* before a failure, two assignments of one cell, bindings under two       *)
(* choice points, garbage of every kind below and above them, a cut        *)
(* between two collections.                                                *)
(***************************************************************************)
EXTENDS StackGC

Collected == <<{"collect"}>>
Assigned(prefix, changes) ==
    prefix \o <<{"try"}>> \o changes \o Collected \o <<{"fail"}>> \o Collected

MCScripts ==
    { Assigned(<<{"term"}, {"term", "string"}>>, <<{"setarg"}>>),
      Assigned(<<{"term"}, {"term"}>>, <<{"setarg"}, {"setarg"}>>),
      Assigned(<<{"term"}>>, <<{"setarg"}, {"string"}>>),
      Assigned(<<{"term"}, {"argument"}>>,
               <<{"bind"}, {"try"}, {"setarg", "term"}>>),
      <<{"term"}, {"argument"}, {"try"}, {"term", "string"}, {"bind", "setarg"}>>
      \o Collected \o <<{"fail", "cut"}>> \o Collected,
      <<{"term"}, {"try"}, {"string"}, {"try"}, {"term"}, {"cut"}>>
      \o Collected \o <<{"setarg"}>> \o Collected \o <<{"fail"}>> }

\* A choice point between a compound and the assignment of a younger variable.
MCSetarg == {<<{"term"}, {"term"}, {"argument"}, {"try"}, {"setarg"}>>}
=============================================================================
