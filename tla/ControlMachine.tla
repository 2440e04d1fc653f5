---------------------------- MODULE ControlMachine ----------------------------
(***************************************************************************)
(* The virtual machine on control structures: frames and choice points on  *)
(* the local stack, calls, last calls, exits, backtracking, the four cuts, *)
(* catch/3 and throw/1, setup_call_cleanup/3, and a query that a foreign   *)
(* program opens, asks for solutions and closes.  The machine runs the     *)
(* code it is given: ControlVM gives it what the compiler makes.           *)
(*                                                                         *)
(* A frame with its variables, and a choice point, take one cell of the    *)
(* stack each; an address is the number of a cell, 0 is NULL, and lTop is  *)
(* Len(stack) + 1.  Goals have no arguments but goals, and a cleanup       *)
(* handler succeeds: how often it ran is all that is kept of it.           *)
(***************************************************************************)
EXTENDS Integers, Sequences, FiniteSets

CONSTANTS Programs,         \* the bodies of the first clause of the query's goal
          Goal,             \* the query's goal
          ClausesOf(_, _),  \* the bodies of a predicate, in a program
          compiled(_),      \* the clause that a body is compiled to
          meaning(_)        \* what a program means

VARIABLES
  program, wanted,     \* history: the program, and what it means
  mode,                \* what the machine does next
  stack, FR, BFR, PC,
  ball, catcher,       \* exception_term, catchfr_ref
  solved,              \* QF->solutions > 0
  log,                 \* history: events and solutions
  inside,              \* frames entered and not left: def->references
  marked, cleaned      \* history: cleanups that I_CALLCLEANUP armed, and that ran

regs   == <<FR, BFR, PC>>
counts == <<inside, marked, cleaned>>
vars   == <<program, wanted, mode, stack, regs, ball, catcher, solved, log, counts>>

Frame(goal, clause, parent, ret) ==
  [kind |-> "frame", goal |-> goal, clause |-> clause, parent |-> parent,
   programPointer |-> ret, variables |-> [v \in 1..clause.variables |-> 0], flags |-> {}]
Choice(type, frame, parent, next) ==
  [kind |-> type, frame |-> frame, parent |-> parent, next |-> next]

\* struct queryFrame
Top   == 1
TopFR == 2
QueryFR == 3

NoClause == [codes |-> <<>>, variables |-> 0]
Fixed(codes) == << [codes |-> Append(codes, <<"I_EXIT">>), variables |-> 0] >>
Clauses(goal) ==
  CASE goal[1] = "goal"    -> LET bodies == ClausesOf(goal[2], program)
                              IN [i \in 1..Len(bodies) |-> compiled(bodies[i])]
    [] goal[1] = "$call"   -> <<compiled(goal[2])>>
    [] goal[1] = "call"    -> Fixed(<< <<"I_USERCALL0">> >>)
    [] goal[1] = "catch"   -> Fixed(<< <<"I_CATCH">>, <<"I_EXITCATCH">> >>)
    [] goal[1] = "cleanup" -> Fixed(<< <<"I_CALLCLEANUP">>, <<"I_EXITCLEANUP">> >>)
    [] goal[1] = "throw"   -> Fixed(<< <<"B_THROW">> >>)
    [] goal[1] = "fail"    -> <<>>
    [] OTHER               -> Fixed(<<>>)

Is(op)    == mode = "run" /\ stack[FR].clause.codes[PC][1] = op
Arg(i)    == stack[FR].clause.codes[PC][i + 1]
ChoiceVar == stack[FR].variables[Arg(1)]
SetVar(v, ch) == [stack EXCEPT ![FR].variables[v] = ch]

\* The stack with lTop at a.
UpTo(a) == SubSeq(stack, 1, a - 1)

\* The cells that the parent pointers of s lead to from each cell
Chain(s) ==
  LET C[a \in 0..Len(s)] == IF a = 0 THEN {} ELSE {a} \cup C[s[a].parent] IN C

FrameChain(f)   == Chain(stack)[f]
ChoiceChain(ch) == Chain(stack)[ch]

\* The frames somebody may still return to.
Live == (FrameChain(FR) \cup UNION {FrameChain(stack[ch].frame) : ch \in ChoiceChain(BFR)}) \ {TopFR}

\* Mutant: a handler that ran is run again when its frame goes.
ArmedStill(f) == "FR_CLEANUP" \in stack[f].flags

Armed(f) == "FR_CLEANUP" \in stack[f].flags /\ "FR_CATCHED" \notin stack[f].flags

\* leaveFrame() or discardFrame() of the frames, and frameFinished()
LeaveFrames(fs) ==
  /\ inside' = inside - Cardinality(fs)
  /\ cleaned' = cleaned + Cardinality({f \in fs : Armed(f)})
  /\ UNCHANGED marked

\* The choice points that go when only those up to to stay
Newer(to) == {ch \in ChoiceChain(BFR) : ch > to}
Oldest(to) == CHOOSE ch \in ChoiceChain(BFR) \cup {0} :
                ch <= to /\ \A c \in ChoiceChain(BFR) : c <= to => c <= ch

\* Mutant: a frame is discarded without those it was called from.
DiscardedAlone(ch, fr) == {f \in {stack[ch].frame} : f > fr}

\* The frames that go with the choice point ch, down to fr or to the frame of
\* the choice point that follows: the inner loop of discardChoicesAfter() and
\* of C_CUT
Discarded(ch, fr) ==
  LET p == stack[ch].parent
      delto == IF p # 0 /\ stack[p].frame > fr THEN stack[p].frame ELSE fr
  IN {f \in FrameChain(stack[ch].frame) : f > delto}

\* Those that go with all choice points after to
DiscardedAfter(to, fr) == UNION {Discarded(ch, fr) : ch \in Newer(to)}
-----------------------------------------------------------------------------
\* Enter goal in a frame on top of base: normal_call, S_STATIC, firstClause()
EnterGoal(past, base, bfr, goal, parent, ret) ==
  LET cs == Clauses(goal)
      f  == Len(base) + 1
      fr == Frame(goal, IF cs = <<>> THEN NoClause ELSE cs[1], parent, ret)
  IN
  /\ FR' = f /\ PC' = 1
  /\ mode' = IF cs = <<>> THEN "fail" ELSE "run"
  /\ BFR' = IF Len(cs) > 1 THEN f + 1 ELSE bfr
  /\ stack' = base \o <<fr>> \o (IF Len(cs) > 1 THEN <<Choice("CHP_CLAUSE", f, bfr, 2)>> ELSE <<>>)
  /\ log' = IF goal[1] = "goal" /\ cs # <<>> THEN Append(past, <<goal[2], 1>>) ELSE past

CONTROL == {",", ";", "->", "*->", "\\+", "call"}

\* I_USERCALL0: a control structure is compiled to a temporary clause.
UserCall(base, bfr, goal, parent, ret) ==
  EnterGoal(log, base, bfr, IF goal[1] \in CONTROL THEN <<"$call", goal>> ELSE goal, parent, ret)

keep == <<program, wanted, ball, catcher, solved>>

I_CALL ==
  /\ Is("I_CALL")
  /\ EnterGoal(log, stack, BFR, Arg(1), FR, PC + 1)
  /\ inside' = inside + 1
  /\ UNCHANGED <<keep, marked, cleaned>>

\* The frame of the clause can be reused for its last call.
LastCall == Is("I_DEPART") /\ BFR <= FR

I_DEPART ==
  /\ Is("I_DEPART")
  /\ IF LastCall
     THEN EnterGoal(log, UpTo(FR), BFR, Arg(1), stack[FR].parent, stack[FR].programPointer) /\ UNCHANGED counts
     ELSE EnterGoal(log, stack, BFR, Arg(1), FR, PC + 1) /\ inside' = inside + 1 /\ UNCHANGED <<marked, cleaned>>
  /\ UNCHANGED keep

I_USERCALL0 ==
  /\ Is("I_USERCALL0")
  /\ UserCall(stack, BFR, stack[FR].goal[2], FR, PC + 1)
  /\ inside' = inside + 1
  /\ UNCHANGED <<keep, marked, cleaned>>

\* Leave the frame for its parent, with the choice points bfr.
ExitFrame(bfr) ==
  /\ FR' = stack[FR].parent
  /\ PC' = stack[FR].programPointer
  /\ BFR' = bfr
  /\ mode' = IF stack[FR].parent = TopFR THEN "exit" ELSE "run"
  /\ IF bfr <= FR
     THEN stack' = UpTo(FR) /\ inside' = inside - 1
     ELSE UNCHANGED <<stack, inside>>
  /\ UNCHANGED <<keep, log, marked, cleaned>>

I_EXIT == (Is("I_EXIT") \/ Is("I_EXITFACT")) /\ ExitFrame(BFR)

\* PL_next_solution() returns TRUE.
I_EXITQUERY ==
  /\ mode = "exit"
  /\ mode' = IF BFR = Top THEN "last" ELSE "solution"
  /\ log' = Append(log, "solution")
  /\ solved' = TRUE
  /\ UNCHANGED <<program, wanted, ball, catcher, stack, regs, counts>>
-----------------------------------------------------------------------------
Continue(s, bfr) ==
  /\ stack' = s /\ BFR' = bfr /\ PC' = PC + 1
  /\ UNCHANGED <<keep, mode, FR, log>>

\* ! in a clause
I_CUT ==
  /\ Is("I_CUT")
  /\ LeaveFrames(DiscardedAfter(FR, FR))
  /\ Continue(UpTo(FR + 1), IF BFR > FR THEN Oldest(FR) ELSE BFR)

\* Cut the choice points newer than och.
CutTo(och) ==
  LET fr == IF och = 0 \/ FR > stack[och].frame THEN FR ELSE stack[och].frame IN
  IF BFR >= och /\ Oldest(och) = och
  THEN /\ LeaveFrames(DiscardedAfter(och, fr))
       /\ Continue(UpTo(IF och > fr THEN och + 1 ELSE fr + 1), och)
  ELSE mode' = "assertion" /\ UNCHANGED <<keep, stack, regs, log, counts>>

C_CUT == (Is("C_CUT") \/ Is("C_LCUTIFTHEN")) /\ CutTo(ChoiceVar)

\* Keep the choice point that follows och, the one of the else.
CutAfter(och) ==
  LET next == {ch \in ChoiceChain(BFR) : stack[ch].parent = och} IN
  IF next # {} THEN CutTo(CHOOSE ch \in next : TRUE)
  ELSE /\ IF BFR = och THEN Continue(stack, BFR)
          ELSE mode' = "assertion" /\ UNCHANGED <<keep, stack, regs, log>>
       /\ UNCHANGED counts

C_LCUT  == Is("C_LCUT") /\ CutAfter(ChoiceVar)
C_LSCUT == Is("C_LSCUT") /\ CutAfter(stack[ChoiceVar].parent)

C_JMP ==
  /\ Is("C_JMP") /\ PC' = PC + 1 + Arg(1)
  /\ UNCHANGED <<keep, mode, stack, FR, BFR, log, counts>>

\* Instructions that are there for the decompiler, and true
Nothing ==
  /\ \E op \in {"C_SCUT", "C_END", "I_TRUE"} : Is(op)
  /\ Continue(stack, BFR) /\ UNCHANGED counts

\* newChoice(CHP_JUMP)
Or(s, skip) ==
  /\ Continue(Append(s, Choice("CHP_JUMP", FR, BFR, PC + 1 + skip)), Len(stack) + 1)
  /\ UNCHANGED counts

C_OR == Is("C_OR") /\ Or(stack, Arg(1))

C_IFTHENELSE == (Is("C_IFTHENELSE") \/ Is("C_NOT")) /\ Or(SetVar(Arg(1), BFR), Arg(2))

\* Mutant: the choice point before that of the else is remembered, as if for ->.
SoftIfHard == Is("C_SOFTIF") /\ Or(SetVar(Arg(1), BFR), Arg(2))

C_SOFTIF == Is("C_SOFTIF") /\ Or(SetVar(Arg(1), Len(stack) + 1), Arg(2))

C_IFTHEN ==
  /\ Is("C_IFTHEN") \/ Is("C_SOFTIFTHEN")
  /\ Continue(SetVar(Arg(1), BFR), BFR) /\ UNCHANGED counts

\* Mutant: only a condition without choice points commits.
UnlinkNewest(ch) == stack

\* The stack with the choice point ch unlinked from the one that follows it
Unlink(ch) ==
  [a \in DOMAIN stack |->
     IF a \in ChoiceChain(BFR) /\ stack[a].parent = ch
     THEN [stack[a] EXCEPT !.parent = stack[ch].parent] ELSE stack[a]]

C_SOFTCUT ==
  /\ Is("C_SOFTCUT")
  /\ LET ch == ChoiceVar IN
     IF BFR = ch THEN Continue(stack, stack[BFR].parent) ELSE Continue(Unlink(ch), BFR)
  /\ UNCHANGED counts

C_FAIL ==
  /\ Is("C_FAIL") \/ Is("I_FAIL")
  /\ mode' = "fail"
  /\ UNCHANGED <<keep, stack, regs, log, counts>>
-----------------------------------------------------------------------------
\* The choice point an exception or a failure of the goal comes back to
WithCatch(s) == Append(s, Choice("CHP_CATCH", FR, BFR, 0))
Flagged(f, flag) == [stack EXCEPT ![f].flags = @ \cup {flag}]

I_CATCH ==
  /\ Is("I_CATCH")
  /\ UserCall(WithCatch(stack), Len(stack) + 1, stack[FR].goal[2], FR, PC + 1)
  /\ inside' = inside + 1
  /\ UNCHANGED <<keep, marked, cleaned>>

I_EXITCATCH ==
  /\ Is("I_EXITCATCH")
  /\ ExitFrame(IF BFR = FR + 1 /\ stack[BFR].frame = FR THEN stack[BFR].parent ELSE BFR)

I_CALLCLEANUP ==
  /\ Is("I_CALLCLEANUP")
  /\ UserCall(WithCatch(Flagged(FR, "FR_CLEANUP")), Len(stack) + 1, stack[FR].goal[2], FR, PC + 1)
  /\ inside' = inside + 1
  /\ marked' = marked + 1
  /\ UNCHANGED <<keep, cleaned>>

\* The goal left no choice point: only that of the cleanup is there.
Deterministic == stack[BFR].frame = FR /\ stack[BFR].kind = "CHP_CATCH"

I_EXITCLEANUP ==
  /\ Is("I_EXITCLEANUP")
  /\ IF Deterministic
     THEN /\ cleaned' = cleaned + (IF Armed(FR) THEN 1 ELSE 0)
          /\ Continue(Flagged(FR, "FR_CATCHED"), stack[BFR].parent)
          /\ UNCHANGED <<inside, marked>>
     ELSE Continue(stack, BFR) /\ UNCHANGED counts

\* findCatcher(): does the frame catch the ball?
Catches(f) ==
  /\ stack[f].goal[1] = "catch" /\ "FR_CATCHED" \notin stack[f].flags
  /\ f <= BFR
  /\ stack[f].goal[3] = stack[FR].goal[2]

B_THROW ==
  /\ Is("B_THROW")
  /\ LET cs == {f \in FrameChain(FR) : Catches(f)}
         c  == IF cs = {} THEN TopFR ELSE CHOOSE f \in cs : \A g \in cs : g <= f
     IN /\ catcher' = c
        /\ stack' = IF c = TopFR THEN stack ELSE Flagged(c, "FR_CATCHED")
  /\ ball' = stack[FR].goal[2]
  /\ mode' = "unwind"
  /\ UNCHANGED <<program, wanted, solved, regs, log, counts>>

\* b_throw: discard the choice points of the frame, then the frame
Unwind ==
  /\ mode = "unwind" /\ FR > catcher
  /\ LeaveFrames(DiscardedAfter(FR, FR) \cup {FR})
  /\ BFR' = (IF BFR > FR THEN Oldest(FR) ELSE BFR)
  /\ FR' = stack[FR].parent
  /\ stack' = UpTo(FR)
  /\ UNCHANGED <<keep, mode, PC, log>>

\* Run the recovery goal; catch/3 continues at its I_EXIT.
Recover ==
  /\ mode = "unwind" /\ FR = catcher /\ FR # TopFR
  /\ LET fs == DiscardedAfter(FR, FR) IN
     /\ inside' = inside - Cardinality(fs) + 1
     /\ cleaned' = cleaned + Cardinality({f \in fs : Armed(f)})
  /\ UserCall(UpTo(FR + 1), IF BFR > FR THEN Oldest(FR) ELSE BFR, stack[FR].goal[4], FR, 3)
  /\ ball' = "" /\ catcher' = 0
  /\ UNCHANGED <<program, wanted, solved, marked>>

\* PL_next_solution() returns FALSE, with an exception.
Uncaught ==
  /\ mode = "unwind" /\ FR = TopFR /\ catcher = TopFR
  /\ mode' = "done"
  /\ UNCHANGED <<keep, stack, regs, log, counts>>
-----------------------------------------------------------------------------
\* clause_failed, body_failed and frame_failed: leave the frames newer than the
\* newest choice point and go on there.
Leaving == {f \in FrameChain(FR) : f > BFR} \ {TopFR}

BacktrackJump ==
  /\ mode = "fail" /\ stack[BFR].kind = "CHP_JUMP"
  /\ LeaveFrames(Leaving)
  /\ FR' = stack[BFR].frame /\ PC' = stack[BFR].next /\ BFR' = stack[BFR].parent
  /\ stack' = UpTo(BFR)
  /\ mode' = "run"
  /\ UNCHANGED <<keep, log>>

\* nextClause(): the choice point stays if there is yet another clause.
BacktrackClause ==
  /\ mode = "fail" /\ stack[BFR].kind = "CHP_CLAUSE"
  /\ LeaveFrames(Leaving)
  /\ LET ch == stack[BFR]
         f  == ch.frame
         cs == Clauses(stack[f].goal)
         fr == [stack[f] EXCEPT !.clause = cs[ch.next],
                                !.variables = [v \in 1..cs[ch.next].variables |-> 0]]
     IN /\ FR' = f /\ PC' = 1 /\ mode' = "run"
        /\ log' = Append(log, <<stack[f].goal[2], ch.next>>)
        /\ IF ch.next < Len(cs)
           THEN /\ BFR' = f + 1
                /\ stack' = UpTo(f) \o <<fr, Choice("CHP_CLAUSE", f, ch.parent, ch.next + 1)>>
           ELSE /\ BFR' = ch.parent
                /\ stack' = Append(UpTo(f), fr)
  /\ UNCHANGED keep

\* The goal of catch/3 or setup_call_cleanup/3 failed.
BacktrackCatch ==
  /\ mode = "fail" /\ stack[BFR].kind = "CHP_CATCH"
  /\ LET f == stack[BFR].frame IN
     /\ inside' = inside - Cardinality(Leaving)
     /\ cleaned' = cleaned + Cardinality({g \in Leaving \cup {f} : Armed(g)})
     /\ FR' = f
     /\ stack' = [UpTo(BFR) EXCEPT ![f].flags = @ \cup {"FR_CATCHED"}]
  /\ BFR' = stack[BFR].parent
  /\ UNCHANGED <<keep, mode, PC, log, marked>>

\* PL_next_solution() returns FALSE.
BacktrackTop ==
  /\ mode = "fail" /\ BFR = Top
  /\ LeaveFrames(Leaving)
  /\ FR' = TopFR /\ mode' = "done"
  /\ stack' = UpTo(QueryFR)
  /\ UNCHANGED <<keep, BFR, PC, log>>
-----------------------------------------------------------------------------
Init ==
  /\ program \in Programs /\ wanted = meaning(program)
  /\ mode = "closed" /\ stack = <<>> /\ FR = 0 /\ BFR = 0 /\ PC = 0
  /\ ball = "" /\ catcher = 0 /\ solved = FALSE
  /\ log = <<>> /\ inside = 0 /\ marked = 0 /\ cleaned = 0

\* PL_open_query() and the first PL_next_solution()
OpenQuery ==
  /\ mode = "closed"
  /\ EnterGoal(<<>>, <<Choice("CHP_TOP", TopFR, 0, 0), Frame(<<"query">>, NoClause, 0, 0)>>, Top, Goal, TopFR, 0)
  /\ inside' = inside + 1 /\ marked' = 0 /\ cleaned' = 0
  /\ ball' = "" /\ catcher' = 0 /\ solved' = FALSE
  /\ UNCHANGED <<program, wanted>>

\* PL_next_solution() once more
NextSolution ==
  /\ mode = "solution"
  /\ mode' = "fail" /\ FR' = QueryFR
  /\ UNCHANGED <<keep, stack, BFR, PC, log, counts>>

\* PL_close_query(), PL_cut_query(): discard_query() unless it is PL_Q_DETERMINISTIC.
CloseQuery ==
  /\ mode \in {"solution", "last", "done"}
  /\ LET fs == IF mode = "solution" THEN DiscardedAfter(QueryFR, QueryFR) \cup {QueryFR} ELSE {}
     IN /\ inside' = inside - Cardinality(fs)
        /\ cleaned' = cleaned + Cardinality({f \in fs : Armed(f)})
  /\ mode' = "closed" /\ stack' = <<>> /\ FR' = 0 /\ BFR' = 0 /\ PC' = 0
  /\ UNCHANGED <<keep, log, marked>>

Machine ==
  \/ I_CALL \/ I_DEPART \/ I_USERCALL0 \/ I_EXIT \/ I_EXITQUERY
  \/ I_CUT \/ C_CUT \/ C_LCUT \/ C_LSCUT \/ C_JMP \/ Nothing
  \/ C_OR \/ C_IFTHENELSE \/ C_SOFTIF \/ C_IFTHEN \/ C_SOFTCUT \/ C_FAIL
  \/ I_CATCH \/ I_EXITCATCH \/ I_CALLCLEANUP \/ I_EXITCLEANUP
  \/ B_THROW \/ Unwind \/ Recover \/ Uncaught
  \/ BacktrackJump \/ BacktrackClause \/ BacktrackCatch \/ BacktrackTop

Next == Machine \/ OpenQuery \/ NextSolution \/ CloseQuery

Spec == Init /\ [][Next]_vars
-----------------------------------------------------------------------------
IsFrame(a)  == a \in DOMAIN stack /\ stack[a].kind = "frame"
IsChoice(a) == a \in DOMAIN stack /\ stack[a].kind # "frame"

\* The registers and the two chains they start keep to cells that are there
\* and of the right kind, older ones further on: the shape that comparing
\* addresses takes for granted.
TypeOK ==
  /\ mode \in {"closed", "run", "exit", "solution", "last", "fail", "unwind", "done", "assertion"}
  /\ mode # "closed" => IsFrame(FR) /\ IsChoice(BFR)
  /\ \A a \in DOMAIN stack :
       /\ stack[a].parent < a
       /\ stack[a].parent = 0 \/ (IsFrame(a) <=> IsFrame(stack[a].parent))
       /\ IsChoice(a) => IsFrame(stack[a].frame) /\ (stack[a].frame < a \/ a = Top)

\* The choice point that the commit or the cut of a condition finds in the
\* variable of the condition is one that the clause left there. C_SOFTCUT may
\* find that it is gone, and what was pushed there since is not of this clause
\* if it can be backtracked to.
ChoicesKnown ==
  LET Jump(ch) == IsChoice(ch) /\ stack[ch].kind = "CHP_JUMP" /\ stack[ch].frame = FR
      Commits(ops) == \E op \in ops : Is(op)
  IN
  /\ Commits({"C_CUT", "C_LCUTIFTHEN", "C_LCUT", "C_LSCUT", "C_SOFTCUT"}) =>
       Arg(1) \in DOMAIN stack[FR].variables /\ ChoiceVar # 0
  /\ Commits({"C_LSCUT"}) => Jump(ChoiceVar)
  /\ Commits({"C_SOFTCUT"}) /\ ChoiceVar \in ChoiceChain(BFR) => Jump(ChoiceVar)

\* The code fits the machine: besides, only the clause of setup_call_cleanup/3
\* calls for a handler.
CodeFits == ChoicesKnown /\ (Is("I_CALLCLEANUP") => stack[FR].goal[1] = "cleanup")

\* A check of the code of a clause alone that is enough for CodeFits. Jumps go
\* forward and the last instruction leaves the frame; a cut names a variable
\* that is set on every way to it; and between C_SOFTIF and its C_SOFTCUT there
\* is no cut, so that nothing overwrites the choice point of C_SOFTIF.
Codes(c)   == 1..Len(c.codes)
Op(c, p)   == c.codes[p][1]
Var(c, p)  == c.codes[p][2]
Sets(c, p) == Op(c, p) \in {"C_IFTHENELSE", "C_NOT", "C_SOFTIF", "C_IFTHEN", "C_SOFTIFTHEN"}
Cuts(c, p) == Op(c, p) \in {"C_CUT", "C_LCUTIFTHEN", "C_LCUT"}

\* Where the instruction at p may go on, other than behind it, now or by backtracking
Targets(c, p) ==
  CASE Op(c, p) \in {"C_OR", "C_JMP"} -> {p + 1 + c.codes[p][2]}
    [] Op(c, p) \in {"C_IFTHENELSE", "C_NOT", "C_SOFTIF"} -> {p + 1 + c.codes[p][3]}
    [] OTHER -> {}

\* Every way to p passes i.
Through(c, i, p) == i < p /\ \A j \in 1..(i - 1) : Targets(c, j) \cap (i + 1)..p = {}

\* The condition of a soft-cut is between i and p.
SoftCondition(c, i, p) ==
  i < p /\ Op(c, i) = "C_SOFTIF" /\ Op(c, p) = "C_SOFTCUT" /\ Var(c, i) = Var(c, p)

JumpsChecked(c) ==
  \A p \in Codes(c) :
    /\ Targets(c, p) \subseteq (p + 1)..Len(c.codes)
    /\ p = Len(c.codes) => Op(c, p) \in {"I_EXIT", "I_EXITFACT"}

VariablesChecked(c) ==
  \A p \in Codes(c) :
    /\ Sets(c, p) => Var(c, p) \in 1..c.variables
    /\ Cuts(c, p) => \E i \in Codes(c) : Sets(c, i) /\ Var(c, i) = Var(c, p) /\ Through(c, i, p)
    /\ Op(c, p) = "C_SOFTCUT" => \E i \in Codes(c) : SoftCondition(c, i, p)
    /\ Op(c, p) # "C_LSCUT"

ConditionsChecked(c) ==
  \A i, p \in Codes(c) : SoftCondition(c, i, p) =>
    /\ Through(c, i, p) /\ Targets(c, i) \cap (i + 1)..p = {}
    /\ \A k \in (i + 1)..p : ~Cuts(c, k) /\ Op(c, k) # "I_CUT"
    /\ \A k \in Codes(c) : k # i /\ Sets(c, k) => Var(c, k) # Var(c, i)

Checked(c) ==
  Len(c.codes) \in Nat /\ c.variables \in Nat /\ JumpsChecked(c) /\ VariablesChecked(c) /\ ConditionsChecked(c)

\* Each clause that is run passes the check.
CodeChecked ==
  /\ \A f \in DOMAIN stack : stack[f].kind = "frame" =>
       LET c == stack[f].clause IN
       Checked(c) /\ ((\E p \in Codes(c) : Op(c, p) = "I_CALLCLEANUP") => stack[f].goal[1] = "cleanup")
  /\ mode = "run" => 1 \in Codes(stack[FR].clause)

\* Each frame is left once, by exit, last call, failure, cut, exception or the
\* end of the query, and not while anybody can still return to it, and no two
\* choice points of a cut leave the same one: def->references is exact, which
\* LogicalUpdate and ClauseIndex build on.
FramesLeftOnce ==
  mode # "assertion" =>
    /\ inside = Cardinality(Live)
    /\ \A c, d \in ChoiceChain(BFR) : c # d => Discarded(c, 0) \cap Discarded(d, 0) = {}

\* The cleanup of setup_call_cleanup/3 runs once, and until it ran something
\* leads to it, so that it will: no cut, failure or exception forgets it. Once
\* it ran, its goal is over: nothing of it runs or can be backtracked into.
CleanupOnce ==
  /\ mode # "assertion" => marked - cleaned = Cardinality({f \in Live : Armed(f)})
  /\ \A f \in Live : \A g \in FrameChain(f) \ {f} :
       ~({"FR_CLEANUP", "FR_CATCHED"} \subseteq stack[g].flags)

=============================================================================
