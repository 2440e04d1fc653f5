------------------------------- MODULE StackGC -------------------------------
(***************************************************************************)
(* The garbage collector of the Prolog stacks (pl-gc.c) between the        *)
(* mutations it has to be invisible to: terms built on the global stack,   *)
(* trailed bindings, trailed destructive assignments, choice points and    *)
(* backtracking.                                                           *)
(*                                                                         *)
(* All stacks are one array of words.  A word is a tag, a pointer or size, *)
(* and the two bits the collector owns.  Marking reverses pointers and     *)
(* compacting threads relocation chains through those very words, so that  *)
(* one wrong step corrupts the terms.  One action is one step of a loop.   *)
(***************************************************************************)
EXTENDS Integers, Sequences, FiniteSets

CONSTANTS Cells,        \* words of the global stack
          TrailCells,   \* words of the trail
          Frames,       \* environment frames; fewer choice points than frames
          Slots,        \* variables of a frame
          Hole,         \* make_gc_hole() fills garbage larger than this
          Scripts,      \* the runs: for each step the operations it may make
          AssignYounger \* may setarg/3 store a variable younger than the cell

ASSUME SizesAssumption ==
    /\ {Cells, TrailCells, Frames, Slots, Hole} \subseteq Nat \ {0}
    /\ Scripts \subseteq Seq(SUBSET {"term", "string", "argument", "bind", "setarg",
                                     "try", "cut", "fail", "collect"})
    /\ AssignYounger \in BOOLEAN

(***************************************************************************)
(* The layout: the dummy marked cell at 0, the global stack with one spare *)
(* cell, the trail with one spare cell, the slots of the frames, and for   *)
(* each choice point a mark of three words.  Mark 0 is that of the query,  *)
(* mark Frames that of the foreign frame a collection opens.               *)
(***************************************************************************)
TrailAt(i) == Cells + 1 + i
SlotAt(f, s) == Cells + TrailCells + 2 + (f - 1) * Slots + s
TrailTop(k) == SlotAt(Frames, Slots) + 3 * k + 1
GlobalTop(k) == TrailTop(k) + 1
SavedBar(k) == TrailTop(k) + 2
Address == 0 .. SavedBar(Frames)
Global == 1 .. Cells + 1

\* The tags of words: var atom fun hdr ref term str, and of trail entries and
\* the fields of marks: addr, old (the place of a trailed assignment's old value).
W(t, p) == [tag |-> t, ptr |-> p, mark |-> FALSE, first |-> FALSE]
Var == W("var", 0)
Atom == W("atom", 0)
Functor == W("fun", 0)              \* every compound has two arguments
Header == W("hdr", 1)               \* a string of one word between headers
Gone == W("addr", 0)                \* a deleted trail entry
Raw == [W("ref", 1) EXCEPT !.mark = TRUE, !.first = TRUE]
                                    \* the bits of a string may look like anything

VARIABLES mem, gTop, tTop, markBar,        \* the stacks and their tops
          choices, frame, parent, cont,    \* choice points and environments
          script,
          phase, todo, cur, val, start,    \* the collector's registers
          te, te0, assigned, dest, topGc,
          count,                           \* its consistency counters
          asked                            \* history: what there was when it began

machine == <<choices, frame, parent, cont>>
walker == <<todo, cur, val, start>>
resetter == <<te, te0, assigned>>
mover == <<dest, topGc>>
vars == <<mem, gTop, tTop, markBar, machine, script, phase, walker, resetter, mover,
          count, asked>>

Pointers == {"ref", "term", "str", "addr", "old"}
Storage(w) == IF w.tag = "hdr" THEN "local"
              ELSE IF w.tag = "fun" THEN "global"
              ELSE IF w.tag \notin Pointers \/ w.ptr = 0 THEN "static"
              ELSE IF w.ptr < TrailAt(1) THEN "global"
              ELSE IF w.ptr < SlotAt(1, 1) THEN "static" ELSE "local"
Value(m, a) == [m[a] EXCEPT !.mark = FALSE, !.first = FALSE]
SetValue(m, a, w) == [m EXCEPT ![a].tag = w.tag, ![a].ptr = w.ptr]
Offset(m, a) == IF Storage(m[a]) = "local" THEN m[a].ptr + 1 ELSE 0
MarkedOrFirst(w) == w.mark \/ w.first

-----------------------------------------------------------------------------
(* What the words mean *)

RECURSIVE Deref(_, _), At(_, _, _), Undo(_, _, _), Ancestors(_)
Deref(m, a) == IF m[a].tag = "ref" THEN Deref(m, m[a].ptr) ELSE a
At(m, a, path) == LET d == Deref(m, a) IN
    IF path = <<>> THEN d
    ELSE IF m[d].tag = "term" THEN At(m, m[d].ptr + Head(path), Tail(path)) ELSE 0

\* __do_undo(): the memory after undoing the trail down to entry lo
Undo(m, hi, lo) ==
    IF hi < lo THEN m
    ELSE IF m[TrailAt(hi)].tag = "old"
         THEN Undo(SetValue(m, m[TrailAt(hi - 1)].ptr, m[m[TrailAt(hi)].ptr]),
                   hi - 2, lo)
         ELSE Undo([m EXCEPT ![m[TrailAt(hi)].ptr] = Var], hi - 1, lo)
UndoTo(m, k) == Undo(m, tTop - 1, m[TrailTop(k)].ptr - TrailAt(0))

Paths == UNION {[1 .. n -> {1, 2}] : n \in 0 .. 2}
Sort(m, a) ==
    IF a = 0 THEN "none"
    ELSE IF m[a].tag = "term" /\ m[m[a].ptr].tag # "fun" THEN "broken"
    ELSE IF m[a].tag = "str" /\ [i \in 0 .. 2 |-> Value(m, m[a].ptr + i)]
                 # [i \in 0 .. 2 |-> IF i = 1 THEN W("ref", 1) ELSE Header]
         THEN "broken" ELSE m[a].tag
Same(m, a, b) == /\ a # 0 /\ b # 0
                 /\ \/ a = b
                    \/ m[a].tag \in {"term", "str"} /\ m[a].ptr = m[b].ptr
                                                    /\ m[a].tag = m[b].tag
\* The terms of some slots: what is found along each path, and which paths
\* lead to the same variable, compound or string.
Terms(m, slots) ==
    LET place == [r \in slots \X Paths |-> At(m, r[1], r[2])]
    IN  [r \in slots \X Paths |->
            <<Sort(m, place[r]),
              {q \in slots \X Paths : /\ Sort(m, place[r]) \notin {"none", "atom"}
                                      /\ Same(m, place[r], place[q])}>>]

Ancestors(f) == IF f = 0 THEN {} ELSE {f} \cup Ancestors(parent[f])
LiveSlots == UNION {{SlotAt(f, s) : s \in cont[f]} : f \in Ancestors(frame)}
AltSlots(c) == {SlotAt(c.frame, s) : s \in c.alt}

-----------------------------------------------------------------------------
(* The mutator *)

Step(op) == /\ phase = "run"
            /\ script # <<>> /\ op \in Head(script)
            /\ script' = Tail(script)
Mutate(op) == /\ Step(op)
              /\ UNCHANGED <<phase, walker, resetter, mover, count, asked>>
Live(s) == s \in cont[frame]
Slot(s) == SlotAt(frame, s)
\* linkVal(): what is copied of a dereferenced cell, a variable by reference
Link(a) == LET d == Deref(mem, a) IN
           IF mem[d].tag = "var" THEN W("ref", d) ELSE mem[d]

Init ==
    /\ mem = [a \in Address |->
                CASE a = 0 -> [Var EXCEPT !.mark = TRUE]
                  [] a \in TrailAt(1) .. TrailAt(TrailCells + 1) -> Gone
                  [] a \in SlotAt(1, 1) .. SlotAt(Frames, Slots) -> Atom
                  [] a = TrailTop(0) -> W("addr", TrailAt(1))
                  [] a \in {GlobalTop(0), SavedBar(0)} -> W("addr", 1)
                  [] OTHER -> Var]
    /\ gTop = 1 /\ tTop = 1 /\ markBar = 1
    /\ choices = <<>> /\ frame = 1
    /\ parent = [f \in 1 .. Frames |-> 0]
    /\ cont = [f \in 1 .. Frames |-> IF f = 1 THEN 1 .. Slots ELSE {}]
    /\ script \in Scripts /\ phase = "run" /\ todo = <<>>
    /\ cur = 0 /\ val = Var /\ start = 0
    /\ te = 0 /\ te0 = 0 /\ assigned = 0 /\ dest = 0 /\ topGc = 0
    /\ count = [total |-> 0, needs |-> 0, into |-> 0, done |-> 0,
                chains |-> 0, local |-> 0]
    /\ asked = <<>>

\* B_FUNCTOR with one argument copied from a slot (B_ARGVAR) and one that is a
\* fresh variable (B_VOID).
NewTerm(s, t) ==
    /\ Mutate("term") /\ Live(s) /\ Live(t)
    /\ gTop + 3 <= Cells + 1
    /\ \E order \in {<<1, 2>>, <<2, 1>>} :
         mem' = [mem EXCEPT ![gTop] = Functor,
                            ![gTop + order[1]] = Link(Slot(t)),
                            ![gTop + order[2]] = Var,
                            ![Slot(s)] = W("term", gTop)]
    /\ gTop' = gTop + 3
    /\ UNCHANGED <<tTop, markBar, choices, frame, parent, cont>>

\* A string: a word of data between two headers.
NewString(s) ==
    /\ Mutate("string") /\ Live(s)
    /\ gTop + 3 <= Cells + 1
    /\ mem' = [mem EXCEPT ![gTop] = Header, ![gTop + 1] = Raw, ![gTop + 2] = Header,
                          ![Slot(s)] = W("str", gTop)]
    /\ gTop' = gTop + 3
    /\ UNCHANGED <<tTop, markBar, choices, frame, parent, cont>>

\* H_VAR inside a compound: the slot takes an argument.
Argument(s, t, i) ==
    /\ Mutate("argument") /\ Live(s) /\ Live(t)
    /\ mem[Slot(t)].tag = "term"
    /\ mem' = [mem EXCEPT ![Slot(s)] = Link(mem[Slot(t)].ptr + i)]
    /\ UNCHANGED <<gTop, tTop, markBar, choices, frame, parent, cont>>

\* do_unify() of a variable with a value; Trail() if it is older than markBar.
Bind(s, t) ==
    /\ Mutate("bind") /\ Live(s) /\ Live(t)
    /\ LET a == Deref(mem, Slot(s))
           b == Deref(mem, Slot(t))
           w == Link(b)
       IN  /\ mem[a].tag = "var" /\ a # b
           /\ mem[b].tag = "var" => b < a         \* always point downwards
           /\ IF a < markBar
              THEN /\ tTop <= TrailCells
                   /\ mem' = [mem EXCEPT ![a] = w, ![TrailAt(tTop)] = W("addr", a)]
                   /\ tTop' = tTop + 1
              ELSE mem' = [mem EXCEPT ![a] = w] /\ tTop' = tTop
    /\ UNCHANGED <<gTop, markBar, choices, frame, parent, cont>>

\* setarg/3 on an argument that is not a variable: TrailAssignment() keeps the
\* old value above gTop; unify_vp() stores the new one.
SetArg(s, i, t) ==
    /\ Mutate("setarg") /\ Live(s) /\ Live(t)
    /\ mem[Slot(s)].tag = "term"
    /\ LET a == mem[Slot(s)].ptr + i
           b == Deref(mem, Slot(t))
           young == mem[b].tag = "var" /\ a < b
           Store(m) ==
             IF young THEN [m EXCEPT ![a] = Var, ![b] = W("ref", a)]
             ELSE [m EXCEPT ![a] = Link(b)]
       IN  /\ mem[a].tag # "var"
           /\ young => AssignYounger
           /\ IF a < markBar
              THEN /\ gTop <= Cells /\ tTop + 1 <= TrailCells
                   /\ mem' = Store([mem EXCEPT ![gTop] = mem[a],
                                      ![TrailAt(tTop)] = W("addr", a),
                                      ![TrailAt(tTop + 1)] = W("old", gTop)])
                   /\ gTop' = gTop + 1 /\ tTop' = tTop + 2
              ELSE mem' = Store(mem) /\ UNCHANGED <<gTop, tTop>>
    /\ UNCHANGED <<markBar, choices, frame, parent, cont>>

\* newChoice(), then the call of a new frame that gets the slots as arguments.
\* The choice point resumes its frame at an alternative that needs the slots
\* `alt'; the caller needs all its slots after the call, or none after its last.
NewFrame == 1 + CHOOSE f \in 1 .. Frames :
                 /\ f \in {frame} \cup {choices[k].frame : k \in DOMAIN choices}
                 /\ \A k \in DOMAIN choices : choices[k].frame <= f
                 /\ frame <= f
Try(alt, lastCall) ==
    LET k == Len(choices) + 1
        new == NewFrame
    IN  /\ Mutate("try")
        /\ k < Frames /\ new <= Frames
        /\ alt \subseteq cont[frame] /\ alt # {}
        /\ choices' = Append(choices, [frame |-> frame, alt |-> alt, terms |->
                Terms(mem, {SlotAt(frame, s) : s \in alt})])
        /\ mem' = [a \in Address |->
                     CASE a = TrailTop(k) -> W("addr", TrailAt(tTop))
                       [] a = GlobalTop(k) -> W("addr", gTop)
                       [] a = SavedBar(k) -> W("addr", markBar)
                       [] a \in SlotAt(new, 1) .. SlotAt(new, Slots) ->
                            mem[a - SlotAt(new, 1) + SlotAt(frame, 1)]
                       [] OTHER -> mem[a]]
        /\ markBar' = gTop
        /\ frame' = new
        /\ parent' = [parent EXCEPT ![new] = IF lastCall THEN parent[frame] ELSE frame]
        /\ cont' = [cont EXCEPT ![frame] = IF lastCall THEN {} ELSE @, ![new] = cont[frame]]
        /\ UNCHANGED <<gTop, tTop>>

Dropped == SubSeq(choices, 1, Len(choices) - 1)

\* DiscardMark() of the newest choice point.
Cut == /\ Mutate("cut") /\ choices # <<>>
       /\ markBar' = mem[SavedBar(Len(choices))].ptr
       /\ choices' = Dropped
       /\ UNCHANGED <<mem, gTop, tTop, frame, parent, cont>>

\* Failure: __do_undo() to the newest choice point and its last alternative.
Backtrack ==
    LET k == Len(choices) IN
    /\ Mutate("fail") /\ choices # <<>>
    /\ gTop' = mem[GlobalTop(k)].ptr
    /\ tTop' = mem[TrailTop(k)].ptr - TrailAt(0)
    /\ mem' = LET m == UndoTo(mem, k) IN
              [a \in Address |-> IF a \in Global /\ a >= gTop' THEN Var
                              ELSE IF a \in TrailAt(tTop') .. TrailAt(TrailCells)
                              THEN Gone ELSE m[a]]
    /\ markBar' = mem[SavedBar(k)].ptr
    /\ frame' = choices[k].frame
    /\ cont' = [cont EXCEPT ![choices[k].frame] = choices[k].alt]
    /\ choices' = Dropped
    /\ UNCHANGED parent

-----------------------------------------------------------------------------
(* The order of the walk: mark_stacks() and sweep_stacks() *)

Task(what, at) == [do |-> what, at |-> at]
RECURSIVE SlotTasks(_, _), Walk(_, _, _), WalkChoices(_, _, _)
SlotTasks(f, slots) ==
    IF slots = {} THEN <<>>
    ELSE LET s == CHOOSE s \in slots : \A t \in slots : s <= t
         IN  <<Task("slot", SlotAt(f, s))>> \o SlotTasks(f, slots \ {s})
\* mark_environments(), sweep_environments(): up the parents until a frame that
\* was walked before; marking visits what that frame's continuation needs.
Walk(f, seen, sweep) ==
    IF f = 0 THEN <<>>
    ELSE IF f \in seen THEN IF sweep THEN <<>> ELSE SlotTasks(f, cont[f])
    ELSE SlotTasks(f, IF sweep THEN 1 .. Slots ELSE cont[f])
         \o Walk(parent[f], seen, sweep)
\* mark_choicepoints(), sweep_choicepoints(): from the newest to the oldest.
WalkChoices(k, seen, sweep) ==
    IF k = 0 THEN <<Task("choice", 0)>>
    ELSE LET f == choices[k].frame IN
         (IF sweep THEN Walk(f, seen, sweep) \o <<Task("choice", k)>>
          ELSE <<Task("choice", k)>> \o SlotTasks(f, choices[k].alt)
               \o (IF f \in seen THEN <<>> ELSE Walk(parent[f], seen, sweep)))
         \o WalkChoices(k - 1, seen \cup Ancestors(f), sweep)
\* the foreign frame of gvars_to_term_refs() is above every choice point
MarkTasks == Walk(frame, {}, FALSE) \o <<Task("choice", Frames)>>
             \o WalkChoices(Len(choices), Ancestors(frame), FALSE)
SweepTasks(entries) ==
    <<Task("choice", Frames)>>
    \o [i \in 1 .. entries |-> Task("trail", TrailAt(entries + 1 - i))]
    \o Walk(frame, {}, TRUE) \o WalkChoices(Len(choices), Ancestors(frame), TRUE)

Doing(p, what) == phase = p /\ todo # <<>> /\ Head(todo).do = what
Here == Head(todo).at
NextTask == todo' = Tail(todo)
FaultWhen(bad, next) == phase' = IF bad THEN "sysError" ELSE next

-----------------------------------------------------------------------------
(* garbageCollect(): marking *)

Collect ==
    /\ Step("collect")
    /\ mem' = [mem EXCEPT ![TrailTop(Frames)] = W("addr", TrailAt(tTop)),
                          ![GlobalTop(Frames)] = W("addr", gTop),
                          ![SavedBar(Frames)] = W("addr", markBar)]
    /\ markBar' = gTop
    /\ asked' = [terms |-> Terms(mem, LiveSlots),
                  olds |-> {mem[a].ptr : a \in {b \in TrailAt(1) .. TrailAt(tTop - 1) :
                                                 mem[b].tag = "old"}}]
    /\ todo' = MarkTasks
    /\ te' = tTop - 1 /\ te0' = tTop - 1
    /\ phase' = "mark"
    /\ UNCHANGED <<gTop, tTop, machine, cur, val, start, assigned, mover, count>>

Collector == UNCHANGED <<machine, script, gTop, markBar, asked>>
Marking == Collector /\ UNCHANGED <<tTop, mover>>
Restart(a) == /\ start' = a /\ cur' = a /\ val' = Value(mem, a)
              /\ phase' = "forward"

MarkedSlot ==                          \* another path marked it
    /\ Doing("mark", "slot") /\ mem[Here].mark
    /\ NextTask
    /\ UNCHANGED <<mem, phase, cur, val, start, resetter, count>> /\ Marking
LocalSlot ==                           \* mark_local_variable() of a constant
    /\ Doing("mark", "slot") /\ ~mem[Here].mark
    /\ Storage(mem[Here]) # "global"
    /\ mem' = [mem EXCEPT ![Here].mark = TRUE]
    /\ NextTask
    /\ UNCHANGED <<phase, cur, val, start, resetter, count>> /\ Marking
GlobalSlot ==                          \* mark_variable() from a local slot
    /\ Doing("mark", "slot") /\ ~mem[Here].mark
    /\ Storage(mem[Here]) = "global"
    /\ mem' = [mem EXCEPT ![Here].first = TRUE]
    /\ count' = [count EXCEPT !.local = @ + 1, !.total = @ - 1]
    /\ Restart(Here) /\ NextTask
    /\ UNCHANGED resetter /\ Marking

Forward == phase = "forward" /\ ~mem[cur].mark
MarkCell(m, c) == [m EXCEPT ![c].mark = TRUE]
Turn == /\ phase' = "backward"         \* a leaf, or a cell that was marked
        /\ UNCHANGED <<cur, val, todo, start, resetter>> /\ Marking

ForwardMarked ==
    /\ phase = "forward" /\ mem[cur].mark
    /\ UNCHANGED <<mem, count>> /\ Turn
ForwardLeaf ==
    /\ Forward /\ val.tag \notin {"ref", "term", "str"}
    /\ mem' = MarkCell(mem, cur)
    /\ count' = [count EXCEPT !.total = @ + 1]
    /\ Turn
\* The cell is on the path being walked, or its term is marked.
ForwardKnown ==
    /\ Forward
    /\ \/ val.tag = "ref" /\ mem[val.ptr].first
       \/ val.tag \in {"term", "str"} /\ mem[val.ptr].mark
    /\ mem' = MarkCell(mem, cur)
    /\ count' = [count EXCEPT !.total = @ + 1, !.needs = @ + 1]
    /\ Turn
ForwardReference ==
    /\ Forward /\ val.tag = "ref" /\ ~mem[val.ptr].first
    /\ mem' = SetValue(MarkCell(mem, cur), val.ptr, W("ref", cur))
    /\ cur' = val.ptr /\ val' = Value(mem, val.ptr)
    /\ count' = [count EXCEPT !.total = @ + 1, !.needs = @ + 1]
    /\ UNCHANGED <<phase, todo, start, resetter>> /\ Marking
\* The last argument is walked first; FIRST marks the arguments above the first.
ForwardTerm ==
    /\ Forward /\ val.tag = "term" /\ ~mem[val.ptr].mark
    /\ LET m == MarkCell(MarkCell(mem, cur), val.ptr)
           last == val.ptr + 2
       IN  /\ mem' = SetValue([m EXCEPT ![last].first = TRUE], last, W("term", cur))
           /\ cur' = last /\ val' = Value(mem, last)
    /\ count' = [count EXCEPT !.total = @ + 2, !.needs = @ + 1]
    /\ UNCHANGED <<phase, todo, start, resetter>> /\ Marking
ForwardIndirect ==
    /\ Forward /\ val.tag = "str" /\ ~mem[val.ptr].mark
    /\ mem' = MarkCell(MarkCell(mem, cur), val.ptr)
    /\ count' = [count EXCEPT !.total = @ + 2 + Offset(mem, val.ptr),
                              !.needs = @ + 1]
    /\ Turn

\* Mutant: a term is restored to its first argument instead of its functor.
UpToArgument ==
    /\ phase = "backward" /\ ~mem[cur].first
    /\ mem' = SetValue(mem, cur, val)
    /\ val' = W(mem[cur].tag, cur)
    /\ cur' = mem[cur].ptr
    /\ FaultWhen(mem[cur].tag \notin {"ref", "term"}, phase)
    /\ UNCHANGED <<todo, start, resetter, count>> /\ Marking
BackwardUp ==
    /\ phase = "backward" /\ ~mem[cur].first
    /\ mem' = SetValue(mem, cur, val)
    /\ val' = IF mem[cur].tag = "ref" THEN W("ref", cur) ELSE W("term", cur - 1)
    /\ cur' = mem[cur].ptr
    /\ FaultWhen(mem[cur].tag \notin {"ref", "term"}, phase)
    /\ UNCHANGED <<todo, start, resetter, count>> /\ Marking
BackwardArgument ==
    /\ phase = "backward" /\ mem[cur].first /\ cur # start
    /\ mem' = SetValue(SetValue([mem EXCEPT ![cur].first = FALSE], cur, val),
                       cur - 1, Value(mem, cur))
    /\ cur' = cur - 1 /\ val' = Value(mem, cur - 1)
    /\ phase' = "forward"
    /\ UNCHANGED <<todo, start, resetter, count>> /\ Marking
BackwardDone ==
    /\ phase = "backward" /\ mem[cur].first /\ cur = start
    /\ mem' = [mem EXCEPT ![cur].first = FALSE]
    /\ cur' = 0 /\ val' = Var /\ start' = 0
    /\ phase' = "mark"
    /\ UNCHANGED <<todo, resetter, count>> /\ Marking

-----------------------------------------------------------------------------
(* Relocation chains *)

\* update_relocation_chain(): every word of the chain of `head' gets to point
\* to `d', and `head' gets back the value the last of them holds for it.
RECURSIVE UnwindFrom(_, _, _)
UnwindFrom(st, link, d) ==
    LET c == link.ptr
        m == SetValue([st.mem EXCEPT ![c].first = FALSE], c, W(link.tag, d))
        next == [mem |-> m, count |-> [st.count EXCEPT !.done = @ + 1]]
    IN  IF st.mem[c].first THEN UnwindFrom(next, Value(st.mem, c), d)
        ELSE [st |-> next, value |-> Value(st.mem, c)]
Unwind(st, head, d) ==
    IF ~st.mem[head].first THEN st
    ELSE LET r == UnwindFrom([st EXCEPT !.mem[head].first = FALSE],
                             Value(st.mem, head), d)
         IN  [mem |-> SetValue(r.st.mem, head, r.value),
              count |-> [r.st.count EXCEPT !.chains = @ - 1]]
\* into_relocation_chain()
Into(st, c) ==
    LET v == Value(st.mem, c)
        m == SetValue(SetValue(st.mem, c, Value(st.mem, v.ptr)), v.ptr, W(v.tag, c))
        old == st.mem[v.ptr].first
    IN  [mem |-> [m EXCEPT ![IF old THEN c ELSE v.ptr].first = TRUE],
         count |-> [st.count EXCEPT !.into = @ + 1,
                                    !.chains = IF old THEN @ ELSE @ + 1]]
Needed(st) == [st EXCEPT !.count.needs = @ + 1]
Now == [mem |-> mem, count |-> count]
Becomes(st) == mem' = st.mem /\ count' = st.count

-----------------------------------------------------------------------------
(* early_reset_vars(): trail entries of the segment above a mark *)

Segment == /\ Doing("mark", "choice")
           /\ te >= mem[TrailTop(Here)].ptr - TrailAt(0)
Entry == mem[TrailAt(te)]
Target(a) == IF mem[a].ptr = 0 THEN TrailAt(1) ELSE mem[a].ptr   \* val_ptr()
InGlobal(a) == a \in Global
Keep == mem[GlobalTop(Here)].ptr
Resetting == UNCHANGED <<todo, te0>> /\ Marking

ResetNewer ==                          \* backtracking removes the cell
    /\ Segment /\ Entry.tag = "addr"
    /\ Entry.ptr > Keep /\ InGlobal(Entry.ptr)
    /\ mem' = [mem EXCEPT ![TrailAt(te)] = Gone]
    /\ te' = te - 1
    /\ UNCHANGED <<phase, cur, val, start, assigned, count>> /\ Resetting
\* Mutant: the entry goes, the binding stays.
ForgetUnreached ==
    /\ Segment /\ Entry.tag = "addr"
    /\ Entry.ptr <= Keep /\ ~mem[Entry.ptr].mark
    /\ mem' = [mem EXCEPT ![TrailAt(te)] = Gone]
    /\ te' = te - 1
    /\ UNCHANGED <<phase, cur, val, start, assigned, count>> /\ Resetting
ResetUnreached ==                      \* only backtracking gets there: undo now
    /\ Segment /\ Entry.tag = "addr"
    /\ Entry.ptr <= Keep /\ ~mem[Entry.ptr].mark
    /\ mem' = [mem EXCEPT ![TrailAt(te)] = Gone, ![Entry.ptr] = Var]
    /\ te' = te - 1
    /\ UNCHANGED <<phase, cur, val, start, assigned, count>> /\ Resetting
ResetKept ==
    /\ Segment /\ Entry.tag = "addr"
    /\ Entry.ptr <= Keep /\ mem[Entry.ptr].mark
    /\ te' = te - 1
    /\ UNCHANGED <<mem, phase, cur, val, start, assigned, count>> /\ Resetting

Cell == mem[TrailAt(te - 1)].ptr       \* of a trailed assignment
Old == Entry.ptr
ForgetAssignment == [mem EXCEPT ![TrailAt(te)] = Gone, ![TrailAt(te - 1)] = Gone]
AssignmentNewer ==
    /\ Segment /\ Entry.tag = "old" /\ Cell >= Keep
    /\ mem' = ForgetAssignment
    /\ te' = te - 2
    /\ UNCHANGED <<phase, cur, val, start, assigned, count>> /\ Resetting
AssignmentMarked ==                    \* keep the old value with the cell
    /\ Segment /\ Entry.tag = "old" /\ Cell < Keep /\ mem[Cell].mark
    /\ IF mem[Old].mark
       THEN /\ te' = te - 2 /\ assigned' = assigned + 1
            /\ UNCHANGED <<mem, cur, val, start>>
            /\ FaultWhen(mem[Old].first, phase)
       ELSE /\ mem' = [mem EXCEPT ![Old].first = TRUE]
            /\ Restart(Old)
            /\ UNCHANGED <<te, assigned>>
    /\ UNCHANGED count /\ Resetting
\* Mutant: the old value is stored with the bit that marks it.
StoredMarked ==
    /\ Segment /\ Entry.tag = "old" /\ Cell < Keep /\ ~mem[Cell].mark
    /\ mem' = [ForgetAssignment EXCEPT ![Cell] = [mem[Old] EXCEPT !.mark = TRUE]]
    /\ te' = te - 2
    /\ UNCHANGED <<phase, cur, val, start, assigned, count>> /\ Resetting
AssignmentUnreached ==
    /\ Segment /\ Entry.tag = "old" /\ Cell < Keep /\ ~mem[Cell].mark
    /\ mem' = [ForgetAssignment EXCEPT ![Cell] = [mem[Old] EXCEPT !.mark = FALSE]]
    /\ te' = te - 2
    /\ UNCHANGED <<phase, cur, val, start, assigned, count>> /\ Resetting

\* mergeTrailedAssignments(): of a cell assigned twice the oldest entry stays,
\* and a binding of an assigned cell goes.
RECURSIVE Merge(_, _, _)
Merge(m, i, seen) ==
    IF i > te0 THEN m
    ELSE LET p == IF m[TrailAt(i)].ptr = 0 THEN TrailAt(1) ELSE m[TrailAt(i)].ptr
             pair == m[TrailAt(i + 1)].tag = "old"
         IN  IF p \in seen \/ (p = TrailAt(1) /\ m[p].first)
             THEN Merge([m EXCEPT ![TrailAt(i)] = Gone,
                           ![TrailAt(i + 1)] = IF pair THEN Gone ELSE @], i + 1, seen)
             ELSE Merge(m, i + 1, IF pair THEN seen \cup {p} ELSE seen)
SegmentDone ==
    /\ Doing("mark", "choice")
    /\ te < mem[TrailTop(Here)].ptr - TrailAt(0)
    /\ LET bottom == mem[TrailTop(Here)].ptr - TrailAt(0)
           m == IF assigned > 0 THEN Merge(mem, bottom, {}) ELSE mem
       IN  Becomes(Needed(Into([mem |-> m, count |-> count], TrailTop(Here))))
    /\ te0' = te /\ assigned' = 0
    /\ NextTask
    /\ UNCHANGED <<phase, cur, val, start, te>> /\ Marking

-----------------------------------------------------------------------------
(* compact_trail() and the sweeps *)

Compacting == UNCHANGED <<machine, script, gTop, asked, start, resetter>>

MarkDone ==
    /\ phase = "mark" /\ todo = <<>>
    /\ phase' = "trail" /\ cur' = 1 /\ dest' = 1
    /\ UNCHANGED <<mem, tTop, markBar, todo, val, topGc, count>> /\ Compacting

TrailEntry ==
    /\ phase = "trail" /\ cur < tTop
    /\ LET st == Unwind(Now, TrailAt(cur), TrailAt(dest))
           kept == st.mem[TrailAt(cur)].ptr # 0
       IN  /\ Becomes([st EXCEPT !.mem[TrailAt(dest)] =
                         IF kept THEN st.mem[TrailAt(cur)] ELSE @])
           /\ dest' = IF kept THEN dest + 1 ELSE dest
    /\ cur' = cur + 1
    /\ UNCHANGED <<tTop, markBar, phase, todo, val, topGc>> /\ Compacting
TrailDone ==
    /\ phase = "trail" /\ cur = tTop
    /\ LET st == Unwind(Now, TrailAt(cur), TrailAt(dest))
       IN  Becomes(st) /\ FaultWhen(st.count.done # st.count.into, "sweep")
    /\ tTop' = dest
    /\ todo' = SweepTasks(dest - 1)
    /\ UNCHANGED <<markBar, cur, val, dest, topGc>> /\ Compacting

\* sweep_global_mark(): the top of the global stack a mark remembers may be
\* garbage.  Its new place is that of the cell above the first marked cell or
\* head of a chain below it; the garbage skipped is filled with variables that
\* say where, so that the next mark need not scan it again.
RECURSIVE Below(_, _)
Below(m, prev) ==
    IF MarkedOrFirst(m[prev]) THEN <<prev + 1, TRUE>>
    ELSE IF Storage(m[prev]) = "local"
         THEN LET bottom == prev - (m[prev].ptr + 1)
              IN  IF MarkedOrFirst(m[bottom]) THEN <<prev + 1, TRUE>>
                  ELSE Below(m, bottom - 1)
    ELSE IF m[prev].tag = "var" /\ m[prev].ptr # 0 THEN <<m[prev].ptr + 1, FALSE>>
    ELSE Below(m, prev - 1)
SweepTop(st, a) ==
    LET top == st.mem[a].ptr
        found == Below(st.mem, top - 1)
        filled == IF found[2] THEN found[1] + 1 .. top - 1 ELSE {}
        m == [c \in Address |-> IF c \in filled THEN W("var", found[1] - 1)
                                ELSE st.mem[c]]
    IN  Needed(Into([st EXCEPT !.mem = SetValue(m, a, W("addr", found[1]))], a))

Sweeping == UNCHANGED <<tTop, markBar, phase, cur, val, dest, topGc>> /\ Compacting
SweepMark ==
    /\ Doing("sweep", "choice")
    /\ LET st == SweepTop(Now, GlobalTop(Here))
           bar == IF st.mem[SavedBar(Here)].ptr > gTop THEN gTop
                  ELSE st.mem[SavedBar(Here)].ptr
       IN  Becomes(SweepTop([st EXCEPT !.mem[SavedBar(Here)].ptr = bar],
                            SavedBar(Here)))
    /\ NextTask /\ Sweeping
SweepTrail ==
    /\ Doing("sweep", "trail")
    /\ Becomes(IF Storage(mem[Here]) = "global" THEN Needed(Into(Now, Here)) ELSE Now)
    /\ NextTask /\ Sweeping
SweepSlot ==
    /\ Doing("sweep", "slot") /\ mem[Here].mark
    /\ LET st == [Now EXCEPT !.mem[Here].mark = FALSE]
       IN  Becomes(IF Storage(mem[Here]) = "global"
                   THEN Into([st EXCEPT !.count.local = @ - 1], Here) ELSE st)
    /\ NextTask /\ Sweeping
SweepDeadSlot ==                       \* ATOM_garbage_collected
    /\ Doing("sweep", "slot") /\ ~mem[Here].mark
    /\ mem' = IF Storage(mem[Here]) = "global" THEN [mem EXCEPT ![Here] = Atom] ELSE mem
    /\ NextTask
    /\ UNCHANGED count /\ Sweeping

-----------------------------------------------------------------------------
(* compact_global(): down, then up *)

SweepDone ==
    /\ phase = "sweep" /\ todo = <<>>
    /\ cur' = gTop /\ dest' = 1 + count.total
    /\ FaultWhen(count.local # 0, "down")
    /\ UNCHANGED <<mem, tTop, markBar, todo, val, topGc, count>> /\ Compacting

Pointing(w) == w.tag \in {"ref", "term", "str"}
Moving == UNCHANGED <<tTop, markBar, todo, val>> /\ Compacting

\* A large cell is met at its top header.
Bottom(c) == IF ~MarkedOrFirst(mem[c]) THEN c - Offset(mem, c) ELSE c
DownMarked ==
    /\ phase = "down" /\ cur >= 1
    /\ LET c == Bottom(cur)
           d == dest - (cur - c) - 1
           st == Unwind(Now, c, d)
           w == st.mem[c]
       IN  /\ mem[c].mark
           /\ Becomes(IF Pointing(w) /\ w.ptr < c THEN Into(st, c) ELSE st)
           /\ dest' = d /\ cur' = c - 1
    /\ UNCHANGED <<phase, topGc>> /\ Moving
DownTop ==                             \* garbage, but the top some marks keep
    /\ phase = "down" /\ cur >= 1
    /\ LET c == Bottom(cur)
       IN  /\ ~mem[c].mark /\ mem[c].first
           /\ Becomes(Unwind(Now, c, dest))
           /\ cur' = c - 1
    /\ UNCHANGED <<phase, dest, topGc>> /\ Moving
DownGarbage ==
    /\ phase = "down" /\ cur >= 1
    /\ LET c == Bottom(cur)
       IN  /\ ~MarkedOrFirst(mem[c])
           /\ cur' = c - 1 /\ topGc' = c + Offset(mem, c)
    /\ phase' = "skip"
    /\ UNCHANGED <<mem, dest, count>> /\ Moving

\* downskip_combine_garbage(), make_gc_hole()
MakeHole(m, bottom) ==
    IF topGc - bottom > Hole
    THEN [m EXCEPT ![bottom] = W("hdr", topGc - bottom - 1),
                   ![topGc] = W("hdr", topGc - bottom - 1)]
    ELSE m
SkipEnds ==                            \* at a marked cell, or a large one's top
    /\ phase = "skip" /\ mem[Bottom(cur)].mark
    /\ mem' = MakeHole(mem, cur + 1)
    /\ phase' = "down"
    /\ UNCHANGED <<cur, dest, topGc, count>> /\ Moving
SkipOn ==
    /\ phase = "skip" /\ ~mem[Bottom(cur)].mark
    /\ Becomes(Unwind(Now, Bottom(cur), dest))
    /\ cur' = Bottom(cur) - 1
    /\ UNCHANGED <<phase, dest, topGc>> /\ Moving

DownDone ==
    /\ phase = "down" /\ cur = 0
    /\ cur' = 1
    /\ FaultWhen(dest # 1 \/ count.into # count.done, "up")
    /\ UNCHANGED <<mem, dest, topGc, count>> /\ Moving

UpMarked ==
    /\ phase = "up" /\ cur < gTop /\ mem[cur].mark
    /\ LET st == Unwind(Now, cur, dest)
           size == Offset(st.mem, cur) + 1
           w == st.mem[cur]
           moved == [st EXCEPT !.mem =
                       [a \in Address |-> IF a \in dest .. dest + size - 1
                                          THEN st.mem[a + cur - dest] ELSE st.mem[a]]]
           linked == IF Pointing(w) /\ w.ptr > cur THEN Into(moved, dest) ELSE moved
       IN  /\ Becomes([linked EXCEPT !.mem[dest].mark = FALSE])
           /\ dest' = dest + size /\ cur' = cur + size
    /\ UNCHANGED <<phase, topGc>> /\ Moving
UpGarbage ==
    /\ phase = "up" /\ cur < gTop /\ ~mem[cur].mark
    /\ cur' = cur + Offset(mem, cur) + 1
    /\ UNCHANGED <<mem, phase, dest, topGc, count>> /\ Moving

\* The last checks; closing the foreign frame brings the mark bar back.
Finish ==
    /\ phase = "up" /\ cur >= gTop
    /\ gTop' = dest
    /\ markBar' = mem[SavedBar(Frames)].ptr
    /\ FaultWhen(\/ dest # 1 + count.total \/ count.chains # 0
                 \/ count.done # count.into \/ count.done # count.needs
                 \/ markBar' > gTop', "collected")
    /\ UNCHANGED <<mem, tTop, machine, script, walker, resetter, mover, count, asked>>

\* The program goes on; nothing reads the words above the tops again.
Resume ==
    /\ phase = "collected"
    /\ phase' = "run"
    /\ mem' = [a \in Address |->
                 IF a \in Global /\ a >= gTop THEN Var
                 ELSE IF a \in TrailAt(tTop) .. TrailAt(TrailCells + 1) THEN Gone
                 ELSE IF a >= TrailTop(Frames) THEN Var ELSE mem[a]]
    /\ cur' = 0 /\ dest' = 0 /\ topGc' = 0 /\ te' = 0 /\ te0' = 0
    /\ count' = [c \in DOMAIN count |-> 0]
    /\ asked' = <<>>
    /\ UNCHANGED <<gTop, tTop, markBar, machine, script, todo, val, start, assigned>>

\* The program may stop anywhere; the collector may not.
Halted == phase = "run" /\ UNCHANGED vars

-----------------------------------------------------------------------------

Next ==
    \/ \E s, t \in 1 .. Slots : NewTerm(s, t) \/ Bind(s, t)
    \/ \E s \in 1 .. Slots : NewString(s)
    \/ \E s, t \in 1 .. Slots, i \in {1, 2} : Argument(s, t, i) \/ SetArg(s, i, t)
    \/ \E alt \in SUBSET (1 .. Slots), lastCall \in BOOLEAN : Try(alt, lastCall)
    \/ Cut \/ Backtrack
    \/ Collect
    \/ MarkedSlot \/ LocalSlot \/ GlobalSlot
    \/ ForwardMarked \/ ForwardLeaf \/ ForwardKnown
    \/ ForwardReference \/ ForwardTerm \/ ForwardIndirect
    \/ BackwardUp \/ BackwardArgument \/ BackwardDone
    \/ ResetNewer \/ ResetUnreached \/ ResetKept
    \/ AssignmentNewer \/ AssignmentMarked \/ AssignmentUnreached \/ SegmentDone
    \/ MarkDone \/ TrailEntry \/ TrailDone
    \/ SweepMark \/ SweepTrail \/ SweepSlot \/ SweepDeadSlot \/ SweepDone
    \/ DownMarked \/ DownTop \/ DownGarbage \/ SkipEnds \/ SkipOn \/ DownDone
    \/ UpMarked \/ UpGarbage \/ Finish \/ Resume \/ Halted

Spec == Init /\ [][Next]_vars

-----------------------------------------------------------------------------

\* A collection is invisible: what the running environments can reach is the
\* same afterwards, with the same sharing of variables, compounds and strings.
\* And no internal check of the collector fails: the counters of relocations
\* agree, every chain is unwound, all marked words are accounted for.
TermsKept ==
    /\ phase # "sysError"
    /\ phase = "collected" => Terms(mem, LiveSlots) = asked.terms

\* Whatever was bound, assigned and collected since a choice point was created,
\* failing back to it gives the terms its alternative saw then.
AlternativesKept ==
    phase \in {"run", "collected"} =>
        \A k \in DOMAIN choices :
            Terms(UndoTo(mem, k), AltSlots(choices[k])) = choices[k].terms

\* Marking finds what is needed and nothing else: when it is done exactly the
\* words are marked that can be reached from the slots needed now or by an
\* alternative, and at most those the trail's old values reach besides.
RECURSIVE Words(_, _)
Words(todoWords, seen) ==
    LET new == todoWords \ seen
        words(a) == IF mem[a].tag = "ref" THEN {mem[a].ptr}
                    ELSE IF mem[a].tag = "term" THEN {mem[a].ptr + i : i \in 0 .. 2}
                    ELSE IF mem[a].tag = "str" THEN {mem[a].ptr + i : i \in 0 .. 2}
                    ELSE {}
    IN  IF new = {} THEN seen
        ELSE Words(UNION {words(a) : a \in {b \in new : mem[b] # Raw}}, seen \cup new)
NeededSlots ==
    LET running == Ancestors(frame) \cup
                   UNION {Ancestors(parent[choices[k].frame]) : k \in DOMAIN choices}
    IN  UNION {{SlotAt(f, s) : s \in cont[f]} : f \in running}
        \cup UNION {AltSlots(choices[k]) : k \in DOMAIN choices}
MarkedIsNeeded ==
    phase = "trail" /\ cur = 1 =>
        LET marked == UNION {a .. a + Offset(mem, a) :
                             a \in {b \in 1 .. gTop - 1 : mem[b].mark /\ mem[b] # Raw}}
        IN  /\ Words(NeededSlots, {}) \cap Global \subseteq marked
            /\ marked \subseteq Words(NeededSlots \cup asked.olds, {})
=============================================================================
