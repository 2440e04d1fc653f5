--------------------------- MODULE LogicalUpdate ---------------------------
(***************************************************************************)
(* One dynamic predicate that several threads call, assert to and retract  *)
(* from.  Its clauses form a chain that callers walk without a lock; a     *)
(* clause carries the generations of the database at which it was created *)
(* and erased, a frame the generation at which it was started, and the     *)
(* frame sees the clauses whose interval encloses it.  A retracted clause  *)
(* stays in the chain while references counts frames inside the predicate; *)
(* the frame that leaves last cleans the chain and frees what it took out. *)
(*                                                                         *)
(* The chain is the set linked ordered by rank: assert gives a clause a    *)
(* rank below or above all others, unlinking leaves the ranks alone.  A    *)
(* clause that was freed is never used again.  The definition's mutex is   *)
(* lock; critical sections in which no unlocked reader can look at what is *)
(* half done are one step.                                                 *)
(***************************************************************************)
EXTENDS Integers, FiniteSets

CONSTANTS Thread,      \* the threads
          Clause,      \* clauses, each asserted at most once
          Nil,         \* no clause, no thread
          Old,         \* the clauses of the predicate at the start
          OldRank,     \* and their places
          Infinite,    \* ~(gen_t)0
          Many,        \* 16: above it an unreferenced predicate keeps erased clauses too
          Stale        \* what the generations of memory just allocated may hold

ASSUME NilAssumption == Nil \notin Clause \cup Thread
ASSUME FiniteAssumption == IsFiniteSet(Thread) /\ IsFiniteSet(Clause)
ASSUME OldAssumption == /\ Old \subseteq Clause /\ OldRank \in [Old -> Int]
                        /\ \A c, d \in Old : OldRank[c] = OldRank[d] => c = d
ASSUME NatAssumption == Infinite \in Nat /\ Many \in Nat \ {0} /\ Stale \subseteq [created: Nat, erased: Nat]

VARIABLES
  generation,  \* GD->generation
  linked,      \* the clauses in def->impl.clauses
  rank,        \* where each is in the chain
  stamp,       \* clause->generation
  gone,        \* the clauses with CL_ERASED
  freed,       \* the clauses whose memory was given back
  lock,        \* the thread that holds def->mutex, or Nil
  references,  \* def->references
  number,      \* def->impl.clauses.number_of_clauses
  erased,      \* def->impl.clauses.erased_clauses
  dirty,       \* def has NEEDSCLAUSEGC
  pc,          \* what each thread is doing
  goal,        \* "call", "retract" (retract/1, retractall/1) or "erase" (erase/1)
  frame,       \* the generation of its frame
  cl,          \* the clause it runs, asserts or erases
  chp,         \* the clause it looks at next (chp->cref)
  garbage,     \* what it unlinked and has to free
  kept,        \* history: the clauses alive when its call began and, once
               \*   it searches, not erased before it began to search,
  seen         \*   and the clauses it was given

clauseVars == <<linked, rank, stamp, gone, freed>>
defVars    == <<references, number, erased, dirty>>
walkVars   == <<frame, chp, kept, seen>>
vars == <<generation, clauseVars, lock, defVars, pc, goal, cl, garbage, walkVars>>

\* A thread between enterDefinition() and leaveDefinition().
Inside == {"enter", "scan", "run", "retract", "retracting", "fail"}

Unborn  == [created |-> Infinite, erased |-> Infinite]

Init ==
  /\ generation = 1
  /\ linked = Old
  /\ rank = [c \in Clause |-> IF c \in Old THEN OldRank[c] ELSE 0]
  /\ stamp = [c \in Clause |->
                IF c \in Old THEN [created |-> 1, erased |-> Infinite] ELSE Unborn]
  /\ gone = {} /\ freed = {}
  /\ lock = Nil
  /\ references = 0 /\ number = Cardinality(Old) /\ erased = 0 /\ dirty = FALSE
  /\ pc = [t \in Thread |-> "idle"]
  /\ goal = [t \in Thread |-> "call"]
  /\ frame = [t \in Thread |-> 0]
  /\ cl = [t \in Thread |-> Nil]
  /\ chp = [t \in Thread |-> Nil]
  /\ garbage = [t \in Thread |-> {}]
  /\ kept = [t \in Thread |-> {}]
  /\ seen = [t \in Thread |-> {}]

Visible(c, g) == stamp[c].created <= g /\ stamp[c].erased > g

Goto(t, from, to) == pc[t] = from /\ pc' = [pc EXCEPT ![t] = to]

\* The first of a set of clauses in the order of the chain.
First(S) == IF S = {} THEN Nil ELSE CHOOSE c \in S : \A d \in S : rank[c] <= rank[d]

After(c) == First({d \in linked : rank[d] > rank[c]})

\* The rank of a clause that asserta/1 or assertz/1 adds.
EndRank(where) ==
  IF linked = {} THEN 0
  ELSE IF where = "CL_START" THEN rank[First(linked)] - 1
  ELSE rank[CHOOSE c \in linked : \A d \in linked : rank[d] <= rank[c]] + 1

\* The clauses of the predicate at this instant: an assert or a retract takes
\* effect when it writes the stamp.
Alive == {c \in linked : /\ Visible(c, generation)
                         /\ \A t \in Thread : ~(pc[t] = "asserting" /\ cl[t] = c)}
-----------------------------------------------------------------------------
\* assert/1 links the clause, then takes a generation; until it writes the
\* stamp, the clause has the one its memory happened to hold.
AssertLink(t, c, where) ==
  /\ Goto(t, "idle", "asserting")
  /\ lock = Nil /\ lock' = t
  /\ c \notin linked \cup gone
  /\ linked' = linked \cup {c}
  /\ rank' = [rank EXCEPT ![c] = EndRank(where)]
  /\ \E s \in Stale : stamp' = [stamp EXCEPT ![c] = s]
  /\ number' = number + 1
  /\ generation' = generation + 1
  /\ cl' = [cl EXCEPT ![t] = c]
  /\ UNCHANGED <<gone, freed, references, erased, dirty, goal, garbage, walkVars>>

AssertStamp(t) ==
  /\ Goto(t, "asserting", "idle")
  /\ lock' = Nil
  /\ stamp' = [stamp EXCEPT ![cl[t]] = [created |-> generation, erased |-> Infinite]]
  /\ cl' = [cl EXCEPT ![t] = Nil]
  /\ UNCHANGED <<generation, linked, rank, gone, freed, defVars, goal, garbage, walkVars>>

\* A call, or retract/1: the frame gets its generation before the predicate
\* is referenced.
Begin(t, g) ==
  /\ Goto(t, "idle", "begun")
  /\ goal' = [goal EXCEPT ![t] = g]
  /\ frame' = [frame EXCEPT ![t] = generation]
  /\ kept' = [kept EXCEPT ![t] = Alive]
  /\ seen' = [seen EXCEPT ![t] = {}]
  /\ UNCHANGED <<generation, clauseVars, lock, defVars, cl, chp, garbage>>

\* enterDefinition()
Enter(t) ==
  /\ Goto(t, "begun", "enter")
  /\ lock = Nil
  /\ references' = references + 1
  /\ UNCHANGED <<generation, clauseVars, lock, number, erased, dirty, goal, cl, garbage, walkVars>>

\* firstClause(): a predicate that has no clauses left fails at once, even
\* when erased ones are still in its chain.
FirstClause(t) ==
  /\ pc[t] = "enter"
  /\ \/ number = 0 /\ Goto(t, "enter", "fail") /\ chp' = [chp EXCEPT ![t] = Nil]
     \/ number # 0 /\ Goto(t, "enter", "scan") /\ chp' = [chp EXCEPT ![t] = First(linked)]
  /\ kept' = [kept EXCEPT ![t] = @ \ gone]
  /\ UNCHANGED <<generation, clauseVars, lock, defVars, goal, cl, garbage, frame, seen>>

\* nextClause() looks at one clause of the chain.
NextClause(t) ==
  LET c == chp[t] IN
  /\ c # Nil
  /\ chp' = [chp EXCEPT ![t] = After(c)]
  /\ \/ /\ Visible(c, frame[t])
        /\ Goto(t, "scan", IF goal[t] = "retract" THEN "retract" ELSE "run")
        /\ cl' = [cl EXCEPT ![t] = c]
        /\ seen' = [seen EXCEPT ![t] = @ \cup {c}]
     \/ /\ ~Visible(c, frame[t])
        /\ pc[t] = "scan"
        /\ UNCHANGED <<pc, cl, seen>>
  /\ UNCHANGED <<generation, clauseVars, lock, defVars, goal, garbage, frame, kept>>

NoMoreClauses(t) ==
  /\ Goto(t, "scan", "fail")
  /\ chp[t] = Nil
  /\ cl' = [cl EXCEPT ![t] = Nil]
  /\ UNCHANGED <<generation, clauseVars, lock, defVars, goal, garbage, walkVars>>

\* The clause fails, or is backtracked into.
Redo(t) ==
  /\ Goto(t, "run", "scan")
  /\ UNCHANGED <<generation, clauseVars, lock, defVars, goal, cl, garbage, walkVars>>

\* The frame is no more: nothing of it is looked at again.
Forget(t) ==
  /\ goal' = [goal EXCEPT ![t] = "call"]
  /\ frame' = [frame EXCEPT ![t] = 0]
  /\ kept' = [kept EXCEPT ![t] = {}]
  /\ seen' = [seen EXCEPT ![t] = {}]

\* leaveDefinition(): the frame exits for good, is cut or has failed.  When
\* it is the last one it cleans the chain and frees what it unlinked after
\* it gave the mutex back.
Leave(t) ==
  LET last == references = 1 /\ dirty
      out  == IF last THEN linked \cap gone ELSE {}
  IN
  /\ pc[t] \in {"run", "fail"}
  /\ pc' = [pc EXCEPT ![t] = IF out = {} THEN "idle" ELSE "free"]
  /\ lock = Nil
  /\ references' = references - 1
  /\ linked' = linked \ out
  /\ erased' = erased - Cardinality(out)
  /\ dirty' = (dirty /\ ~last)
  /\ garbage' = [garbage EXCEPT ![t] = out]
  /\ cl' = [cl EXCEPT ![t] = Nil]
  /\ chp' = [chp EXCEPT ![t] = Nil]
  /\ Forget(t)
  /\ UNCHANGED <<generation, rank, stamp, gone, freed, lock, number>>

Free(t) ==
  /\ Goto(t, "free", "idle")
  /\ freed' = freed \cup garbage[t]
  /\ garbage' = [garbage EXCEPT ![t] = {}]
  /\ rank' = [c \in Clause |-> IF c \in garbage[t] THEN 0 ELSE rank[c]]
  /\ stamp' = [c \in Clause |-> IF c \in garbage[t] THEN Unborn ELSE stamp[c]]
  /\ UNCHANGED <<generation, linked, gone, lock, defVars, goal, cl, walkVars>>
-----------------------------------------------------------------------------
\* erase/1 on a reference to a clause, which keeps the memory of the clause.
Erase(t, c) ==
  /\ Goto(t, "idle", "retract")
  /\ c \in linked \ gone
  /\ goal' = [goal EXCEPT ![t] = "erase"]
  /\ cl' = [cl EXCEPT ![t] = c]
  /\ UNCHANGED <<generation, clauseVars, lock, defVars, garbage, walkVars>>

\* retractClauseDefinition() returns to retract/1 or to the caller of erase/1.
Retracted(t, from) ==
  \/ /\ goal[t] = "retract" /\ Goto(t, from, "run") /\ UNCHANGED <<goal, cl>>
  \/ /\ goal[t] = "erase" /\ Goto(t, from, "idle")
     /\ goal' = [goal EXCEPT ![t] = "call"]
     /\ cl' = [cl EXCEPT ![t] = Nil]

\* Mutant: def->references is not looked at.
InUseByNumber == number > Many

InUse == references # 0 \/ number > Many

\* Mutant: the clause is erased a second time.
UnerasedUnchecked(t) == cl[t] # Nil

Unerased(t) == cl[t] \notin gone

\* A clause is added to those erased.
Dirtied == dirty \/ erased + 1 > (number - 1) \div Many

\* Mutant: retract/1 does not start a generation.
SameGeneration == generation

RetractGeneration == generation + 1

RetractGone(t) ==
  /\ Retracted(t, "retract")
  /\ lock = Nil
  /\ cl[t] \in gone
  /\ UNCHANGED <<generation, clauseVars, lock, defVars, garbage, walkVars>>

\* The clause stays for the frames that may still see it.
RetractMark(t) ==
  /\ Goto(t, "retract", "retracting")
  /\ lock = Nil /\ lock' = t
  /\ Unerased(t) /\ InUse
  /\ gone' = gone \cup {cl[t]}
  /\ number' = number - 1
  /\ erased' = erased + 1
  /\ dirty' = Dirtied
  /\ generation' = RetractGeneration
  /\ UNCHANGED <<linked, rank, stamp, freed, references, goal, cl, garbage, walkVars>>

RetractStamp(t) ==
  /\ Retracted(t, "retracting")
  /\ lock' = Nil
  /\ stamp' = [stamp EXCEPT ![cl[t]].erased = generation]
  /\ UNCHANGED <<generation, linked, rank, gone, freed, defVars, garbage, walkVars>>

\* Nobody is inside: unlinkClause() at once.
RetractUnlink(t) ==
  /\ Goto(t, "retract", "free")
  /\ lock = Nil
  /\ Unerased(t) /\ ~InUse
  /\ gone' = gone \cup {cl[t]}
  /\ linked' = linked \ {cl[t]}
  /\ number' = number - 1
  /\ garbage' = [garbage EXCEPT ![t] = {cl[t]}]
  /\ goal' = [goal EXCEPT ![t] = "call"]
  /\ cl' = [cl EXCEPT ![t] = Nil]
  /\ UNCHANGED <<generation, rank, stamp, freed, lock, references, erased, dirty, walkVars>>

Next ==
  \E t \in Thread :
    \/ \E c \in Clause : \/ \E where \in {"CL_START", "CL_END"} : AssertLink(t, c, where)
                         \/ Erase(t, c)
    \/ \E g \in {"call", "retract"} : Begin(t, g)
    \/ AssertStamp(t) \/ Enter(t) \/ FirstClause(t) \/ NextClause(t) \/ NoMoreClauses(t)
    \/ Redo(t) \/ Leave(t) \/ Free(t)
    \/ RetractGone(t) \/ RetractMark(t) \/ RetractStamp(t) \/ RetractUnlink(t)

Spec == Init /\ [][Next]_vars
-----------------------------------------------------------------------------
\* The variables have their types.
TypeOK ==
  /\ generation \in Nat
  /\ linked \subseteq Clause /\ gone \subseteq Clause /\ freed \subseteq Clause
  /\ rank \in [Clause -> Int]
  /\ stamp \in [Clause -> [created: Nat, erased: Nat]]
  /\ lock \in Thread \cup {Nil}
  /\ references \in Nat /\ number \in Int /\ erased \in Int /\ dirty \in BOOLEAN
  /\ pc \in [Thread -> Inside \cup {"idle", "begun", "asserting", "free"}]
  /\ goal \in [Thread -> {"call", "retract", "erase"}]
  /\ frame \in [Thread -> Nat]
  /\ cl \in [Thread -> Clause \cup {Nil}] /\ chp \in [Thread -> Clause \cup {Nil}]
  /\ garbage \in [Thread -> SUBSET Clause]
  /\ kept \in [Thread -> SUBSET Clause]
  /\ seen \in [Thread -> SUBSET Clause]

\* Whom references counts: erase/1 retracts without entering.
Within(t) == pc[t] \in Inside /\ ~(pc[t] \in {"retract", "retracting"} /\ goal[t] = "erase")

\* A frame inside the predicate neither runs nor is about to look at a
\* clause whose memory was given back, or that somebody is about to give
\* back: retractClauseDefinition() and leaveDefinition() only unlink a clause
\* while references is zero.
NoFreedClauseWalked ==
  \A t \in Thread : Within(t) =>
    \A u \in Thread : {cl[t], chp[t]} \cap (freed \cup garbage[u]) = {}

\* A call that looks at all clauses is given each one that was alive when it
\* began and still when it began to search, whatever is asserted, retracted
\* and cleaned while it walks.
SearchedViewKept ==
  \A t \in Thread : pc[t] = "fail" => kept[t] \subseteq seen[t]

\* The counters of the definition are exact when nobody holds the mutex, so
\* that cleanDefinition() finds all it has to take out and its assertion that
\* none is left holds.
CountsExact ==
  lock = Nil => /\ number = Cardinality(linked \ gone)
                /\ erased = Cardinality(linked \cap gone)

\* Erased clauses wait for a later frame to clean them up, or are a small
\* part of the predicate.  They can outlive the clauses that made them a small
\* part: RetractUnlink lowers number and leaves NEEDSCLAUSEGC alone.
GarbageBounded ==
  lock = Nil => dirty \/ erased <= Cardinality(Clause) \div Many

=============================================================================
