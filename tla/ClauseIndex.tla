---------------------------- MODULE ClauseIndex ----------------------------
(***************************************************************************)
(* The hash table on the first argument of a dynamic predicate.  A goal    *)
(* that finds none may build it, a clause that is added or retracted goes  *)
(* into or out of it, and a table that is replaced or dropped waits among  *)
(* the old ones until nobody is inside the predicate.  A clause without a  *)
(* key, a variable, is in every bucket.                                    *)
(*                                                                         *)
(* LogicalUpdate has the generations and the walk without a lock; here a   *)
(* frame gets its view as it enters, and what is done under the mutex of   *)
(* the definition is one step.  Buckets hold clauses, not lists of         *)
(* clauses: hints->list is only set with O_DEEP_INDEX, which no build      *)
(* defines.                                                                *)
(***************************************************************************)
EXTENDS Integers, FiniteSets, Sequences, SequencesExt

CONSTANTS Clause, Key, Frame, Table,
          NoKey,        \* 0: a variable
          Nil,
          GoalKey,      \* the keys goals have
          KeyOf,        \* the key of the first argument of a clause
          Bucket, HashIndex,
          Start,        \* the clauses at the start
          Few,          \* 10: a predicate this small is scanned
          Many,         \* 16: above it a clause is never unlinked at once
          VarShare,     \* 10: keys that must stand against each variable
          MaxSearch,    \* 100: how far nextClause() looks for another match
          Unsigned,     \* 2^32
          Above(_),     \* 2n, n/4: the size of a table of n keys
          Below(_)      \*   above and below which it is dropped

ASSUME KeyAssumption == /\ NoKey \notin Key /\ GoalKey \subseteq Key /\ KeyOf \in [Clause -> Key \cup {NoKey}]
                        /\ HashIndex \in [Key -> Bucket]
ASSUME NilAssumption == Nil \notin Clause \cup Table
ASSUME FiniteAssumption == IsFiniteSet(Bucket)
ASSUME StartAssumption == Start \in Seq(Clause) /\ IsInjective(Start)
ASSUME NatAssumption ==
  {Few, VarShare} \subseteq Nat /\ {Many, MaxSearch, Unsigned} \subseteq Nat \ {0}

VARIABLES
  chain,    \* def->impl.clauses: first_clause, next, ... last_clause
  gone,     \* the clauses with CL_ERASED
  number,   \* number_of_clauses
  erased,   \* erased_clauses
  needsGC,  \* NEEDSCLAUSEGC
  table,    \* the tables
  index,    \* clause_indexes, at most one with one argument, or Nil
  old,      \* old_clause_indexes
  unused,   \* the tables not built yet: what bounds an instance
  pc, key,  \* of a frame: what it does and the key of its argument
  chp,      \* where it looks next: a table or Nil for the chain, and a clause
  view,     \* the clauses its generation sees
  kept,     \* history: those of them it must be given,
  got       \*   and what it was given

defVars   == <<chain, gone, number, erased, needsGC>>
indexVars == <<table, index, old, unused>>
frameVars == <<pc, key, chp, view, kept, got>>
vars == <<defVars, indexVars, frameVars>>

NoTable == [entries |-> [b \in Bucket |-> <<>>], dirty |-> [b \in Bucket |-> 0],
            dirtyBuckets |-> 0, size |-> 0, above |-> 0, below |-> 0]
Nowhere == [table |-> Nil, at |-> Nil]

Init ==
  /\ chain = Start /\ gone = {} /\ number = Len(Start) /\ erased = 0 /\ needsGC = FALSE
  /\ table = [i \in Table |-> NoTable] /\ index = Nil /\ old = {} /\ unused = Table
  /\ pc = [f \in Frame |-> "idle"] /\ key = [f \in Frame |-> NoKey]
  /\ chp = [f \in Frame |-> Nowhere]
  /\ view = [f \in Frame |-> {}]
  /\ kept = [f \in Frame |-> <<>>] /\ got = [f \in Frame |-> <<>>]

Referenced == \E f \in Frame : pc[f] # "idle"

Add(s, c, where) == IF where = "CL_START" THEN <<c>> \o s ELSE Append(s, c)
\* SelectSeq for the members of a set, in a form that can be reasoned about.
Only(s, S) ==
  LET f[n \in 0..Len(s)] == IF n = 0 THEN <<>>
                            ELSE IF s[n] \in S THEN Append(f[n - 1], s[n]) ELSE f[n - 1]
  IN f[Len(s)]
Without(s, S) == Only(s, Clause \ S)
First(s, S)   == SelectInSeq(s, LAMBDA c : c \in S)
\* The buckets a clause is in.
BucketsOf(c) == IF KeyOf[c] = NoKey THEN Bucket ELSE {HashIndex[KeyOf[c]]}
One(c) == IF KeyOf[c] = NoKey THEN 0 ELSE 1
Matches(c, k) == KeyOf[c] = NoKey \/ KeyOf[c] = k
-----------------------------------------------------------------------------
\* Mutant: a variable goes into the first bucket only.
AddVarOnce(x, c, where) ==
  LET b == CHOOSE b \in BucketsOf(c) : TRUE IN
  [x EXCEPT !.entries[b] = Add(@, c, where), !.size = @ + One(c)]

\* addClauseToIndex(), addClauseBucket()
AddClauseToIndex(x, c, where) ==
  [x EXCEPT !.entries = [b \in Bucket |-> IF b \in BucketsOf(c) THEN Add(@[b], c, where) ELSE @[b]],
            !.size = @ + One(c)]

\* delClauseFromIndex(), deleteClauseBucket().  Its assert(0) for a clause that
\* is not in the bucket is no step of its own: CheckDefinition and
\* BucketsFollowChain have every clause in its buckets.
DelClauseFromIndex(x, c) ==
  [x EXCEPT !.entries = [b \in Bucket |-> Without(@[b], {c})], !.size = @ - One(c)]

\* Mutant: the clause leaves its buckets at once.
DeleteFromBuckets(x, c) == DelClauseFromIndex(x, c)

\* deleteActiveClauseFromIndex()
DeleteActiveClauseFromIndex(x, c) ==
  [x EXCEPT !.dirty = [b \in Bucket |-> IF b \in BucketsOf(c) THEN @[b] + 1 ELSE @[b]],
            !.dirtyBuckets = @ + Cardinality({b \in BucketsOf(c) : x.dirty[b] = 0})]

\* gcClauseBucket() of each dirty bucket
GcBuckets(x) ==
  [x EXCEPT !.entries = [b \in Bucket |-> IF x.dirty[b] > 0 THEN Without(@[b], gone) ELSE @[b]],
            !.dirty = [b \in Bucket |-> 0],
            !.dirtyBuckets = 0,
            !.size = @ - Cardinality({c \in gone : \E b \in Bucket :
                           x.dirty[b] > 0 /\ KeyOf[c] # NoKey /\ Contains(x.entries[b], c)})]

\* size excludes the clauses that were erased when the table was built:
\* the unsigned difference may wrap.
TooSmall(x) == (x.size - erased) % Unsigned < x.below
TooBig(x)   == x.size >= x.above

\* Mutant: the table that is replaced does not wait for its readers.
ReplaceForget(i) == index' = i /\ UNCHANGED old

\* replaceIndex() with the table i, or with none
ReplaceIndex(i) == /\ index' = i
                   /\ old' = old \cup ({index} \ {Nil})

\* Update the table with Op, or drop it.
UpdateIndex(drop, new) ==
  /\ UNCHANGED unused
  /\ IF index = Nil THEN UNCHANGED <<table, index, old>>
     ELSE IF drop THEN ReplaceIndex(Nil) /\ UNCHANGED table
     ELSE table' = [table EXCEPT ![index] = new] /\ UNCHANGED <<index, old>>
-----------------------------------------------------------------------------
\* assertProcedure(), addClauseToIndexes()
AssertProcedure(c, where) ==
  /\ ~Contains(chain, c) /\ c \notin gone
  /\ chain' = Add(chain, c, where)
  /\ number' = number + 1
  /\ UpdateIndex(index # Nil /\ TooBig(table[index]), AddClauseToIndex(table[index], c, where))
  /\ UNCHANGED <<gone, erased, needsGC, frameVars>>

\* retractClauseDefinition(): the clause stays for the frames, or because the
\* chain is long.
RetractActive(c) ==
  /\ Contains(chain, c) /\ c \notin gone
  /\ Referenced \/ number > Many
  /\ gone' = gone \cup {c}
  /\ number' = number - 1
  /\ erased' = erased + 1
  /\ needsGC' = (needsGC \/ erased + 1 > (number - 1) \div Many)
  /\ UpdateIndex(index # Nil /\ TooSmall(table[index]), DeleteActiveClauseFromIndex(table[index], c))
  /\ UNCHANGED <<chain, frameVars>>

\* retractClauseDefinition(), unlinkClause()
RetractUnlink(c) ==
  /\ Contains(chain, c) /\ c \notin gone
  /\ ~(Referenced \/ number > Many)
  /\ gone' = gone \cup {c}
  /\ chain' = Without(chain, {c})
  /\ number' = number - 1
  /\ UpdateIndex(FALSE, DelClauseFromIndex(table[index], c))
  /\ UNCHANGED <<erased, needsGC, frameVars>>

\* A goal p(k). Without a key it looks at the whole chain, as in LogicalUpdate.
Enter(f, k) ==
  /\ pc[f] = "idle" /\ pc' = [pc EXCEPT ![f] = "enter"]
  /\ key' = [key EXCEPT ![f] = k]
  /\ view' = [view EXCEPT ![f] = ToSet(chain) \ gone]
  /\ UNCHANGED <<defVars, indexVars, chp, kept, got>>

\* bestHash() may find the table worth its space: only with two keys, and
\* enough of them for the variables.
BestHash ==
  LET live == ToSet(chain) \ gone
      keys == {KeyOf[c] : c \in live} \ {NoKey}
  IN Cardinality(keys) > 1 /\ VarShare * Cardinality({c \in live : KeyOf[c] = NoKey}) <= Cardinality(keys)

\* What the frame may be given.
Suits(f) == {c \in view[f] : Matches(c, key[f])}

\* The frame is to look from the head of the bucket, or of the chain.
Search(f, i, s) ==
  /\ pc' = [pc EXCEPT ![f] = "scan"]
  /\ chp' = [chp EXCEPT ![f] = [table |-> i, at |-> IF s = <<>> THEN Nil ELSE Head(s)]]
  /\ kept' = [kept EXCEPT ![f] = Only(chain, Suits(f) \ gone)]

\* firstClause()
FirstClause(f) ==
  /\ pc[f] = "enter"
  /\ \/ /\ index # Nil
        /\ Search(f, index, table[index].entries[HashIndex[key[f]]])
     \/ /\ index = Nil
        /\ \/ number = 0 /\ Search(f, Nil, <<>>)
           \/ number # 0 /\ Search(f, Nil, chain)
     \/ /\ index = Nil /\ number > Few /\ BestHash
        /\ Cardinality(unused) > Cardinality({g \in Frame : pc[g] = "hash"})
        /\ pc' = [pc EXCEPT ![f] = "hash"]
        /\ UNCHANGED <<chp, kept>>
  /\ UNCHANGED <<defVars, indexVars, key, view, got>>

Filled(s) ==
  LET f[n \in 0..Len(s)] == IF n = 0 THEN NoTable
                            ELSE AddClauseToIndex(f[n - 1], s[n], "CL_END")
  IN f[Len(s)]

\* Mutant: erased clauses go into the new table.
HashAll(i) ==
  LET x == Filled(chain)
  IN [x EXCEPT !.above = Above(x.size), !.below = Below(x.size)]

\* The table hashDefinition() builds.
Hashed(i) ==
  LET x == Filled(Without(chain, gone))
  IN [x EXCEPT !.above = Above(x.size), !.below = Below(x.size)]

\* hashDefinition(): the table of another frame is replaced.
HashDefinition(f, i) ==
  /\ pc[f] = "hash" /\ i \in unused
  /\ unused' = unused \ {i}
  /\ table' = [table EXCEPT ![i] = Hashed(i)]
  /\ ReplaceIndex(i)
  /\ Search(f, i, Hashed(i).entries[HashIndex[key[f]]])
  /\ UNCHANGED <<defVars, key, view, got>>

\* What the frame walks, and what of it is ahead.
Walked(f) == IF chp[f].table = Nil THEN chain ELSE table[chp[f].table].entries[HashIndex[key[f]]]
Ahead(f)  == LET i == First(Walked(f), {chp[f].at})
             IN IF i = 0 THEN <<>> ELSE SubSeq(Walked(f), i, Len(Walked(f)))

\* nextClause(), nextClauseArg1(), nextClauseFromBucket(): it moves on to the
\* next match, or gives up looking for it after MaxSearch clauses.
NextClause(f) ==
  LET s == Ahead(f)
      i == First(s, Suits(f))
      r == SubSeq(s, i + 1, Len(s))
      n == First(r, Suits(f))
      j == IF n # 0 /\ n <= MaxSearch THEN n ELSE MaxSearch
  IN
  /\ pc[f] = "scan" /\ i # 0
  /\ got' = [got EXCEPT ![f] = Append(@, s[i])]
  /\ chp' = [chp EXCEPT ![f].at = IF j <= Len(r) THEN r[j] ELSE Nil]
  /\ UNCHANGED <<defVars, indexVars, pc, key, view, kept>>

NoMoreClauses(f) ==
  /\ pc[f] = "scan"
  /\ First(Ahead(f), Suits(f)) = 0
  /\ pc' = [pc EXCEPT ![f] = "fail"]
  /\ UNCHANGED <<defVars, indexVars, key, chp, view, kept, got>>

Exit(f) ==
  /\ pc[f] \in {"scan", "fail"}
  /\ pc' = [pc EXCEPT ![f] = "idle"] /\ key' = [key EXCEPT ![f] = NoKey]
  /\ chp' = [chp EXCEPT ![f] = Nowhere] /\ view' = [view EXCEPT ![f] = {}]
  /\ kept' = [kept EXCEPT ![f] = <<>>] /\ got' = [got EXCEPT ![f] = <<>>]

\* leaveDefinition()
Leave(f) ==
  /\ Exit(f)
  /\ ~needsGC \/ \E g \in Frame \ {f} : pc[g] # "idle"
  /\ UNCHANGED <<defVars, indexVars>>

\* leaveDefinition(), cleanDefinition(): the last frame cleans the table and
\* the chain, and frees the old tables.
LeaveClean(f) ==
  /\ Exit(f)
  /\ needsGC /\ \A g \in Frame \ {f} : pc[g] = "idle"
  /\ chain' = Without(chain, gone)
  /\ erased' = erased - Cardinality(ToSet(chain) \cap gone)
  /\ needsGC' = FALSE
  /\ LET drop == index # Nil /\ TooSmall(table[index])
         dead == old \cup IF drop THEN {index} ELSE {}
     IN /\ index' = IF drop THEN Nil ELSE index
        /\ old' = {}
        /\ table' = [i \in Table |-> IF i \in dead THEN NoTable
                                     ELSE IF i = index THEN GcBuckets(table[i]) ELSE table[i]]
  /\ UNCHANGED <<gone, number, unused>>

Next ==
  \/ \E c \in Clause : \/ \E where \in {"CL_START", "CL_END"} : AssertProcedure(c, where)
                       \/ RetractActive(c) \/ RetractUnlink(c)
  \/ \E f \in Frame : \/ \E k \in GoalKey : Enter(f, k)
                      \/ \E i \in Table : HashDefinition(f, i)
                      \/ FirstClause(f) \/ NextClause(f) \/ NoMoreClauses(f)
                      \/ Leave(f) \/ LeaveClean(f)

Spec == Init /\ [][Next]_vars
-----------------------------------------------------------------------------
\* checkDefinition() of the debugging build: the counters of the chain, of the
\* table and of its buckets are exact, after every operation.
CheckDefinition ==
  /\ number = Cardinality(ToSet(chain) \ gone)
  /\ erased = Cardinality(ToSet(chain) \cap gone)
  /\ index # Nil =>
       LET x == table[index]
           Dirty(b) == Cardinality(ToSet(x.entries[b]) \cap gone)
       IN /\ \A b \in Bucket : x.dirty[b] = Dirty(b)
          /\ x.dirtyBuckets = Cardinality({b \in Bucket : Dirty(b) > 0})
          /\ x.size = Cardinality({c \in Clause : KeyOf[c] # NoKey /\
                                     \E b \in Bucket : Contains(x.entries[b], c)})

\* The bucket of a key lists the clauses that match it in the order of the
\* chain, so that a goal gets the same answers with the table as without.
BucketsFollowChain ==
  index # Nil => \A k \in Key :
    LET Live(s) == Only(s, {c \in Clause \ gone : Matches(c, k)})
    IN Live(table[index].entries[HashIndex[k]]) = Live(chain)

\* The table a frame walks exists, even after it was replaced, and the
\* clause it looks at next is still in it.
WalkedTableLives ==
  \A f \in Frame : pc[f] = "scan" =>
    /\ chp[f].table # Nil => chp[f].table \in old \cup {index}
    /\ chp[f].at # Nil => Len(Ahead(f)) > 0 /\ Head(Ahead(f)) = chp[f].at

\* A frame that looked at all is given each clause it must be given, in the
\* order of the chain, whatever became of the table meanwhile.
ViewServed ==
  \A f \in Frame : pc[f] = "fail" =>
    Only(got[f], ToSet(kept[f])) = kept[f]
=============================================================================
