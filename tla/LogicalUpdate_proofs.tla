------------------------ MODULE LogicalUpdate_proofs ------------------------
(***************************************************************************)
(* Proofs about LogicalUpdate, for any threads, any clauses, any order in  *)
(* the chain and any contents of memory that was just allocated.           *)
(***************************************************************************)
EXTENDS LogicalUpdate, FiniteSetTheorems, TLAPS

(* The threads that references counts. *)
WithinSet == {t \in Thread : Within(t)}

Counted == references = Cardinality(WithinSet)

(* What a thread points to was linked once, and a thread outside points to *)
(* nothing that it walks.                                                  *)
Known ==
  \A t \in Thread :
    /\ {cl[t], chp[t]} \subseteq linked \cup gone \cup {Nil}
    /\ ~Within(t) => chp[t] = Nil
    /\ pc[t] \in {"idle", "begun", "free"} => cl[t] = Nil
    /\ pc[t] \in {"retract", "retracting", "asserting"} => cl[t] \in Clause

(* Memory that was given back, or is about to be, is out of the chain. *)
Outside ==
  /\ freed \subseteq gone \ linked
  /\ \A t \in Thread : garbage[t] \subseteq gone \ linked

Exact == /\ number = Cardinality(linked \ gone)
         /\ erased = Cardinality(linked \cap gone)

IInv == TypeOK /\ Counted /\ Known /\ Outside /\ Exact /\ NoFreedClauseWalked

USE NilAssumption, FiniteAssumption, OldAssumption, NatAssumption
-----------------------------------------------------------------------------
(* A finite set that is not empty has an element of least rank: the sets of *)
(* elements below each one are well-founded by inclusion.                   *)
LEMMA LeastRank ==
  ASSUME NEW S, IsFiniteSet(S), S # {}, NEW f, \A c \in S : f[c] \in Int
  PROVE  \E c \in S : \A d \in S : f[c] <= f[d]
  <1> DEFINE Lower(c) == {d \in S : f[d] < f[c]}
             L == {Lower(c) : c \in S}
  <1>1. IsWellFoundedOn(StrictSubsetOrdering(S), SUBSET S)
    BY FS_StrictSubsetOrderingWellFounded, FS_FiniteSubsetsOfFinite
  <1>2. L \subseteq SUBSET S /\ L # {}
    <2>1. \A c \in S : Lower(c) \in SUBSET S
      OBVIOUS
    <2>2. PICK c \in S : TRUE
      OBVIOUS
    <2>3. Lower(c) \in L
      OBVIOUS
    <2> HIDE DEF Lower
    <2> QED BY <2>1, <2>3
  <1>3. PICK x \in L : \A y \in L : ~ (<<y, x>> \in StrictSubsetOrdering(S))
    <2> HIDE DEF L
    <2> QED BY <1>1, <1>2, WFMin
  <1>4. PICK c \in S : x = Lower(c)
    BY <1>3
  <1>5. ASSUME NEW d \in S, f[d] < f[c]
        PROVE  FALSE
    <2>1. Lower(d) \subseteq Lower(c) /\ d \in Lower(c) /\ d \notin Lower(d)
      BY <1>5
    <2>2. Lower(d) \in SUBSET S /\ Lower(c) \in SUBSET S /\ Lower(d) # Lower(c)
      BY <2>1
    <2>3. <<Lower(d), Lower(c)>> \in StrictSubsetOrdering(S)
      <3> HIDE DEF Lower
      <3> QED BY <2>1, <2>2 DEF StrictSubsetOrdering
    <2> QED BY <1>3, <1>4, <2>3
  <1> QED BY <1>5

LEMMA GreatestRank ==
  ASSUME NEW S, IsFiniteSet(S), S # {}, NEW f, \A c \in S : f[c] \in Int
  PROVE  \E c \in S : \A d \in S : f[d] <= f[c]
  <1> DEFINE g == [c \in S |-> 0 - f[c]]
  <1>1. \A c \in S : g[c] \in Int
    OBVIOUS
  <1>2. PICK c \in S : \A d \in S : g[c] <= g[d]
    <2> HIDE DEF g
    <2> QED BY <1>1, LeastRank
  <1> QED BY <1>2

(* The first of some clauses is one of them. *)
LEMMA FirstIsOne ==
  ASSUME TypeOK, NEW S \in SUBSET Clause
  PROVE  /\ S = {} => First(S) = Nil
         /\ S # {} => First(S) \in S /\ \A d \in S : rank[First(S)] <= rank[d]
  <1> SUFFICES ASSUME S # {}
               PROVE  First(S) \in S /\ \A d \in S : rank[First(S)] <= rank[d]
    BY DEF First
  <1>1. IsFiniteSet(S) /\ \A c \in S : rank[c] \in Int
    BY FS_Subset DEF TypeOK
  <1>2. \E c \in S : \A d \in S : rank[c] <= rank[d]
    BY <1>1, LeastRank
  <1> QED BY <1>2 DEF First

LEMMA EndRankType ==
  ASSUME TypeOK, NEW where
  PROVE  EndRank(where) \in Int
  <1>1. CASE linked = {}
    BY <1>1 DEF EndRank
  <1>2. CASE linked # {} /\ where = "CL_START"
    BY <1>2, FirstIsOne DEF EndRank, TypeOK
  <1>3. CASE linked # {} /\ where # "CL_START"
    <2>1. IsFiniteSet(linked) /\ \A c \in linked : rank[c] \in Int
      BY FS_Subset DEF TypeOK
    <2>2. \E c \in linked : \A d \in linked : rank[d] <= rank[c]
      BY <1>3, <2>1, GreatestRank
    <2>3. rank[CHOOSE c \in linked : \A d \in linked : rank[d] <= rank[c]] \in Int
      BY <2>1, <2>2
    <2> QED BY <1>3, <2>3 DEF EndRank
  <1> QED BY <1>1, <1>2, <1>3

LEMMA Finite ==
  ASSUME TypeOK
  PROVE  /\ IsFiniteSet(WithinSet) /\ IsFiniteSet(linked) /\ IsFiniteSet(gone)
         /\ IsFiniteSet(linked \ gone) /\ IsFiniteSet(linked \cap gone)
  <1>1. /\ WithinSet \in SUBSET Thread /\ linked \in SUBSET Clause /\ gone \in SUBSET Clause
        /\ linked \ gone \in SUBSET Clause /\ linked \cap gone \in SUBSET Clause
    BY DEF WithinSet, TypeOK
  <1> QED BY <1>1, FS_Subset

LEMMA InitIInv == Init => IInv
  <1> SUFFICES ASSUME Init PROVE IInv
    OBVIOUS
  <1>1. Cardinality(Old) \in Nat /\ IsFiniteSet(Old)
    BY FS_Subset, FS_CardinalityType
  <1>2. TypeOK
    <2>1. rank \in [Clause -> Int]
      BY DEF Init
    <2>2. stamp \in [Clause -> [created: Nat, erased: Nat]]
      BY DEF Init, Unborn
    <2>3. /\ pc \in [Thread -> Inside \cup {"idle", "begun", "asserting", "free"}]
          /\ goal \in [Thread -> {"call", "retract", "erase"}]
          /\ cl \in [Thread -> Clause \cup {Nil}] /\ chp \in [Thread -> Clause \cup {Nil}]
      BY DEF Init
    <2>4. /\ frame \in [Thread -> Nat]
          /\ garbage \in [Thread -> SUBSET Clause]
          /\ kept \in [Thread -> SUBSET Clause] /\ seen \in [Thread -> SUBSET Clause]
      BY DEF Init
    <2>5. generation \in Nat /\ references \in Nat /\ number \in Int /\ erased \in Int
      BY <1>1 DEF Init
    <2>6. /\ dirty \in BOOLEAN /\ lock \in Thread \cup {Nil}
          /\ linked \subseteq Clause /\ gone \subseteq Clause /\ freed \subseteq Clause
      BY DEF Init
    <2> QED BY <2>1, <2>2, <2>3, <2>4, <2>5, <2>6 DEF TypeOK
  <1>3. WithinSet = {}
    BY DEF Init, WithinSet, Within, Inside
  <1>4. Counted
    BY <1>3, FS_EmptySet DEF Init, Counted
  <1>5. Known
    BY DEF Init, Known
  <1>6. Outside
    BY DEF Init, Outside
  <1>7. Exact
    <2>1. linked \ gone = Old /\ linked \cap gone = {}
      BY DEF Init
    <2> QED BY <2>1, FS_EmptySet DEF Init, Exact
  <1>8. NoFreedClauseWalked
    BY DEF Init, NoFreedClauseWalked, Within, Inside
  <1> QED BY <1>2, <1>4, <1>5, <1>6, <1>7, <1>8 DEF IInv
-----------------------------------------------------------------------------
(* A step of thread t. *)
Step(t) ==
  \/ \E c \in Clause : \/ \E where \in {"CL_START", "CL_END"} : AssertLink(t, c, where)
                       \/ Erase(t, c)
  \/ \E g \in {"call", "retract"} : Begin(t, g)
  \/ AssertStamp(t) \/ Enter(t) \/ FirstClause(t) \/ NextClause(t) \/ NoMoreClauses(t)
  \/ Redo(t) \/ Leave(t) \/ Free(t)
  \/ RetractGone(t) \/ RetractMark(t) \/ RetractStamp(t) \/ RetractUnlink(t)

(* Only one frame is inside while references is one, and none while it is  *)
(* zero.                                                                   *)
LEMMA Alone ==
  ASSUME TypeOK, Counted
  PROVE  /\ references = 0 => \A u \in Thread : ~Within(u)
         /\ references = 1 => \A t, u \in Thread : Within(t) /\ Within(u) => t = u
  <1>1. IsFiniteSet(WithinSet)
    BY Finite
  <1>2. references = 0 => WithinSet = {}
    BY <1>1, FS_EmptySet DEF Counted
  <1>3. references = 1 => \E x : WithinSet = {x}
    BY <1>1, FS_Singleton DEF Counted
  <1> QED BY <1>2, <1>3 DEF WithinSet

(* Who is inside changes with enterDefinition() and leaveDefinition() only. *)
LEMMA CountedPreserved ==
  ASSUME TypeOK, Counted, Known, NEW t \in Thread, Step(t)
  PROVE  Counted' /\ references' \in Nat
  <1>0. IsFiniteSet(WithinSet) /\ Cardinality(WithinSet) \in Nat
    BY Finite, FS_CardinalityType
  <1>a. ASSUME references' = references, \A u \in Thread : Within(u)' <=> Within(u)
        PROVE  Counted' /\ references' \in Nat
    <2>1. WithinSet' = WithinSet
      BY <1>a DEF WithinSet
    <2> QED BY <1>a, <2>1 DEF Counted, TypeOK
  <1>1. ASSUME NEW c \in Clause, NEW where, AssertLink(t, c, where)
        PROVE  Counted' /\ references' \in Nat
    BY <1>a, <1>1 DEF AssertLink, Goto, Within, Inside, TypeOK
  <1>2. ASSUME NEW c \in Clause, Erase(t, c)
        PROVE  Counted' /\ references' \in Nat
    BY <1>a, <1>2 DEF Erase, Goto, Within, Inside, TypeOK, defVars
  <1>3. ASSUME NEW g, Begin(t, g)
        PROVE  Counted' /\ references' \in Nat
    BY <1>a, <1>3 DEF Begin, Goto, Within, Inside, TypeOK, defVars
  <1>4. CASE Enter(t)
    <2>1. /\ t \notin WithinSet /\ WithinSet' = WithinSet \cup {t}
          /\ references' = references + 1
      BY <1>4 DEF Enter, Goto, WithinSet, Within, Inside, TypeOK
    <2>2. Cardinality(WithinSet') = Cardinality(WithinSet) + 1
      BY <1>0, <2>1, FS_AddElement
    <2> QED BY <1>0, <2>1, <2>2 DEF Counted
  <1>5. CASE Leave(t)
    <2>1. /\ t \in WithinSet /\ WithinSet' = WithinSet \ {t}
          /\ references' = references - 1
      BY <1>5 DEF Leave, Forget, WithinSet, Within, Inside, TypeOK
    <2>2. IsFiniteSet(WithinSet') /\ Cardinality(WithinSet') = Cardinality(WithinSet) - 1
      BY <1>0, <2>1, FS_RemoveElement
    <2> QED BY <1>0, <2>1, <2>2, FS_CardinalityType DEF Counted
  <1>6. CASE AssertStamp(t) \/ FirstClause(t) \/ NextClause(t) \/ NoMoreClauses(t)
                            \/ Redo(t) \/ Free(t)
    BY <1>a, <1>6 DEF AssertStamp, FirstClause, NextClause, NoMoreClauses, Redo, Free,
                      Goto, Within, Inside, TypeOK, defVars
  <1>7. CASE RetractGone(t) \/ RetractMark(t) \/ RetractStamp(t)
    BY <1>a, <1>7 DEF RetractGone, RetractMark, RetractStamp, Retracted,
                      Goto, Within, Inside, TypeOK, defVars
  <1>8. CASE RetractUnlink(t)
    <2>1. references = 0
      BY <1>8 DEF RetractUnlink, InUse
    <2>2. ~Within(t)
      BY <2>1, Alone
    <2> QED BY <1>a, <1>8, <2>2 DEF RetractUnlink, Goto, Within, Inside, TypeOK
  <1> QED BY <1>1, <1>2, <1>3, <1>4, <1>5, <1>6, <1>7, <1>8 DEF Step

LEMMA TypePreserved ==
  ASSUME TypeOK, Counted, Known, NEW t \in Thread, Step(t)
  PROVE  TypeOK'
  <1>0. references' \in Nat
    BY CountedPreserved
  <1>1. ASSUME NEW c \in Clause, NEW where, AssertLink(t, c, where)
        PROVE  TypeOK'
    <2>1. EndRank(where) \in Int
      BY EndRankType
    <2>2. rank' \in [Clause -> Int]
      BY <1>1, <2>1 DEF AssertLink, TypeOK
    <2>3. stamp' \in [Clause -> [created: Nat, erased: Nat]]
      BY <1>1 DEF AssertLink, TypeOK
    <2>4. /\ generation' \in Nat /\ number' \in Int /\ lock' \in Thread \cup {Nil}
          /\ linked' \subseteq Clause
      BY <1>1 DEF AssertLink, TypeOK
    <2>5. /\ pc' \in [Thread -> Inside \cup {"idle", "begun", "asserting", "free"}]
          /\ cl' \in [Thread -> Clause \cup {Nil}]
      BY <1>1 DEF AssertLink, Goto, TypeOK
    <2> QED BY <1>0, <1>1, <2>2, <2>3, <2>4, <2>5 DEF AssertLink, TypeOK, walkVars
  <1>2. ASSUME NEW c \in Clause, Erase(t, c)
        PROVE  TypeOK'
    BY <1>0, <1>2 DEF Erase, Goto, Inside, TypeOK, clauseVars, defVars, walkVars
  <1>3. ASSUME NEW g \in {"call", "retract"}, Begin(t, g)
        PROVE  TypeOK'
    <2>1. kept' \in [Thread -> SUBSET Clause] /\ seen' \in [Thread -> SUBSET Clause]
      BY <1>3 DEF Begin, Alive, TypeOK
    <2>2. frame' \in [Thread -> Nat] /\ goal' \in [Thread -> {"call", "retract", "erase"}]
      BY <1>3 DEF Begin, TypeOK
    <2> QED BY <1>0, <1>3, <2>1, <2>2 DEF Begin, Goto, Inside, TypeOK, clauseVars, defVars
  <1>4. CASE AssertStamp(t)
    <2>1. stamp' \in [Clause -> [created: Nat, erased: Nat]]
      BY <1>4 DEF AssertStamp, TypeOK
    <2> QED BY <1>0, <1>4, <2>1 DEF AssertStamp, Goto, Inside, TypeOK, defVars, walkVars
  <1>5. CASE Enter(t)
    BY <1>0, <1>5 DEF Enter, Goto, Inside, TypeOK, clauseVars, walkVars
  <1>6. CASE FirstClause(t)
    <2>1. chp' \in [Thread -> Clause \cup {Nil}]
      BY <1>6, FirstIsOne DEF FirstClause, TypeOK
    <2>2. kept' \in [Thread -> SUBSET Clause]
      BY <1>6 DEF FirstClause, TypeOK
    <2> QED BY <1>0, <1>6, <2>1, <2>2 DEF FirstClause, Goto, Inside, TypeOK, clauseVars, defVars
  <1>7. CASE NextClause(t)
    <2>1. After(chp[t]) \in Clause \cup {Nil}
      BY FirstIsOne DEF After, TypeOK
    <2>2. /\ chp' \in [Thread -> Clause \cup {Nil}] /\ cl' \in [Thread -> Clause \cup {Nil}]
          /\ seen' \in [Thread -> SUBSET Clause]
      <3>1. chp[t] \in Clause
        BY <1>7 DEF NextClause, TypeOK
      <3>2. chp' = [chp EXCEPT ![t] = After(chp[t])]
        BY <1>7 DEF NextClause
      <3>3. /\ cl' = cl \/ cl' = [cl EXCEPT ![t] = chp[t]]
            /\ seen' = seen \/ seen' = [seen EXCEPT ![t] = @ \cup {chp[t]}]
        BY <1>7 DEF NextClause
      <3>4. chp' \in [Thread -> Clause \cup {Nil}]
        <4> HIDE DEF After
        <4> QED BY <2>1, <3>2 DEF TypeOK
      <3>5. cl' \in [Thread -> Clause \cup {Nil}]
        BY <3>1, <3>3 DEF TypeOK
      <3>6. seen' \in [Thread -> SUBSET Clause]
        <4>1. seen \in [Thread -> SUBSET Clause] /\ seen[t] \cup {chp[t]} \in SUBSET Clause
          BY <3>1 DEF TypeOK
        <4> QED BY <3>3, <4>1
      <3> QED BY <3>4, <3>5, <3>6
    <2>3. pc' \in [Thread -> Inside \cup {"idle", "begun", "asserting", "free"}]
      BY <1>7 DEF NextClause, Goto, Inside, TypeOK
    <2> QED BY <1>0, <1>7, <2>2, <2>3 DEF NextClause, TypeOK, clauseVars, defVars
  <1>8. CASE NoMoreClauses(t) \/ Redo(t)
    BY <1>0, <1>8 DEF NoMoreClauses, Redo, Goto, Inside, TypeOK, clauseVars, defVars, walkVars
  <1>9. CASE Leave(t)
    <2>1. Cardinality(linked \cap gone) \in Nat
      BY Finite, FS_CardinalityType
    <2>2. erased' \in Int
      BY <1>9, <2>1, FS_EmptySet DEF Leave, TypeOK
    <2>3. /\ linked' \subseteq Clause /\ dirty' \in BOOLEAN
          /\ garbage' \in [Thread -> SUBSET Clause]
      BY <1>9 DEF Leave, TypeOK
    <2>4. pc' \in [Thread -> Inside \cup {"idle", "begun", "asserting", "free"}]
      BY <1>9 DEF Leave, TypeOK
    <2>5. /\ cl' \in [Thread -> Clause \cup {Nil}] /\ chp' \in [Thread -> Clause \cup {Nil}]
          /\ goal' \in [Thread -> {"call", "retract", "erase"}] /\ frame' \in [Thread -> Nat]
          /\ kept' \in [Thread -> SUBSET Clause] /\ seen' \in [Thread -> SUBSET Clause]
      BY <1>9 DEF Leave, Forget, TypeOK
    <2> QED BY <1>0, <1>9, <2>2, <2>3, <2>4, <2>5 DEF Leave, TypeOK
  <1>10. CASE Free(t)
    <2>1. stamp' \in [Clause -> [created: Nat, erased: Nat]]
      BY <1>10 DEF Free, Unborn, TypeOK
    <2>2. rank' \in [Clause -> Int]
      BY <1>10 DEF Free, TypeOK
    <2> QED BY <1>0, <1>10, <2>1, <2>2 DEF Free, Goto, TypeOK, defVars, walkVars
  <1>11. CASE RetractGone(t)
    BY <1>0, <1>11 DEF RetractGone, Retracted, Goto, Inside, TypeOK, clauseVars, defVars, walkVars
  <1>12. CASE RetractMark(t)
    <2>1. generation' \in Nat /\ number' \in Int /\ erased' \in Int
      BY <1>12 DEF RetractMark, RetractGeneration, TypeOK
    <2>2. dirty' \in BOOLEAN
      BY <1>12 DEF RetractMark, Dirtied, TypeOK
    <2>3. gone' \subseteq Clause
      BY <1>12 DEF RetractMark, Goto, Known, TypeOK
    <2> QED BY <1>0, <1>12, <2>1, <2>2, <2>3 DEF RetractMark, Goto, Inside, TypeOK, walkVars
  <1>13. CASE RetractStamp(t)
    <2>1. stamp' \in [Clause -> [created: Nat, erased: Nat]]
      <3>1. pc[t] = "retracting" /\ cl[t] \in Clause
        BY <1>13 DEF RetractStamp, Retracted, Goto, Known
      <3> QED BY <1>13, <3>1 DEF RetractStamp, TypeOK
    <2> QED BY <1>0, <1>13, <2>1 DEF RetractStamp, Retracted, Goto, Inside, TypeOK, defVars, walkVars
  <1>14. CASE RetractUnlink(t)
    <2>1. cl[t] \in Clause
      BY <1>14 DEF RetractUnlink, Goto, Known
    <2> QED BY <1>0, <1>14, <2>1 DEF RetractUnlink, Goto, Inside, TypeOK, walkVars
  <1> QED BY <1>1, <1>2, <1>3, <1>4, <1>5, <1>6, <1>7, <1>8, <1>9, <1>10, <1>11, <1>12,
             <1>13, <1>14 DEF Step

(* Clauses leave the chain only as erased ones. *)
LEMMA OutsidePreserved ==
  ASSUME TypeOK, Known, Outside, NEW t \in Thread, Step(t)
  PROVE  Outside' /\ linked \cup gone \subseteq linked' \cup gone'
  <1>1. ASSUME NEW c \in Clause, NEW where, AssertLink(t, c, where)
        PROVE  Outside' /\ linked \cup gone \subseteq linked' \cup gone'
    BY <1>1 DEF AssertLink, Outside
  <1>2. CASE \/ \E c \in Clause : Erase(t, c)
             \/ \E g \in {"call", "retract"} : Begin(t, g)
             \/ AssertStamp(t) \/ Enter(t) \/ FirstClause(t) \/ NextClause(t)
             \/ NoMoreClauses(t) \/ Redo(t) \/ RetractGone(t) \/ RetractStamp(t)
    <2>1. UNCHANGED <<linked, gone, freed, garbage>>
      BY <1>2 DEF Erase, Begin, AssertStamp, Enter, FirstClause, NextClause, NoMoreClauses,
                  Redo, RetractGone, RetractStamp, clauseVars
    <2> QED BY <2>1 DEF Outside
  <1>3. CASE Leave(t)
    <2>1. /\ linked' \subseteq linked /\ gone' = gone /\ freed' = freed
          /\ linked \subseteq linked' \cup gone
          /\ garbage' = [garbage EXCEPT ![t] = garbage'[t]]
          /\ garbage'[t] \subseteq gone \ linked'
      BY <1>3 DEF Leave, TypeOK
    <2> QED BY <2>1 DEF Outside, TypeOK
  <1>4. CASE Free(t)
    BY <1>4 DEF Free, Outside, TypeOK
  <1>5. CASE RetractMark(t)
    BY <1>5 DEF RetractMark, Goto, Unerased, Known, Outside, TypeOK
  <1>6. CASE RetractUnlink(t)
    BY <1>6 DEF RetractUnlink, Outside, TypeOK
  <1> QED BY <1>1, <1>2, <1>3, <1>4, <1>5, <1>6 DEF Step

(* A pointer of a thread leads into the chain, or to a clause that was     *)
(* taken out of it while references was zero.                              *)
LEMMA KnownPreserved ==
  ASSUME TypeOK, Counted, Known, Outside, NEW t \in Thread, Step(t)
  PROVE  Known'
  <1>0. linked \cup gone \subseteq linked' \cup gone'
    BY OutsidePreserved
  <1>a. ASSUME \A u \in Thread \ {t} : cl'[u] = cl[u] /\ chp'[u] = chp[u]
                                        /\ (Within(u)' <=> Within(u)) /\ pc'[u] = pc[u],
               {cl'[t], chp'[t]} \subseteq linked' \cup gone' \cup {Nil},
               ~Within(t)' => chp'[t] = Nil,
               pc'[t] \in {"idle", "begun", "free"} => cl'[t] = Nil,
               pc'[t] \in {"retract", "retracting", "asserting"} => cl'[t] \in Clause
        PROVE  Known'
    BY <1>0, <1>a DEF Known
  <1>1. ASSUME NEW c \in Clause, NEW where, AssertLink(t, c, where)
        PROVE  Known'
    BY <1>a, <1>1 DEF AssertLink, Goto, Known, Within, Inside, TypeOK, walkVars
  <1>2. ASSUME NEW c \in Clause, Erase(t, c)
        PROVE  Known'
    BY <1>a, <1>2 DEF Erase, Goto, Known, Within, Inside, TypeOK, walkVars, clauseVars
  <1>3. ASSUME NEW g \in {"call", "retract"}, Begin(t, g)
        PROVE  Known'
    BY <1>a, <1>3 DEF Begin, Goto, Known, Within, Inside, TypeOK, clauseVars
  <1>4. CASE AssertStamp(t) \/ Enter(t) \/ NoMoreClauses(t) \/ Redo(t)
    BY <1>a, <1>4 DEF AssertStamp, Enter, NoMoreClauses, Redo,
                      Goto, Known, Within, Inside, TypeOK, walkVars, clauseVars
  <1>5. CASE FirstClause(t)
    <2>1. First(linked) \in linked \cup {Nil}
      BY FirstIsOne DEF TypeOK
    <2> HIDE DEF First
    <2> QED BY <1>a, <1>5, <2>1 DEF FirstClause, Goto, Known, Within, Inside, TypeOK, clauseVars
  <1>6. CASE NextClause(t)
    <2>1. After(chp[t]) \in linked \cup {Nil}
      BY FirstIsOne DEF After, TypeOK
    <2>2. chp[t] \in Clause \cap (linked \cup gone)
      BY <1>6 DEF NextClause, Known, TypeOK
    <2>3. /\ chp' = [chp EXCEPT ![t] = After(chp[t])]
          /\ linked' = linked /\ gone' = gone /\ goal' = goal
          /\ pc[t] = "scan"
          /\ \/ cl' = cl /\ pc' = pc
             \/ /\ cl' = [cl EXCEPT ![t] = chp[t]]
                /\ \/ goal[t] = "retract" /\ pc' = [pc EXCEPT ![t] = "retract"]
                   \/ pc' = [pc EXCEPT ![t] = "run"]
      BY <1>6 DEF NextClause, Goto, clauseVars
    <2> HIDE DEF After
    <2> QED BY <1>a, <2>1, <2>2, <2>3 DEF Known, Within, Inside, TypeOK
  <1>7. CASE Leave(t)
    BY <1>0, <1>a, <1>7 DEF Leave, Forget, Known, Within, Inside, TypeOK
  <1>8. CASE Free(t)
    BY <1>a, <1>8 DEF Free, Goto, Known, Within, Inside, TypeOK, walkVars
  <1>9. CASE RetractGone(t) \/ RetractStamp(t)
    BY <1>a, <1>9 DEF RetractGone, RetractStamp, Retracted, Goto, Known, Within, Inside,
                      TypeOK, walkVars, clauseVars
  <1>10. CASE RetractMark(t)
    BY <1>0, <1>a, <1>10 DEF RetractMark, Goto, Known, Within, Inside, TypeOK, walkVars
  <1>11. CASE RetractUnlink(t)
    <2>1. ~Within(t)
      BY <1>11, Alone DEF RetractUnlink, InUse
    <2> QED BY <1>0, <1>a, <1>11, <2>1 DEF RetractUnlink, Goto, Known, Within, Inside, TypeOK, walkVars
  <1> QED BY <1>1, <1>2, <1>3, <1>4, <1>5, <1>6, <1>7, <1>8, <1>9, <1>10, <1>11 DEF Step

(* The counters follow the marks of the clauses in the chain. *)
LEMMA ExactPreserved ==
  ASSUME TypeOK, Known, Outside, Exact, NEW t \in Thread, Step(t)
  PROVE  Exact'
  <1>0. /\ IsFiniteSet(linked \ gone) /\ IsFiniteSet(linked \cap gone)
        /\ Cardinality(linked \ gone) \in Nat /\ Cardinality(linked \cap gone) \in Nat
    BY Finite, FS_CardinalityType
  <1>1. ASSUME NEW c \in Clause, NEW where, AssertLink(t, c, where)
        PROVE  Exact'
    <2>1. /\ c \notin linked \ gone /\ linked' \ gone' = (linked \ gone) \cup {c}
          /\ linked' \cap gone' = linked \cap gone
          /\ number' = number + 1 /\ erased' = erased
      BY <1>1 DEF AssertLink
    <2>2. Cardinality((linked \ gone) \cup {c}) = Cardinality(linked \ gone) + 1
      BY <1>0, <2>1, FS_AddElement
    <2> QED BY <2>1, <2>2 DEF Exact
  <1>2. CASE \/ \E c \in Clause : Erase(t, c)
             \/ \E g \in {"call", "retract"} : Begin(t, g)
             \/ AssertStamp(t) \/ Enter(t) \/ FirstClause(t) \/ NextClause(t)
             \/ NoMoreClauses(t) \/ Redo(t) \/ RetractGone(t) \/ RetractStamp(t) \/ Free(t)
    <2>1. UNCHANGED <<linked, gone, number, erased>>
      BY <1>2 DEF Erase, Begin, AssertStamp, Enter, FirstClause, NextClause, NoMoreClauses,
                  Redo, RetractGone, RetractStamp, Free, clauseVars, defVars
    <2> QED BY <2>1 DEF Exact
  <1>3. CASE Leave(t)
    <2> DEFINE last == references = 1 /\ dirty
    <2>1. gone' = gone /\ number' = number
      BY <1>3 DEF Leave
    <2>2. CASE last
      <3>1. linked' = linked \ gone /\ erased' = erased - Cardinality(linked \cap gone)
        BY <1>3, <2>2 DEF Leave
      <3>2. linked' \ gone' = linked \ gone /\ linked' \cap gone' = {}
        BY <2>1, <3>1
      <3>3. Cardinality(linked' \cap gone') = 0
        BY <3>2, FS_EmptySet
      <3>4. number' = Cardinality(linked' \ gone')
        BY <2>1, <3>2 DEF Exact
      <3>5. erased' = 0
        BY <1>0, <3>1 DEF Exact
      <3> QED BY <3>3, <3>4, <3>5 DEF Exact
    <2>3. CASE ~last
      <3>1. linked' = linked /\ erased' = erased - Cardinality({})
        BY <1>3, <2>3 DEF Leave
      <3> QED BY <1>0, <2>1, <3>1, FS_EmptySet DEF Exact
    <2> QED BY <2>2, <2>3
  <1>4. CASE RetractMark(t)
    <2>1. cl[t] \in linked \ gone
      <3>1. cl[t] \in linked \cup gone /\ cl[t] \in Clause /\ cl[t] \notin gone
        BY <1>4 DEF RetractMark, Goto, Unerased, Known
      <3> QED BY <3>1
    <2>2. /\ linked' \ gone' = (linked \ gone) \ {cl[t]}
          /\ linked' \cap gone' = (linked \cap gone) \cup {cl[t]}
          /\ number' = number - 1 /\ erased' = erased + 1
      BY <1>4, <2>1 DEF RetractMark
    <2>3. Cardinality((linked \ gone) \ {cl[t]}) = Cardinality(linked \ gone) - 1
      BY <1>0, <2>1, FS_RemoveElement
    <2>4. Cardinality((linked \cap gone) \cup {cl[t]}) = Cardinality(linked \cap gone) + 1
      BY <1>0, <2>1, FS_AddElement
    <2> QED BY <2>2, <2>3, <2>4 DEF Exact
  <1>5. CASE RetractUnlink(t)
    <2>1. cl[t] \in linked \ gone
      <3>1. cl[t] \in linked \cup gone /\ cl[t] \in Clause /\ cl[t] \notin gone
        BY <1>5 DEF RetractUnlink, Goto, Unerased, Known
      <3> QED BY <3>1
    <2>2. /\ linked' \ gone' = (linked \ gone) \ {cl[t]}
          /\ linked' \cap gone' = linked \cap gone
          /\ number' = number - 1 /\ erased' = erased
      BY <1>5, <2>1 DEF RetractUnlink
    <2>3. Cardinality((linked \ gone) \ {cl[t]}) = Cardinality(linked \ gone) - 1
      BY <1>0, <2>1, FS_RemoveElement
    <2> QED BY <2>2, <2>3 DEF Exact
  <1> QED BY <1>1, <1>2, <1>3, <1>4, <1>5 DEF Step

(* Memory is taken out of the chain only while references is zero, so no   *)
(* frame points to it; and a frame reaches nothing but the chain.          *)
LEMMA NoFreedClauseWalkedPreserved ==
  ASSUME TypeOK, Counted, Known, Outside, NoFreedClauseWalked, NEW t \in Thread, Step(t)
  PROVE  NoFreedClauseWalked'
  <1> DEFINE Lost == freed \cup UNION {garbage[u] : u \in Thread}
  <1>0. linked \cap Lost = {} /\ Nil \notin Lost
    BY DEF Outside, TypeOK
  <1>a. NoFreedClauseWalked <=> \A u \in Thread : Within(u) => {cl[u], chp[u]} \cap Lost = {}
    BY DEF NoFreedClauseWalked
  <1>b. NoFreedClauseWalked' <=>
          \A u \in Thread : Within(u)' => {cl'[u], chp'[u]} \cap Lost' = {}
    BY DEF NoFreedClauseWalked
  <1>c. ASSUME Lost' \subseteq Lost,
               \A u \in Thread \ {t} : cl'[u] = cl[u] /\ chp'[u] = chp[u]
                                       /\ (Within(u)' <=> Within(u)),
               Within(t)' => {cl'[t], chp'[t]} \cap Lost = {}
        PROVE  NoFreedClauseWalked'
    <2> HIDE DEF Lost
    <2> QED BY <1>a, <1>b, <1>c
  <1>d. ASSUME garbage' = garbage, freed' = freed
        PROVE  Lost' = Lost
    BY <1>d
  <1>e. Within(t) => {cl[t], chp[t]} \cap Lost = {}
    BY <1>a
  <1> HIDE DEF Lost
  <1>1. ASSUME NEW c \in Clause, NEW where, AssertLink(t, c, where)
        PROVE  NoFreedClauseWalked'
    BY <1>c, <1>d, <1>1 DEF AssertLink, Goto, Within, Inside, TypeOK, walkVars
  <1>2. ASSUME NEW c \in Clause, Erase(t, c)
        PROVE  NoFreedClauseWalked'
    BY <1>c, <1>d, <1>2 DEF Erase, Goto, Within, Inside, TypeOK, walkVars, clauseVars
  <1>3. ASSUME NEW g \in {"call", "retract"}, Begin(t, g)
        PROVE  NoFreedClauseWalked'
    BY <1>c, <1>d, <1>3 DEF Begin, Goto, Within, Inside, TypeOK, clauseVars
  <1>4. CASE AssertStamp(t)
    BY <1>c, <1>d, <1>4 DEF AssertStamp, Goto, Within, Inside, TypeOK, walkVars
  <1>5. CASE Enter(t)
    <2>1. cl[t] = Nil /\ chp[t] = Nil
      BY <1>5 DEF Enter, Goto, Known, Within, Inside
    <2> QED BY <1>0, <1>c, <1>d, <1>5, <2>1 DEF Enter, Goto, Within, Inside, TypeOK, walkVars, clauseVars
  <1>6. CASE FirstClause(t)
    <2>1. First(linked) \in linked \cup {Nil}
      BY FirstIsOne DEF TypeOK
    <2> HIDE DEF First
    <2> QED BY <1>0, <1>c, <1>d, <1>e, <1>6, <2>1
            DEF FirstClause, Goto, Within, Inside, TypeOK, clauseVars
  <1>7. CASE NextClause(t)
    <2>1. After(chp[t]) \in linked \cup {Nil}
      BY FirstIsOne DEF After, TypeOK
    <2>2. /\ garbage' = garbage /\ freed' = freed /\ goal' = goal
          /\ chp' = [chp EXCEPT ![t] = After(chp[t])]
          /\ pc[t] = "scan"
          /\ \/ cl' = cl /\ pc' = pc
             \/ /\ cl' = [cl EXCEPT ![t] = chp[t]]
                /\ \/ pc' = [pc EXCEPT ![t] = "retract"] \/ pc' = [pc EXCEPT ![t] = "run"]
      BY <1>7 DEF NextClause, Goto, clauseVars
    <2>3. Within(t)
      BY <2>2 DEF Within, Inside
    <2> HIDE DEF After
    <2> QED BY <1>0, <1>c, <1>d, <1>e, <2>1, <2>2, <2>3 DEF Within, Inside, TypeOK
  <1>8. CASE NoMoreClauses(t) \/ Redo(t)
    BY <1>0, <1>c, <1>d, <1>e, <1>8 DEF NoMoreClauses, Redo, Goto, Within, Inside, TypeOK,
                                       walkVars, clauseVars
  <1>9. CASE Leave(t)
    <2>1. CASE references = 1 /\ dirty
      <3>1. Within(t)
        BY <1>9 DEF Leave, Within, Inside
      <3>2. \A u \in Thread : Within(u)' => Within(u) /\ u # t
        BY <1>9 DEF Leave, Forget, Within, Inside, TypeOK
      <3>3. \A u \in Thread : ~Within(u)'
        BY <2>1, <3>1, <3>2, Alone
      <3> QED BY <1>b, <3>3
    <2>2. CASE ~(references = 1 /\ dirty)
      <3>1. freed' = freed /\ garbage' = [garbage EXCEPT ![t] = {}]
        BY <1>9, <2>2 DEF Leave
      <3>2. Lost' \subseteq Lost
        BY <3>1 DEF Lost, TypeOK
      <3> QED BY <1>c, <1>9, <3>2 DEF Leave, Forget, Within, Inside, TypeOK
    <2> QED BY <2>1, <2>2
  <1>10. CASE Free(t)
    <2>1. freed' = freed \cup garbage[t] /\ garbage' = [garbage EXCEPT ![t] = {}]
      BY <1>10 DEF Free
    <2>2. Lost' \subseteq Lost
      BY <2>1 DEF Lost, TypeOK
    <2> QED BY <1>c, <1>10, <2>2 DEF Free, Goto, Within, Inside, TypeOK, walkVars
  <1>11. CASE RetractGone(t) \/ RetractStamp(t)
    BY <1>0, <1>c, <1>d, <1>e, <1>11
       DEF RetractGone, RetractStamp, Retracted, Goto, Within, Inside, TypeOK, walkVars, clauseVars
  <1>12. CASE RetractMark(t)
    BY <1>0, <1>c, <1>d, <1>e, <1>12 DEF RetractMark, Goto, Within, Inside, TypeOK, walkVars
  <1>13. CASE RetractUnlink(t)
    <2>1. \A u \in Thread : ~Within(u)
      BY <1>13, Alone DEF RetractUnlink, InUse
    <2>2. \A u \in Thread : ~Within(u)'
      BY <1>13, <2>1 DEF RetractUnlink, Goto, Within, Inside, TypeOK
    <2> QED BY <1>b, <2>2
  <1> QED BY <1>1, <1>2, <1>3, <1>4, <1>5, <1>6, <1>7, <1>8, <1>9, <1>10, <1>11, <1>12, <1>13
          DEF Step
-----------------------------------------------------------------------------
LEMMA Invariance == Spec => []IInv
  <1>1. IInv /\ [Next]_vars => IInv'
    <2> SUFFICES ASSUME IInv, [Next]_vars
                 PROVE  IInv'
      OBVIOUS
    <2> USE DEF IInv
    <2>1. CASE UNCHANGED vars
      BY <2>1 DEF TypeOK, Counted, WithinSet, Known, Within, Outside, Exact,
                  NoFreedClauseWalked, vars, clauseVars, defVars, walkVars
    <2>2. CASE Next
      <3>1. PICK t \in Thread : Step(t)
        BY <2>2 DEF Next, Step
      <3> QED BY <3>1, TypePreserved, CountedPreserved, KnownPreserved, OutsidePreserved,
                 ExactPreserved, NoFreedClauseWalkedPreserved
    <2> QED BY <2>1, <2>2
  <1> QED BY InitIInv, <1>1, PTL DEF Spec

(* The variables always have their types: references never drops below     *)
(* zero, what is in the chain are clauses.                                 *)
THEOREM Types == Spec => []TypeOK
  <1>1. IInv => TypeOK
    BY DEF IInv
  <1> QED BY <1>1, Invariance, PTL

(* number_of_clauses and erased_clauses are what the chain holds, however   *)
(* asserts, retracts and clean-ups of several threads interleave.           *)
THEOREM CountsTrue == Spec => []CountsExact
  <1>1. IInv => CountsExact
    BY DEF IInv, Exact, CountsExact
  <1> QED BY <1>1, Invariance, PTL

(* No frame of any thread runs or looks at a clause whose memory was given  *)
(* back, although the chain is walked without a lock.                       *)
THEOREM NoFreedWalked == Spec => []NoFreedClauseWalked
  <1>1. IInv => NoFreedClauseWalked
    BY DEF IInv
  <1> QED BY <1>1, Invariance, PTL
-----------------------------------------------------------------------------
(* A quotient grows with the dividend. *)
LEMMA QuotientGrows ==
  ASSUME NEW a \in Int, NEW b \in Int, a <= b, NEW m \in Int, m > 0
  PROVE  a \div m <= b \div m
  OBVIOUS

(* Too many erased clauses mark the predicate for cleaning; those that do  *)
(* not are few, and stay so when others are unlinked.                      *)
Few == dirty \/ erased <= Cardinality(Clause) \div Many

LEMMA FewPreserved ==
  ASSUME TypeOK, Known, Exact, Few, NEW t \in Thread, Step(t)
  PROVE  Few'
  <1>0. /\ Cardinality(Clause) \in Nat /\ Cardinality(linked \ gone) \in Nat
        /\ Cardinality(linked \cap gone) \in Nat
        /\ Cardinality(linked \ gone) <= Cardinality(Clause)
    BY Finite, FS_CardinalityType, FS_Subset DEF TypeOK
  <1>1. Many \in Int /\ Many > 0 /\ Cardinality(Clause) \div Many \in Nat
    BY <1>0
  <1>2. CASE RetractMark(t)
    <2>1. number - 1 <= Cardinality(Clause) /\ number - 1 \in Int
      BY <1>0 DEF Exact
    <2>2. (number - 1) \div Many <= Cardinality(Clause) \div Many
      BY <1>0, <1>1, <2>1, QuotientGrows
    <2>3. (number - 1) \div Many \in Int
      BY <1>1, <2>1
    <2>4. erased' = erased + 1 /\ erased \in Int
          /\ (dirty' <=> dirty \/ erased + 1 > (number - 1) \div Many)
      BY <1>2 DEF RetractMark, Dirtied, TypeOK
    <2> QED BY <1>1, <2>2, <2>3, <2>4 DEF Few
  <1>3. CASE Leave(t)
    <2>1. CASE references = 1 /\ dirty
      <3>1. erased' = erased - Cardinality(linked \cap gone)
        BY <1>3, <2>1 DEF Leave
      <3>2. erased' = 0
        BY <1>0, <3>1 DEF Exact
      <3> QED BY <1>1, <3>2 DEF Few
    <2>2. CASE ~(references = 1 /\ dirty)
      <3>1. erased' = erased - Cardinality({}) /\ dirty' = dirty
        BY <1>3, <2>2 DEF Leave, TypeOK
      <3> QED BY <3>1, FS_EmptySet DEF Few, TypeOK
    <2> QED BY <2>1, <2>2
  <1>4. CASE ~RetractMark(t) /\ ~Leave(t)
    <2>1. erased' = erased /\ dirty' = dirty
      BY <1>4 DEF Step, AssertLink, Erase, Begin, AssertStamp, Enter, FirstClause, NextClause,
                  NoMoreClauses, Redo, RetractGone, RetractStamp, RetractUnlink, Free, defVars
    <2> QED BY <2>1 DEF Few
  <1> QED BY <1>2, <1>3, <1>4

(* Erased clauses that no later frame will clean up stay a small part of   *)
(* what the predicate can hold.                                            *)
THEOREM GarbageFew == Spec => []GarbageBounded
  <1>1. Init => Few
    <2>1. Cardinality(Clause) \in Nat /\ Many \in Int /\ Many > 0
      BY FS_CardinalityType
    <2>2. Cardinality(Clause) \div Many >= 0
      BY <2>1
    <2> QED BY <2>2 DEF Init, Few
  <1>2. IInv /\ Few /\ [Next]_vars => Few'
    <2> SUFFICES ASSUME IInv, Few, [Next]_vars
                 PROVE  Few'
      OBVIOUS
    <2> USE DEF IInv
    <2>1. CASE UNCHANGED vars
      BY <2>1 DEF Few, vars, defVars
    <2>2. CASE Next
      <3>1. PICK t \in Thread : Step(t)
        BY <2>2 DEF Next, Step
      <3> QED BY <3>1, FewPreserved
    <2> QED BY <2>1, <2>2
  <1>3. Few => GarbageBounded
    BY DEF Few, GarbageBounded
  <1> QED BY <1>1, <1>2, <1>3, Invariance, PTL DEF Spec

-----------------------------------------------------------------------------
(***************************************************************************)
(* Proof that a search of the predicate in LogicalUpdate is complete with  *)
(* respect to the logical update view.                                     *)
(***************************************************************************)

(* The clause that is being retracted has its mark before its stamp. *)
Marked == \A t \in Thread : pc[t] = "retracting" => cl[t] \in gone

(* Clauses of the chain are at different places. *)
Unique == \A c, d \in linked : rank[c] = rank[d] => c = d

(* A frame that has begun to search and has not reached the end. *)
Searching(u) == Within(u) /\ pc[u] \notin {"enter", "fail"}

(* What a frame has to see is at the clause it looks at next or behind it, *)
(* in the chain and visible at the frame's generation; when it is being    *)
(* retracted, the stamp to come is above that generation.                  *)
ViewOf(u) ==
  /\ kept[u] \subseteq linked \cup gone
  /\ frame[u] <= generation
  /\ \A t \in Thread : pc[t] = "asserting" => cl[t] \notin kept[u]
  /\ pc[u] \in {"begun", "enter"} => \A c \in kept[u] \ gone : Visible(c, frame[u])
  /\ Searching(u) =>
       /\ chp[u] \in linked \cup {Nil}
       /\ \A c \in kept[u] \ seen[u] :
            /\ c \in linked /\ Visible(c, frame[u])
            /\ chp[u] # Nil /\ rank[chp[u]] <= rank[c]
            /\ \A t \in Thread : pc[t] = "retracting" /\ cl[t] = c => frame[u] < generation
  /\ pc[u] = "fail" => kept[u] \subseteq seen[u]

View == Marked /\ Unique /\ \A u \in Thread : ViewOf(u)
-----------------------------------------------------------------------------
(* The place of an asserted clause is before or behind all others. *)
LEMMA EndRankNew ==
  ASSUME TypeOK, NEW where, NEW d \in linked
  PROVE  EndRank(where) # rank[d]
  <1>1. CASE where = "CL_START"
    <2>1. First(linked) \in linked /\ rank[First(linked)] <= rank[d]
      BY FirstIsOne DEF TypeOK
    <2>2. EndRank(where) = rank[First(linked)] - 1
      BY <1>1 DEF EndRank
    <2>3. rank[First(linked)] \in Int /\ rank[d] \in Int
      BY <2>1 DEF TypeOK
    <2> HIDE DEF First
    <2> QED BY <2>1, <2>2, <2>3
  <1>2. CASE where # "CL_START"
    <2>1. IsFiniteSet(linked) /\ \A c \in linked : rank[c] \in Int
      BY FS_Subset, FiniteAssumption DEF TypeOK
    <2>2. \E c \in linked : \A e \in linked : rank[e] <= rank[c]
      BY <2>1, GreatestRank
    <2> DEFINE last == CHOOSE c \in linked : \A e \in linked : rank[e] <= rank[c]
    <2>3. last \in linked /\ rank[d] <= rank[last]
      BY <2>2
    <2>4. EndRank(where) = rank[last] + 1
      BY <1>2 DEF EndRank
    <2> HIDE DEF last
    <2> QED BY <2>1, <2>3, <2>4
  <1> QED BY <1>1, <1>2

(* Only assert/1 gives a place, and only memory given back loses it. *)
LEMMA RankStays ==
  ASSUME TypeOK, Outside, Unique, NEW t \in Thread, Step(t)
  PROVE  Unique' /\ \A c \in linked : rank'[c] = rank[c]
  <1>1. ASSUME NEW c \in Clause, NEW where, AssertLink(t, c, where)
        PROVE  Unique' /\ \A d \in linked : rank'[d] = rank[d]
    <2>1. /\ c \notin linked /\ linked' = linked \cup {c}
          /\ rank' = [rank EXCEPT ![c] = EndRank(where)]
      BY <1>1 DEF AssertLink
    <2>2. \A d \in linked : EndRank(where) # rank[d]
      BY EndRankNew
    <2>3. /\ \A d \in linked : rank'[d] = rank[d]
          /\ rank'[c] = EndRank(where)
      BY <2>1 DEF TypeOK
    <2> QED BY <2>1, <2>2, <2>3 DEF Unique
  <1>2. CASE Free(t)
    <2>1. linked' = linked /\ \A d \in linked : rank'[d] = rank[d]
      BY <1>2 DEF Free, Outside, TypeOK
    <2> QED BY <2>1 DEF Unique
  <1>3. CASE \/ \E c \in Clause : Erase(t, c)
             \/ \E g \in {"call", "retract"} : Begin(t, g)
             \/ AssertStamp(t) \/ Enter(t) \/ FirstClause(t) \/ NextClause(t)
             \/ NoMoreClauses(t) \/ Redo(t) \/ RetractGone(t) \/ RetractStamp(t)
             \/ Leave(t) \/ RetractMark(t) \/ RetractUnlink(t)
    <2>1. rank' = rank /\ linked' \subseteq linked
      BY <1>3 DEF Erase, Begin, AssertStamp, Enter, FirstClause, NextClause, NoMoreClauses,
                  Redo, RetractGone, RetractStamp, Leave, RetractMark, RetractUnlink, clauseVars
    <2> QED BY <2>1 DEF Unique
  <1> QED BY <1>1, <1>2, <1>3 DEF Step

(* No clause leaves the chain while a frame is inside. *)
LEMMA ChainStays ==
  ASSUME TypeOK, Counted, NEW t \in Thread, Step(t), NEW u \in Thread, Within(u), Within(u)'
  PROVE  linked \subseteq linked'
  <1>1. CASE Leave(t)
    <2>1. Within(t) /\ ~Within(t)'
      BY <1>1 DEF Leave, Within, Inside, TypeOK
    <2>2. references # 1
      BY <2>1, Alone
    <2> QED BY <1>1, <2>2 DEF Leave
  <1>2. CASE RetractUnlink(t)
    BY <1>2, Alone DEF RetractUnlink, InUse
  <1>3. CASE \E c \in Clause, where \in {"CL_START", "CL_END"} : AssertLink(t, c, where)
    BY <1>3 DEF AssertLink
  <1>4. CASE \/ \E c \in Clause : Erase(t, c)
             \/ \E g \in {"call", "retract"} : Begin(t, g)
             \/ AssertStamp(t) \/ Enter(t) \/ FirstClause(t) \/ NextClause(t)
             \/ NoMoreClauses(t) \/ Redo(t) \/ RetractGone(t) \/ RetractStamp(t)
             \/ Free(t) \/ RetractMark(t)
    BY <1>4 DEF Erase, Begin, AssertStamp, Enter, FirstClause, NextClause, NoMoreClauses,
                Redo, RetractGone, RetractStamp, Free, RetractMark, clauseVars
  <1> QED BY <1>1, <1>2, <1>3, <1>4 DEF Step

(* A clause of the chain gets another stamp only from the thread that     *)
(* asserts it or retracts it.                                              *)
LEMMA StampStays ==
  ASSUME TypeOK, Known, Outside, NEW t \in Thread, Step(t), NEW c \in linked,
         ~(pc[t] = "asserting" /\ cl[t] = c)
  PROVE  \/ stamp'[c] = stamp[c]
         \/ /\ pc[t] = "retracting" /\ cl[t] = c
            /\ stamp'[c].created = stamp[c].created /\ stamp'[c].erased = generation
  <1>0. c \in Clause
    BY DEF TypeOK
  <1>1. ASSUME NEW d \in Clause, NEW where, AssertLink(t, d, where)
        PROVE  stamp'[c] = stamp[c]
    BY <1>0, <1>1 DEF AssertLink, TypeOK
  <1>2. CASE AssertStamp(t)
    BY <1>0, <1>2 DEF AssertStamp, Goto, TypeOK
  <1>3. CASE RetractStamp(t)
    <2>1. pc[t] = "retracting" /\ stamp' = [stamp EXCEPT ![cl[t]].erased = generation]
      BY <1>3 DEF RetractStamp, Retracted, Goto
    <2> QED BY <1>0, <2>1 DEF TypeOK
  <1>4. CASE Free(t)
    BY <1>0, <1>4 DEF Free, Outside, TypeOK
  <1>5. CASE \/ \E d \in Clause : Erase(t, d)
             \/ \E g \in {"call", "retract"} : Begin(t, g)
             \/ Enter(t) \/ FirstClause(t) \/ NextClause(t)
             \/ NoMoreClauses(t) \/ Redo(t) \/ RetractGone(t)
             \/ Leave(t) \/ RetractMark(t) \/ RetractUnlink(t)
    BY <1>5 DEF Erase, Begin, Enter, FirstClause, NextClause, NoMoreClauses,
                Redo, RetractGone, Leave, RetractMark, RetractUnlink, clauseVars
  <1> QED BY <1>1, <1>2, <1>3, <1>4, <1>5 DEF Step

(* Generations and marks only grow. *)
LEMMA Grows ==
  ASSUME TypeOK, NEW t \in Thread, Step(t)
  PROVE  /\ generation \in Nat /\ generation' \in Nat /\ generation <= generation'
         /\ gone \subseteq gone'
  BY DEF Step, AssertLink, Erase, Begin, AssertStamp, Enter, FirstClause, NextClause,
         NoMoreClauses, Redo, Leave, Free, RetractGone, RetractMark, RetractStamp,
         RetractUnlink, RetractGeneration, clauseVars, TypeOK

(* What a thread has of its own is changed by no other one. *)
LEMMA Own ==
  ASSUME TypeOK, NEW t \in Thread, Step(t), NEW u \in Thread, u # t
  PROVE  /\ pc'[u] = pc[u] /\ goal'[u] = goal[u] /\ cl'[u] = cl[u] /\ chp'[u] = chp[u]
         /\ frame'[u] = frame[u] /\ kept'[u] = kept[u] /\ seen'[u] = seen[u]
  <1>1. ASSUME NEW c \in Clause, NEW where, AssertLink(t, c, where) \/ Erase(t, c)
        PROVE  /\ pc'[u] = pc[u] /\ goal'[u] = goal[u] /\ cl'[u] = cl[u] /\ chp'[u] = chp[u]
               /\ frame'[u] = frame[u] /\ kept'[u] = kept[u] /\ seen'[u] = seen[u]
    BY <1>1 DEF AssertLink, Erase, Goto, walkVars, TypeOK
  <1>2. ASSUME NEW g \in {"call", "retract"}, Begin(t, g)
        PROVE  /\ pc'[u] = pc[u] /\ goal'[u] = goal[u] /\ cl'[u] = cl[u] /\ chp'[u] = chp[u]
               /\ frame'[u] = frame[u] /\ kept'[u] = kept[u] /\ seen'[u] = seen[u]
    BY <1>2 DEF Begin, Goto, TypeOK
  <1>3. CASE AssertStamp(t) \/ Enter(t) \/ NoMoreClauses(t) \/ Redo(t) \/ Free(t)
    BY <1>3 DEF AssertStamp, Enter, NoMoreClauses, Redo, Free, Goto, walkVars, TypeOK
  <1>4. CASE FirstClause(t)
    BY <1>4 DEF FirstClause, Goto, TypeOK
  <1>5. CASE NextClause(t)
    BY <1>5 DEF NextClause, Goto, TypeOK
  <1>6. CASE Leave(t)
    BY <1>6 DEF Leave, Forget, TypeOK
  <1>7. CASE RetractGone(t) \/ RetractMark(t) \/ RetractStamp(t) \/ RetractUnlink(t)
    BY <1>7 DEF RetractGone, RetractMark, RetractStamp, RetractUnlink, Retracted, Goto,
                walkVars, TypeOK
  <1> QED BY <1>1, <1>2, <1>3, <1>4, <1>5, <1>6, <1>7 DEF Step

LEMMA MarkedPreserved ==
  ASSUME TypeOK, Marked, NEW t \in Thread, Step(t)
  PROVE  Marked'
  <1>1. ASSUME pc'[t] = "retracting"
        PROVE  cl'[t] \in gone'
    <2>1. CASE RetractMark(t)
      BY <2>1 DEF RetractMark, TypeOK
    <2>2. CASE ~RetractMark(t)
      <3>1. pc[t] = "retracting" /\ cl'[t] = cl[t]
        BY <1>1, <2>2 DEF Step, AssertLink, Erase, Begin, AssertStamp, Enter, FirstClause,
             NextClause, NoMoreClauses, Redo, Leave, Free, RetractGone, RetractStamp, Retracted,
             RetractUnlink, Goto, Inside, TypeOK
      <3> QED BY <3>1, Grows DEF Marked
    <2> QED BY <2>1, <2>2
  <1> QED BY <1>1, Own, Grows DEF Marked
-----------------------------------------------------------------------------
(* What Visible(c, g) is in the next state, for a g that stays. *)
VisibleAfter(c, g) == stamp'[c].created <= g /\ stamp'[c].erased > g

(* What a step leaves of the view of the other frames. *)
LEMMA ViewOfOthers ==
  ASSUME TypeOK, Counted, Known, Outside, View, NEW t \in Thread, Step(t),
         NEW u \in Thread, u # t
  PROVE  ViewOf(u)'
  <1>0. ViewOf(u) /\ Marked
    BY DEF View
  <1>a. /\ pc'[u] = pc[u] /\ goal'[u] = goal[u] /\ chp'[u] = chp[u]
        /\ frame'[u] = frame[u] /\ kept'[u] = kept[u] /\ seen'[u] = seen[u]
    BY Own
  <1>b. Within(u)' <=> Within(u)
    BY <1>a DEF Within
  <1>c. /\ frame[u] \in Nat
        /\ \A c \in linked : stamp[c].created \in Nat /\ stamp[c].erased \in Nat
    BY DEF TypeOK
  <1>d. generation \in Nat /\ generation' \in Nat /\ generation <= generation' /\ gone \subseteq gone'
    BY Grows
  <1>e. pc'[t] = "asserting" => cl'[t] \notin kept[u]
    <2>1. CASE \E c \in Clause, where \in {"CL_START", "CL_END"} : AssertLink(t, c, where)
      BY <1>0, <2>1 DEF AssertLink, ViewOf, TypeOK
    <2>2. CASE ~(\E c \in Clause, where \in {"CL_START", "CL_END"} : AssertLink(t, c, where))
      BY <2>2 DEF Step, Erase, Begin, AssertStamp, Enter, FirstClause,
             NextClause, NoMoreClauses, Redo, Leave, Free, RetractGone, RetractMark, RetractStamp,
             Retracted, RetractUnlink, Goto, Inside, TypeOK
    <2> QED BY <2>1, <2>2
  <1>1. kept'[u] \subseteq linked' \cup gone'
    BY <1>0, <1>a, OutsidePreserved DEF ViewOf
  <1>2. frame'[u] <= generation'
    BY <1>0, <1>a, <1>c, <1>d DEF ViewOf
  <1>3. \A v \in Thread : pc'[v] = "asserting" => cl'[v] \notin kept'[u]
    <2> SUFFICES ASSUME NEW v \in Thread, v # t, pc'[v] = "asserting"
                 PROVE  cl'[v] \notin kept[u]
      BY <1>a, <1>e
    <2> QED BY <1>0, Own DEF ViewOf
  <1>4. pc'[u] \in {"begun", "enter"} => \A c \in kept'[u] \ gone' : VisibleAfter(c, frame'[u])
    <2> SUFFICES ASSUME pc[u] \in {"begun", "enter"}, NEW c \in kept[u], c \notin gone'
                 PROVE  VisibleAfter(c, frame[u])
      BY <1>a
    <2>1. c \notin gone /\ c \in linked /\ Visible(c, frame[u])
      BY <1>0, <1>d DEF ViewOf
    <2>2. ~(pc[t] = "asserting" /\ cl[t] = c) /\ ~(pc[t] = "retracting" /\ cl[t] = c)
      BY <1>0, <2>1 DEF ViewOf, Marked
    <2>3. stamp'[c] = stamp[c]
      BY <2>1, <2>2, StampStays
    <2> QED BY <1>a, <2>1, <2>3 DEF Visible, VisibleAfter
  <1>5. Searching(u)' => chp'[u] \in linked' \cup {Nil}
    BY <1>0, <1>a, <1>b, ChainStays DEF Searching, ViewOf
  <1>6. ASSUME Searching(u)', NEW c \in kept'[u] \ seen'[u]
        PROVE  /\ c \in linked' /\ VisibleAfter(c, frame'[u])
               /\ chp'[u] # Nil /\ rank'[chp'[u]] <= rank'[c]
               /\ \A v \in Thread : pc'[v] = "retracting" /\ cl'[v] = c => frame'[u] < generation'
    <2>0. Searching(u) /\ Within(u) /\ Within(u)'
      BY <1>6, <1>a, <1>b DEF Searching
    <2>1. /\ c \in linked /\ Visible(c, frame[u])
          /\ chp[u] # Nil /\ chp[u] \in linked /\ rank[chp[u]] <= rank[c]
          /\ \A v \in Thread : pc[v] = "retracting" /\ cl[v] = c => frame[u] < generation
      BY <1>0, <1>6, <1>a, <2>0 DEF ViewOf
    <2>2. ~(pc[t] = "asserting" /\ cl[t] = c)
      BY <1>0, <1>6, <1>a DEF ViewOf
    <2>3. \/ stamp'[c] = stamp[c]
          \/ /\ frame[u] < generation
             /\ stamp'[c].created = stamp[c].created /\ stamp'[c].erased = generation
      BY <2>1, <2>2, StampStays
    <2>4. VisibleAfter(c, frame'[u])
      BY <1>a, <1>c, <2>1, <2>3 DEF Visible, VisibleAfter
    <2>5. c \in linked' /\ rank'[chp[u]] = rank[chp[u]] /\ rank'[c] = rank[c]
      BY <2>0, <2>1, ChainStays, RankStays DEF View
    <2>6. ASSUME pc'[t] = "retracting", cl'[t] = c
          PROVE  frame[u] < generation'
      <3>1. CASE RetractMark(t)
        BY <1>0, <1>c, <1>d, <3>1 DEF RetractMark, RetractGeneration, ViewOf
      <3>2. CASE ~RetractMark(t)
        <4>1. pc[t] = "retracting" /\ cl'[t] = cl[t]
          BY <2>6, <3>2 DEF Step, AssertLink, Erase, Begin, AssertStamp, Enter, FirstClause,
             NextClause, NoMoreClauses, Redo, Leave, Free, RetractGone, RetractStamp, Retracted,
             RetractUnlink, Goto, Inside, TypeOK
        <4> QED BY <1>c, <1>d, <2>1, <2>6, <4>1
      <3> QED BY <3>1, <3>2
    <2>7. \A v \in Thread : pc'[v] = "retracting" /\ cl'[v] = c => frame'[u] < generation'
      <3> SUFFICES ASSUME NEW v \in Thread, v # t, pc'[v] = "retracting", cl'[v] = c
                   PROVE  frame[u] < generation'
        BY <1>a, <2>6
      <3>1. pc[v] = "retracting" /\ cl[v] = c
        BY Own
      <3> QED BY <1>c, <1>d, <2>1, <3>1
    <2> QED BY <1>a, <2>1, <2>4, <2>5, <2>7
  <1>7. pc'[u] = "fail" => kept'[u] \subseteq seen'[u]
    BY <1>0, <1>a DEF ViewOf
  <1> QED BY <1>1, <1>2, <1>3, <1>4, <1>5, <1>6, <1>7 DEF ViewOf, Visible, VisibleAfter
-----------------------------------------------------------------------------
(* The frame that begins: what it has to see is what is alive. *)
LEMMA BeginView ==
  ASSUME TypeOK, Outside, View, NEW t \in Thread, NEW g \in {"call", "retract"}, Begin(t, g)
  PROVE  ViewOf(t)'
  <1>1. /\ kept'[t] = Alive /\ frame'[t] = generation /\ generation' = generation
        /\ pc'[t] = "begun" /\ stamp' = stamp /\ linked' = linked /\ gone' = gone
    BY DEF Begin, Goto, clauseVars, TypeOK
  <1>2. \A c \in Alive : c \in linked /\ Visible(c, generation)
    BY DEF Alive
  <1>3. \A v \in Thread : pc'[v] = "asserting" => cl'[v] \notin kept'[t]
    <2> SUFFICES ASSUME NEW v \in Thread, pc'[v] = "asserting"
                 PROVE  cl'[v] \notin Alive
      BY <1>1
    <2>1. pc[v] = "asserting" /\ cl'[v] = cl[v]
      BY DEF Begin, Goto, TypeOK
    <2> QED BY <2>1 DEF Alive
  <1>4. ~Searching(t)'
    BY <1>1 DEF Searching, Within, Inside
  <1>5. generation \in Nat
    BY DEF TypeOK
  <1> QED BY <1>1, <1>2, <1>3, <1>4, <1>5 DEF ViewOf, Visible

(* The frame that begins to search: it looks at the first clause next. *)
LEMMA FirstClauseView ==
  ASSUME TypeOK, Outside, Exact, View, NEW t \in Thread, FirstClause(t)
  PROVE  ViewOf(t)'
  <1>1. /\ pc[t] = "enter" /\ kept'[t] = kept[t] \ gone
        /\ UNCHANGED <<generation, linked, rank, stamp, gone, frame, cl, seen, goal>>
        /\ \/ number = 0 /\ pc' = [pc EXCEPT ![t] = "fail"]
           \/ pc' = [pc EXCEPT ![t] = "scan"] /\ chp'[t] = First(linked)
    BY DEF FirstClause, Goto, clauseVars, TypeOK
  <1>2. \A c \in kept'[t] : c \in linked \ gone /\ Visible(c, frame[t])
    BY <1>1 DEF View, ViewOf
  <1>3. kept'[t] \subseteq linked' \cup gone' /\ frame'[t] <= generation'
    BY <1>1, <1>2 DEF View, ViewOf
  <1>4. \A v \in Thread : pc'[v] = "asserting" => cl'[v] \notin kept'[t]
    <2> SUFFICES ASSUME NEW v \in Thread, pc'[v] = "asserting"
                 PROVE  cl[v] \notin kept[t]
      BY <1>1
    <2>1. pc[v] = "asserting"
      BY <1>1 DEF TypeOK
    <2> QED BY <2>1 DEF View, ViewOf
  <1>5. CASE pc'[t] = "fail"
    <2>1. number = 0
      BY <1>1, <1>5 DEF TypeOK
    <2>2. linked \ gone = {}
      BY <2>1, Finite, FS_EmptySet DEF Exact
    <2>3. kept'[t] = {}
      BY <1>2, <2>2
    <2>4. ~Searching(t)'
      BY <1>5 DEF Searching
    <2> QED BY <1>3, <1>4, <1>5, <2>3, <2>4 DEF ViewOf
  <1>6. CASE pc'[t] = "scan" /\ chp'[t] = First(linked)
    <2>1. First(linked) \in linked \cup {Nil} /\ \A c \in linked : rank[First(linked)] <= rank[c]
      BY FirstIsOne DEF TypeOK
    <2>2. \A c \in linked : First(linked) # Nil
      BY FirstIsOne, NilAssumption DEF TypeOK
    <2>3. ASSUME NEW c \in kept'[t]
          PROVE  \A v \in Thread : ~(pc'[v] = "retracting" /\ cl'[v] = c)
      <3> SUFFICES ASSUME NEW v \in Thread, pc'[v] = "retracting", cl[v] = c
                   PROVE  FALSE
        BY <1>1
      <3>1. pc[v] = "retracting"
        BY <1>1, <1>6 DEF TypeOK
      <3> QED BY <1>2, <3>1 DEF View, Marked
    <2> HIDE DEF First
    <2> QED BY <1>1, <1>2, <1>3, <1>4, <1>6, <2>1, <2>2, <2>3 DEF ViewOf, Visible
  <1> QED BY <1>1, <1>5, <1>6 DEF TypeOK

(* The frame that looks at a clause: it is given it, or did not have to    *)
(* see it; what is left is behind that clause.                             *)
LEMMA NextClauseView ==
  ASSUME TypeOK, Outside, View, NEW t \in Thread, NextClause(t)
  PROVE  ViewOf(t)'
  <1> DEFINE p == chp[t]
             behind == {d \in linked : rank[d] > rank[p]}
  <1>1. /\ UNCHANGED <<generation, linked, rank, stamp, gone, frame, kept, goal>>
        /\ pc[t] = "scan" /\ p # Nil /\ chp'[t] = First(behind)
        /\ pc'[t] \in {"scan", "run", "retract"}
        /\ \A v \in Thread \ {t} : pc'[v] = pc[v] /\ cl'[v] = cl[v]
        /\ \/ Visible(p, frame[t]) /\ seen'[t] = seen[t] \cup {p}
           \/ ~Visible(p, frame[t]) /\ seen'[t] = seen[t]
    BY DEF NextClause, After, Goto, clauseVars, TypeOK
  <1>2. Searching(t)
    BY <1>1 DEF Searching, Within, Inside
  <1>3. /\ p \in linked
        /\ \A c \in kept[t] \ seen[t] :
             /\ c \in linked /\ Visible(c, frame[t]) /\ rank[p] <= rank[c]
             /\ \A v \in Thread : pc[v] = "retracting" /\ cl[v] = c => frame[t] < generation
    BY <1>1, <1>2 DEF View, ViewOf
  <1>4. \A c \in kept'[t] \ seen'[t] : c \in kept[t] \ seen[t] /\ c \in behind
    <2> SUFFICES ASSUME NEW c \in kept'[t] \ seen'[t]
                 PROVE  c \in kept[t] \ seen[t] /\ c \in behind
      OBVIOUS
    <2>1. c \in kept[t] \ seen[t] /\ c # p
      BY <1>1, <1>3
    <2>2. rank[c] # rank[p] /\ rank[c] \in Int /\ rank[p] \in Int
      BY <1>3, <2>1 DEF View, Unique, TypeOK
    <2> QED BY <1>3, <2>1, <2>2
  <1>5. /\ behind \in SUBSET Clause
        /\ First(behind) \in behind \cup {Nil}
        /\ \A c \in behind : First(behind) # Nil /\ rank[First(behind)] <= rank[c]
    <2>1. behind \in SUBSET Clause
      BY DEF TypeOK
    <2> HIDE DEF behind
    <2> QED BY <2>1, FirstIsOne, NilAssumption
  <1>6. kept'[t] \subseteq linked' \cup gone' /\ frame'[t] <= generation'
    BY <1>1 DEF View, ViewOf
  <1>7. \A v \in Thread : pc'[v] = "asserting" => cl'[v] \notin kept'[t]
    BY <1>1 DEF View, ViewOf
  <1>8. chp'[t] \in linked' \cup {Nil}
    BY <1>1, <1>5
  <1>9. ASSUME NEW c \in kept'[t] \ seen'[t]
        PROVE  /\ c \in linked' /\ VisibleAfter(c, frame'[t])
               /\ chp'[t] # Nil /\ rank'[chp'[t]] <= rank'[c]
               /\ \A v \in Thread : pc'[v] = "retracting" /\ cl'[v] = c => frame'[t] < generation'
    <2>1. c \in kept[t] \ seen[t] /\ c \in behind
      BY <1>4
    <2>2. /\ c \in linked /\ Visible(c, frame[t])
          /\ \A v \in Thread : pc[v] = "retracting" /\ cl[v] = c => frame[t] < generation
      BY <1>3, <2>1
    <2>3. First(behind) # Nil /\ rank[First(behind)] <= rank[c]
      BY <1>5, <2>1
    <2>4. \A v \in Thread : pc'[v] = "retracting" /\ cl'[v] = c => frame'[t] < generation'
      BY <1>1, <2>2
    <2> HIDE DEF behind
    <2> QED BY <1>1, <2>2, <2>3, <2>4 DEF Visible, VisibleAfter
  <1> HIDE DEF behind
  <1> QED BY <1>1, <1>6, <1>7, <1>8, <1>9 DEF ViewOf, Visible, VisibleAfter

(* The frame that goes on with its clause, or retracts it: what it has to  *)
(* see stays what it was.                                                  *)
LEMMA GoOnView ==
  ASSUME TypeOK, Known, Outside, View, NEW t \in Thread,
         Redo(t) \/ RetractGone(t) \/ RetractMark(t) \/ RetractStamp(t)
  PROVE  ViewOf(t)'
  <1>0. Step(t)
    BY DEF Step
  <1>1. /\ UNCHANGED <<linked, rank, frame, kept, seen, chp>>
        /\ pc[t] \in {"run", "retract", "retracting"}
        /\ pc'[t] \in {"scan", "run", "retracting", "idle"}
        /\ Searching(t)' => Searching(t)
    BY DEF Redo, RetractGone, RetractMark, RetractStamp, Retracted, Goto, walkVars, clauseVars,
           Searching, Within, Inside, TypeOK
  <1>2. generation \in Nat /\ generation' \in Nat /\ generation <= generation' /\ gone \subseteq gone'
    BY <1>0, Grows
  <1>3. ViewOf(t) /\ frame[t] \in Nat
    BY DEF View, TypeOK
  <1>4. kept'[t] \subseteq linked' \cup gone' /\ frame'[t] <= generation'
    BY <1>1, <1>2, <1>3 DEF ViewOf
  <1>5. \A v \in Thread : pc'[v] = "asserting" => cl'[v] \notin kept'[t]
    <2> SUFFICES ASSUME NEW v \in Thread, v # t, pc'[v] = "asserting"
                 PROVE  cl'[v] \notin kept[t]
      BY <1>1
    <2> QED BY <1>0, <1>3, Own DEF ViewOf
  <1>6. ASSUME Searching(t)'
        PROVE  chp'[t] \in linked' \cup {Nil}
    BY <1>1, <1>3, <1>6 DEF ViewOf
  <1>7. ASSUME Searching(t)', NEW c \in kept'[t] \ seen'[t]
        PROVE  /\ c \in linked' /\ VisibleAfter(c, frame'[t])
               /\ chp'[t] # Nil /\ rank'[chp'[t]] <= rank'[c]
               /\ \A v \in Thread : pc'[v] = "retracting" /\ cl'[v] = c => frame'[t] < generation'
    <2>1. /\ c \in linked /\ Visible(c, frame[t]) /\ chp[t] # Nil /\ rank[chp[t]] <= rank[c]
          /\ \A v \in Thread : pc[v] = "retracting" /\ cl[v] = c => frame[t] < generation
      BY <1>1, <1>3, <1>7 DEF ViewOf
    <2>2. \/ stamp'[c] = stamp[c]
          \/ /\ frame[t] < generation
             /\ stamp'[c].created = stamp[c].created /\ stamp'[c].erased = generation
      BY <1>0, <1>1, <2>1, StampStays
    <2>3. VisibleAfter(c, frame'[t])
      BY <1>1, <1>2, <1>3, <2>1, <2>2 DEF Visible, VisibleAfter
    <2>4. ASSUME NEW v \in Thread, pc'[v] = "retracting", cl'[v] = c
          PROVE  frame[t] < generation'
      <3>1. CASE v # t
        <4>1. pc[v] = "retracting" /\ cl[v] = c
          BY <1>0, <2>4, <3>1, Own
        <4> QED BY <1>2, <1>3, <2>1, <4>1
      <3>2. CASE v = t
        <4>1. generation' = generation + 1
          BY <2>4, <3>2 DEF Redo, RetractGone, RetractMark, RetractStamp, Retracted, Goto,
                            RetractGeneration, TypeOK
        <4> QED BY <1>2, <1>3, <4>1 DEF ViewOf
      <3> QED BY <3>1, <3>2
    <2> QED BY <1>1, <2>1, <2>3, <2>4
  <1> QED BY <1>1, <1>4, <1>5, <1>6, <1>7 DEF ViewOf, Visible, VisibleAfter

(* The frame that has seen the end of the chain. *)
LEMMA NoMoreClausesView ==
  ASSUME TypeOK, View, NEW t \in Thread, NoMoreClauses(t)
  PROVE  ViewOf(t)'
  <1>1. /\ UNCHANGED <<generation, linked, gone, frame, kept, seen>>
        /\ pc[t] = "scan" /\ pc' = [pc EXCEPT ![t] = "fail"] /\ chp[t] = Nil
        /\ \A v \in Thread \ {t} : cl'[v] = cl[v]
    BY DEF NoMoreClauses, Goto, walkVars, clauseVars, TypeOK
  <1>2. pc'[t] = "fail" /\ \A v \in Thread \ {t} : pc'[v] = pc[v]
    BY <1>1 DEF TypeOK
  <1>3. Searching(t) /\ ~Searching(t)'
    BY <1>1, <1>2 DEF Searching, Within, Inside
  <1>4. kept[t] \subseteq seen[t]
    BY <1>1, <1>3 DEF View, ViewOf
  <1> QED BY <1>1, <1>2, <1>3, <1>4 DEF View, ViewOf

(* The thread that asserts, enters, leaves or frees, or that erases without *)
(* a frame.                                                                *)
LEMMA ElsewhereView ==
  ASSUME TypeOK, Known, Outside, View, NEW t \in Thread, Step(t),
         \/ \E c \in Clause : \/ \E where \in {"CL_START", "CL_END"} : AssertLink(t, c, where)
                              \/ Erase(t, c)
         \/ AssertStamp(t) \/ Enter(t) \/ Leave(t) \/ Free(t) \/ RetractUnlink(t)
  PROVE  ViewOf(t)'
  <1>1. /\ kept'[t] = kept[t] \/ kept'[t] = {}
        /\ frame'[t] = frame[t] \/ frame'[t] = 0
        /\ ~Searching(t)' /\ pc'[t] # "fail"
        /\ pc'[t] \in {"begun", "enter"} => Enter(t)
    <2>1. CASE \E c \in Clause : \/ \E where \in {"CL_START", "CL_END"} : AssertLink(t, c, where)
                                \/ Erase(t, c)
      BY <2>1 DEF AssertLink, Erase, Goto, Searching, Within, Inside, walkVars, TypeOK
    <2>2. CASE AssertStamp(t) \/ Enter(t) \/ Free(t)
      BY <2>2 DEF AssertStamp, Enter, Free, Goto, Searching, Within, Inside, walkVars, TypeOK
    <2>3. CASE Leave(t)
      BY <2>3 DEF Leave, Forget, Searching, Within, Inside, TypeOK
    <2>4. CASE RetractUnlink(t)
      BY <2>4 DEF RetractUnlink, Goto, Searching, Within, Inside, walkVars, TypeOK
    <2> QED BY <2>1, <2>2, <2>3, <2>4
  <1>2. generation \in Nat /\ generation' \in Nat /\ generation <= generation' /\ frame[t] \in Nat
    BY Grows DEF TypeOK
  <1>3. kept'[t] \subseteq linked' \cup gone' /\ frame'[t] <= generation'
    BY <1>1, <1>2, OutsidePreserved DEF View, ViewOf
  <1>4. \A v \in Thread : pc'[v] = "asserting" => cl'[v] \notin kept'[t]
    <2>1. ASSUME NEW v \in Thread, v # t, pc'[v] = "asserting"
          PROVE  cl'[v] \notin kept[t]
      BY <2>1, Own DEF View, ViewOf
    <2>2. pc'[t] = "asserting" => cl'[t] \notin kept[t]
      <3>1. CASE \E c \in Clause, where \in {"CL_START", "CL_END"} : AssertLink(t, c, where)
        BY <3>1 DEF AssertLink, View, ViewOf, TypeOK
      <3>2. CASE ~(\E c \in Clause, where \in {"CL_START", "CL_END"} : AssertLink(t, c, where))
        BY <3>2 DEF Erase, AssertStamp, Enter, Leave, Free, RetractUnlink, Goto, Inside, TypeOK
      <3> QED BY <3>1, <3>2
    <2> QED BY <1>1, <2>1, <2>2
  <1>5. Enter(t) => \A c \in kept'[t] \ gone' : VisibleAfter(c, frame'[t])
    BY DEF Enter, Goto, walkVars, clauseVars, View, ViewOf, Visible, VisibleAfter
  <1> QED BY <1>1, <1>3, <1>4, <1>5 DEF ViewOf, Visible, VisibleAfter
-----------------------------------------------------------------------------
LEMMA InitView == Init => View
  <1> SUFFICES ASSUME Init PROVE View
    OBVIOUS
  <1>1. Marked
    BY DEF Init, Marked
  <1>2. Unique
    BY OldAssumption DEF Init, Unique
  <1>3. ASSUME NEW u \in Thread
        PROVE  ViewOf(u)
    BY DEF Init, ViewOf, Searching, Within, Inside
  <1> QED BY <1>1, <1>2, <1>3 DEF View

LEMMA ViewPreserved ==
  ASSUME IInv, View, NEW t \in Thread, Step(t)
  PROVE  View'
  <1> USE DEF IInv
  <1>1. Marked'
    BY MarkedPreserved DEF View
  <1>2. Unique'
    BY RankStays DEF View
  <1>3. ASSUME NEW u \in Thread, u # t
        PROVE  ViewOf(u)'
    BY <1>3, ViewOfOthers
  <1>4. ViewOf(t)'
    <2>1. CASE \E g \in {"call", "retract"} : Begin(t, g)
      BY <2>1, BeginView
    <2>2. CASE FirstClause(t)
      BY <2>2, FirstClauseView
    <2>3. CASE NextClause(t)
      BY <2>3, NextClauseView
    <2>4. CASE NoMoreClauses(t)
      BY <2>4, NoMoreClausesView
    <2>5. CASE Redo(t) \/ RetractGone(t) \/ RetractMark(t) \/ RetractStamp(t)
      BY <2>5, GoOnView
    <2>6. CASE \/ \E c \in Clause : \/ \E where \in {"CL_START", "CL_END"} : AssertLink(t, c, where)
                                   \/ Erase(t, c)
               \/ AssertStamp(t) \/ Enter(t) \/ Leave(t) \/ Free(t) \/ RetractUnlink(t)
      BY <2>6, ElsewhereView
    <2> QED BY <2>1, <2>2, <2>3, <2>4, <2>5, <2>6 DEF Step
  <1> QED BY <1>1, <1>2, <1>3, <1>4 DEF View

(* A search that comes to its end was given every clause that was alive    *)
(* when the call began and not retracted before it began to search,        *)
(* whatever other threads assert, retract and clean up meanwhile.          *)
THEOREM SearchComplete == Spec => []SearchedViewKept
  <1>1. IInv /\ View /\ [Next]_vars => View'
    <2> SUFFICES ASSUME IInv, View, [Next]_vars
                 PROVE  View'
      OBVIOUS
    <2>1. CASE UNCHANGED vars
      BY <2>1 DEF View, Marked, Unique, ViewOf, Searching, Within, Visible,
                  vars, clauseVars, defVars, walkVars
    <2>2. CASE Next
      <3>1. PICK t \in Thread : Step(t)
        BY <2>2 DEF Next, Step
      <3> QED BY <3>1, ViewPreserved
    <2> QED BY <2>1, <2>2
  <1>2. View => SearchedViewKept
    BY DEF View, ViewOf, SearchedViewKept
  <1> QED BY InitView, <1>1, <1>2, Invariance, PTL DEF Spec

=============================================================================
