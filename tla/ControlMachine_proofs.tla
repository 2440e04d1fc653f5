------------------------ MODULE ControlMachine_proofs ------------------------
(***************************************************************************)
(* The virtual machine on control structures, for any programs and         *)
(* whatever code it is given, as long as the instructions find in the      *)
(* variables of a clause the choice points that they look for: the stack   *)
(* keeps its shape, each frame is left once, and each cleanup runs once.   *)
(*                                                                         *)
(* The machine compares addresses and follows parent pointers. So there    *)
(* are first the chains these pointers make; then the shape of a stack,    *)
(* Good, and what its steps (a frame or a choice point on top, a cut, an   *)
(* unlinked choice point, a fall back) do to the shape and to the set of   *)
(* frames that are in use, LiveIn; then the actions, each one a few such   *)
(* steps. That no cut leaves a frame twice is CutLeaves: the frames that   *)
(* it discards, choice point by choice point, are those that are in use    *)
(* before it and not after it.                                             *)
(*                                                                         *)
(* The second half does the same for the handlers of cleanups, Safe: one   *)
(* that is armed has its choice point, and once it has run nothing of its  *)
(* goal is left.                                                           *)
(*                                                                         *)
(* The third part shows that the instructions do find their choice points  *)
(* if the clauses pass a check of their code alone, Checked: every cell    *)
(* that leads back into a frame, and the program counter, is Resumable, at *)
(* a place where the variables that are set on every way to it are set,    *)
(* and where the choice point of a soft-cut, in its condition, is still    *)
(* where C_SOFTIF put it.                                                  *)
(***************************************************************************)
EXTENDS ControlMachine, WellFoundedInduction, FiniteSetTheorems, SequenceTheorems, TLAPS

-----------------------------------------------------------------------------
(* Chains: what a pointer to an older cell leads to. *)

Older(s) == Len(s) \in Nat /\ \A a \in 1..Len(s) : s[a].parent \in 0..(a - 1)

LEMMA NatLeast ==
  ASSUME NEW N \in SUBSET Nat, N # {}
  PROVE  \E n \in N : \A m \in N : n <= m
  <1> DEFINE R == OpToRel(<, Nat)
  <1>1. IsWellFoundedOn(R, Nat)
    BY NatLessThanWellFounded
  <1>2. \A r, s \in Nat : r < s => <<r, s>> \in R
    BY DEF OpToRel
  <1> HIDE DEF R
  <1>3. PICK n \in N : \A m \in N : ~(<<m, n>> \in R)
    BY <1>1, WFMin
  <1>4. \A m \in N : ~(m < n)
    BY <1>2, <1>3
  <1>5. \A m \in N : n <= m
    BY <1>4
  <1> QED
    BY <1>5

(* The recursion of Chain ends: it defines a function. *)
LEMMA ChainDefined ==
  ASSUME NEW s, Older(s)
  PROVE  Chain(s) = [a \in 0..Len(s) |-> IF a = 0 THEN {} ELSE {a} \cup Chain(s)[s[a].parent]]
  <1> DEFINE Upto(n, C) == C = [a \in 0..n |-> IF a = 0 THEN {} ELSE {a} \cup C[s[a].parent]]
             Bad == {n \in 0..Len(s) : ~ \E C : Upto(n, C)}
  <1>1. Bad = {}
    <2> SUFFICES ASSUME Bad # {} PROVE FALSE
      OBVIOUS
    <2>1. Bad \in SUBSET Nat
      BY DEF Older
    <2>2. PICK n \in Bad : \A m \in Bad : n <= m
      BY <2>1, NatLeast
    <2>3. CASE n = 0
      <3> DEFINE C == [a \in 0..0 |-> {}]
      <3>1. Upto(0, C)
        OBVIOUS
      <3> QED
        BY <2>2, <2>3, <3>1
    <2>4. CASE n # 0
      <3>1. n \in 1..Len(s) /\ n - 1 \in 0..Len(s) /\ n - 1 \notin Bad
        <4>1. n \in 0..Len(s)
          BY <2>2
        <4>2. n \in 1..Len(s) /\ n - 1 \in 0..Len(s) /\ ~(n <= n - 1)
          BY <2>4, <4>1 DEF Older
        <4> HIDE DEF Bad
        <4> QED
          BY <2>2, <4>2
      <3>2. PICK C : Upto(n - 1, C)
        BY <3>1
      <3> DEFINE D == [a \in 0..n |-> IF a = n THEN {n} \cup C[s[n].parent] ELSE C[a]]
      <3>3. \A a \in 0..(n - 1) : D[a] = C[a]
        BY <3>1 DEF Older
      <3>4. \A a \in 1..n : s[a].parent \in 0..(n - 1)
        BY <3>1 DEF Older
      <3>5. \A a \in 0..(n - 1) : D[a] = IF a = 0 THEN {} ELSE {a} \cup D[s[a].parent]
        <4>1. C[0] = {} /\ D[0] = {}
          BY <3>1, <3>2, <3>3 DEF Older
        <4>2. ASSUME NEW a \in 1..(n - 1) PROVE D[a] = {a} \cup D[s[a].parent]
          <5>1. a \in 1..Len(s) /\ a \in 0..(n - 1) /\ a # 0
            BY <3>1 DEF Older
          <5>2. s[a].parent \in 0..(n - 1)
            BY <3>1, <5>1 DEF Older
          <5>3. C[a] = {a} \cup C[s[a].parent]
            BY <3>2, <5>1
          <5> HIDE DEF D
          <5> QED
            BY <3>3, <5>1, <5>2, <5>3
        <4> HIDE DEF D
        <4>3. \A a \in 0..(n - 1) : a = 0 \/ (a # 0 /\ a \in 1..(n - 1))
          BY <3>1 DEF Older
        <4> QED
          BY <4>1, <4>2, <4>3
      <3>6. D[n] = {n} \cup D[s[n].parent]
        BY <3>1, <3>3, <3>4 DEF Older
      <3>7. Upto(n, D)
        <4>1. \A a \in 0..n : a \in 0..(n - 1) \/ (a = n /\ a # 0)
          BY <3>1 DEF Older
        <4>2. \A a \in 0..n : D[a] = IF a = 0 THEN {} ELSE {a} \cup D[s[a].parent]
          <5> HIDE DEF D
          <5> QED
            BY <3>5, <3>6, <4>1
        <4>3. D = [a \in 0..n |-> D[a]]
          OBVIOUS
        <4> HIDE DEF D
        <4> QED
          BY <4>2, <4>3
      <3> QED
        BY <2>2, <3>7
    <2> QED
      BY <2>3, <2>4
  <1>2. \E C : Upto(Len(s), C)
    <2>1. Len(s) \in 0..Len(s)
      BY DEF Older
    <2>2. Len(s) \notin Bad
      BY <1>1, Zenon
    <2> QED
      BY <2>1, <2>2
  <1> QED
    BY <1>2, Zenon DEF Chain

LEMMA ChainStep ==
  ASSUME NEW s, Older(s)
  PROVE  /\ Chain(s)[0] = {}
         /\ \A a \in 1..Len(s) : Chain(s)[a] = {a} \cup Chain(s)[s[a].parent]
  <1>1. 0 \in 0..Len(s) /\ \A a \in 1..Len(s) : a \in 0..Len(s) /\ a # 0
    BY DEF Older
  <1> QED
    BY <1>1, ChainDefined

(* A set that holds of a cell whenever it holds of the cell it points to. *)
LEMMA ChainInduction ==
  ASSUME NEW s, Older(s), NEW T, 0 \in T,
         \A a \in 1..Len(s) : s[a].parent \in T => a \in T
  PROVE  \A a \in 0..Len(s) : a \in T
  <1> DEFINE Bad == {a \in 0..Len(s) : a \notin T}
  <1>1. CASE Bad = {}
    BY <1>1
  <1>2. CASE Bad # {}
    <2>0. Bad \in SUBSET Nat
      OBVIOUS
    <2>1. PICK n \in Bad : \A m \in Bad : n <= m
      BY <1>2, <2>0, NatLeast
    <2>2. n \in 1..Len(s) /\ s[n].parent \in 0..(n - 1)
      BY <2>1 DEF Older
    <2>3. s[n].parent \notin Bad /\ s[n].parent \in 0..Len(s)
      BY <2>1, <2>2 DEF Older
    <2> QED
      BY <2>1, <2>2, <2>3
  <1> QED
    BY <1>1, <1>2

(* What a chain consists of *)
LEMMA ChainShape ==
  ASSUME NEW s, Older(s), NEW f \in 0..Len(s)
  PROVE  /\ Chain(s)[f] \subseteq 1..f
         /\ f # 0 => f \in Chain(s)[f]
         /\ \A a \in Chain(s)[f] : Chain(s)[a] \subseteq Chain(s)[f]
         /\ \A a \in Chain(s)[f] : s[a].parent # 0 => s[a].parent \in Chain(s)[f]
         /\ \A a, b \in Chain(s)[f] : a <= b => a \in Chain(s)[b]
         /\ \A a \in Chain(s)[f] : a # f => a \in Chain(s)[s[f].parent]
  <1> DEFINE C == Chain(s)
             T == {g \in 0..Len(s) :
                     /\ C[g] \subseteq 1..g
                     /\ \A a \in C[g] : C[a] \subseteq C[g]
                     /\ \A a, b \in C[g] : a <= b => a \in C[b]}
  <1>0. C[0] = {} /\ \A a \in 1..Len(s) : C[a] = {a} \cup C[s[a].parent]
    BY ChainStep
  <1>1. 0 \in T
    BY <1>0 DEF Older
  <1>2. ASSUME NEW g \in 1..Len(s), s[g].parent \in T PROVE g \in T
    <2> DEFINE p == s[g].parent
    <2>1. p \in 0..(g - 1) /\ g \in Nat /\ Len(s) \in Nat
      BY DEF Older
    <2>2. C[g] = {g} \cup C[p]
      BY <1>0
    <2>3. C[p] \subseteq 1..p
      BY <1>2
    <2>4. C[g] \subseteq 1..g
      BY <2>1, <2>2, <2>3
    <2>5. \A a \in C[g] : C[a] \subseteq C[g]
      BY <1>2, <2>2
    <2>6. ASSUME NEW a \in C[g], NEW b \in C[g], a <= b PROVE a \in C[b]
      <3>1. CASE b = g
        BY <3>1
      <3>2. CASE b # g
        <4>1. b \in C[p] /\ b \in 1..p
          BY <2>2, <2>3, <3>2
        <4>2. a # g
          BY <2>1, <2>6, <4>1
        <4>3. a \in C[p]
          BY <2>2, <4>2
        <4> QED
          BY <1>2, <2>6, <4>1, <4>3
      <3> QED
        BY <3>1, <3>2
    <2> QED
      BY <2>1, <2>4, <2>5, <2>6
  <1>3. f \in T
    <2> HIDE DEF T
    <2> QED
      BY <1>1, <1>2, ChainInduction
  <1>4. f # 0 => f \in C[f] /\ C[f] = {f} \cup C[s[f].parent]
    BY <1>0 DEF Older
  <1>5. \A a \in C[f] : a \in 1..Len(s)
    BY <1>3 DEF Older
  <1>6. \A a \in C[f] : s[a].parent # 0 => s[a].parent \in C[f]
    <2> SUFFICES ASSUME NEW a \in C[f], s[a].parent # 0 PROVE s[a].parent \in C[f]
      OBVIOUS
    <2> DEFINE p == s[a].parent
    <2>1. p \in 1..Len(s)
      BY <1>5 DEF Older
    <2>2. p \in C[p] /\ p \in C[a]
      BY <1>0, <1>5, <2>1
    <2> QED
      BY <1>3, <2>2
  <1> QED
    BY <1>0, <1>3, <1>4, <1>6

(* A chain depends only on what it passes. *)
LEMMA ChainAgrees ==
  ASSUME NEW s, Older(s), NEW t, Older(t), NEW f \in 0..Len(s),
         \A a \in Chain(s)[f] : a \in 1..Len(t) /\ t[a].parent = s[a].parent
  PROVE  Chain(t)[f] = Chain(s)[f]
  <1> DEFINE T == {g \in 0..Len(s) :
                     (\A a \in Chain(s)[g] : a \in 1..Len(t) /\ t[a].parent = s[a].parent)
                       => Chain(t)[g] = Chain(s)[g]}
  <1>1. 0 \in T
    <2>1. Chain(t)[0] = {} /\ Chain(s)[0] = {}
      BY ChainStep
    <2>2. 0 \in 0..Len(s)
      BY DEF Older
    <2> QED
      BY <2>1, <2>2, Zenon
  <1>2. ASSUME NEW g \in 1..Len(s), s[g].parent \in T,
               \A a \in Chain(s)[g] : a \in 1..Len(t) /\ t[a].parent = s[a].parent
        PROVE  Chain(t)[g] = Chain(s)[g]
    <2>1. Chain(s)[g] = {g} \cup Chain(s)[s[g].parent]
      BY ChainStep
    <2>2. g \in 1..Len(t) /\ t[g].parent = s[g].parent
      BY <1>2, <2>1
    <2>3. Chain(t)[g] = {g} \cup Chain(t)[t[g].parent]
      BY <2>2, ChainStep
    <2>4. Chain(t)[s[g].parent] = Chain(s)[s[g].parent]
      BY <1>2, <2>1
    <2> QED
      BY <2>1, <2>2, <2>3, <2>4
  <1>3. f \in T
    <2>1. \A g \in 1..Len(s) : s[g].parent \in T => g \in T
      BY <1>2 DEF Older
    <2> HIDE DEF T
    <2> QED
      BY <1>1, <2>1, ChainInduction
  <1> QED
    BY <1>3

-----------------------------------------------------------------------------
(* The shape of the stack. *)

IsF(s, a) == a \in 1..Len(s) /\ s[a].kind = "frame"
IsC(s, a) == a \in 1..Len(s) /\ s[a].kind # "frame"

(* Cells point to older cells of their kind, and a choice point to its frame; *)
(* the first two cells are those of the query.                                *)
Linked(s) ==
  /\ Older(s)
  /\ \A a \in 1..Len(s) : s[a].parent # 0 => (IsF(s, a) <=> IsF(s, s[a].parent))
  /\ \A a \in 1..Len(s) : IsC(s, a) => IsF(s, s[a].frame) /\ (s[a].frame < a \/ a = 1)
  /\ Len(s) >= 2 /\ IsC(s, 1) /\ IsF(s, 2) /\ s[1].frame = 2 /\ s[2].parent = 0
  /\ \A a \in 3..Len(s) : s[a].parent # 0
  /\ Len(s) >= 3 => IsF(s, 3) /\ s[3].parent = 2

(* The frames that are gone back to with the choice point c *)
FramesOf(s, c) == Chain(s)[s[c].frame]

LiveIn(s, fr, b) == (Chain(s)[fr] \cup UNION {FramesOf(s, c) : c \in Chain(s)[b]}) \ {2}

(* What was there when c was made and can be returned to from the frame g *)
(* can be returned to from the frame of c.                                *)
Keeps(s, c, g) == \A f \in Chain(s)[g] : f < c => f \in FramesOf(s, c)

Good(s, fr, b) ==
  /\ Linked(s) /\ IsF(s, fr) /\ IsC(s, b)
  /\ fr # 2 => 3 \in Chain(s)[fr]
  /\ \A c \in Chain(s)[b] : c # 1 => 3 \in FramesOf(s, c)
  /\ \A c \in Chain(s)[b] : Keeps(s, c, fr)
  /\ \A c, d \in Chain(s)[b] : c < d => Keeps(s, c, s[d].frame)
  /\ \A x \in 1..Len(s) : IsC(s, x) =>
       \A c \in Chain(s)[b] : c < x => c <= s[x].parent

LEMMA KindChain ==
  ASSUME NEW s, Linked(s), NEW a \in 1..Len(s)
  PROVE  /\ IsF(s, a) => \A g \in Chain(s)[a] : IsF(s, g) /\ g <= a
         /\ IsC(s, a) => \A g \in Chain(s)[a] : IsC(s, g) /\ g <= a
         /\ IsF(s, a) => 2 \in Chain(s)[a]
         /\ IsC(s, a) => 1 \in Chain(s)[a]
  <1> DEFINE C == Chain(s)
             T == {g \in 0..Len(s) :
                     g # 0 =>
                     /\ IsF(s, g) => \A h \in C[g] : IsF(s, h)
                     /\ IsC(s, g) => \A h \in C[g] : IsC(s, h)
                     /\ IsF(s, g) => 2 \in C[g]
                     /\ IsC(s, g) => 1 \in C[g]}
  <1>0. Older(s) /\ Len(s) \in Nat
    BY DEF Linked, Older
  <1>1. 0 \in T
    BY <1>0
  <1>2. ASSUME NEW g \in 1..Len(s), s[g].parent \in T PROVE g \in T
    <2>1. C[g] = {g} \cup C[s[g].parent] /\ C[0] = {}
      BY <1>0, ChainStep
    <2>2. g \in 0..Len(s) /\ (IsF(s, g) \/ IsC(s, g)) /\ ~(IsF(s, g) /\ IsC(s, g))
      BY <1>0 DEF IsF, IsC
    <2>3. CASE s[g].parent = 0
      <3>1. C[g] = {g}
        BY <2>1, <2>3
      <3>2. g = 1 \/ g = 2
        BY <2>3, <1>0 DEF Linked
      <3>3. IsC(s, 1) /\ IsF(s, 2) /\ ~IsF(s, 1) /\ ~IsC(s, 2)
        BY DEF Linked, IsF, IsC
      <3> QED
        BY <2>2, <3>1, <3>2, <3>3
    <2>4. CASE s[g].parent # 0
      <3>1. s[g].parent \in 1..Len(s)
        BY <2>4, <1>0 DEF Older
      <3>2. (IsF(s, g) <=> IsF(s, s[g].parent)) /\ (IsC(s, g) <=> IsC(s, s[g].parent))
        BY <2>4, <3>1 DEF Linked, IsF, IsC
      <3>3. /\ IsF(s, g) => (\A h \in C[s[g].parent] : IsF(s, h)) /\ 2 \in C[s[g].parent]
            /\ IsC(s, g) => (\A h \in C[s[g].parent] : IsC(s, h)) /\ 1 \in C[s[g].parent]
        BY <1>2, <2>4, <3>2
      <3> QED
        BY <2>1, <2>2, <3>3
    <2> QED
      BY <2>3, <2>4
  <1>3. a \in T
    <2> HIDE DEF T
    <2>1. a \in 0..Len(s)
      BY <1>0
    <2> QED
      BY <1>0, <1>1, <1>2, <2>1, ChainInduction
  <1>4. a \in 0..Len(s) /\ a # 0
    BY <1>0
  <1>5. C[a] \subseteq 1..a
    BY <1>0, <1>4, ChainShape
  <1> QED
    BY <1>3, <1>4, <1>5

(* The consequences that the steps use *)
LEMMA GoodFacts ==
  ASSUME NEW s, NEW fr, NEW b, Good(s, fr, b)
  PROVE  /\ Older(s) /\ Len(s) \in Nat /\ Len(s) >= 2 /\ fr \in 2..Len(s) /\ b \in 1..Len(s)
         /\ 1 \in Chain(s)[b] /\ b \in Chain(s)[b] /\ fr \in Chain(s)[fr]
         /\ \A c \in Chain(s)[b] : IsC(s, c) /\ c \in 1..b /\ c <= b /\ (c = 1 \/ c > 3)
         /\ \A c \in Chain(s)[b] : c # 1 => s[c].parent \in Chain(s)[b] /\ s[c].parent < c
         /\ \A c, d \in Chain(s)[b] : c < d => c <= s[d].parent
         /\ \A c \in Chain(s)[b] : s[c].frame \in 2..Len(s) /\ (c # 1 => s[c].frame < c /\ s[c].frame > 2)
         /\ FramesOf(s, 1) = {2} /\ Chain(s)[2] = {2} /\ Chain(s)[1] = {1}
         /\ \A c \in Chain(s)[b] : s[c].frame \in FramesOf(s, c) /\ 2 \in FramesOf(s, c)
         /\ \A c \in Chain(s)[b] : \A f \in FramesOf(s, c) :
              IsF(s, f) /\ f \in 2..Len(s) /\ f <= s[c].frame
         /\ \A f \in Chain(s)[fr] : IsF(s, f) /\ f \in 2..fr /\ f <= fr
         /\ 2 \in Chain(s)[fr]
         /\ fr # 2 => fr > 2
         /\ LiveIn(s, fr, b) \subseteq 3..Len(s)
  <1>1. Linked(s) /\ Older(s) /\ Len(s) \in Nat /\ Len(s) >= 2
    BY DEF Good, Linked, Older
  <1>2. IsF(s, fr) /\ IsC(s, b) /\ fr \in 1..Len(s) /\ b \in 1..Len(s)
    BY DEF Good, IsF, IsC
  <1>3. IsC(s, 1) /\ IsF(s, 2) /\ ~IsF(s, 1) /\ ~IsC(s, 2) /\ 1 \in 1..Len(s) /\ 2 \in 1..Len(s)
        /\ s[1].parent = 0 /\ s[2].parent = 0 /\ s[1].frame = 2
    BY <1>1 DEF Linked, Older, IsF, IsC
  <1>4. ASSUME NEW g, IsF(s, g)
        PROVE  /\ g \in 2..Len(s) /\ 2 \in Chain(s)[g] /\ g \in Chain(s)[g]
               /\ \A f \in Chain(s)[g] : IsF(s, f) /\ f \in 2..g /\ f \in 2..Len(s) /\ f <= g
    <2>1. g \in 1..Len(s) /\ g # 1
      BY <1>3, <1>4 DEF IsF
    <2>2. 2 \in Chain(s)[g] /\ \A f \in Chain(s)[g] : IsF(s, f) /\ f <= g
      BY <1>1, <1>4, <2>1, KindChain
    <2>3. g \in Chain(s)[g]
      BY <1>1, <2>1, ChainShape DEF Older
    <2>4. \A f \in Chain(s)[g] : f \in 1..Len(s) /\ f # 1
      BY <1>3, <2>2 DEF IsF
    <2> QED
      BY <1>1, <2>1, <2>2, <2>3, <2>4
  <1>5. Chain(s)[2] = {2} /\ Chain(s)[1] = {1}
    <2>1. Chain(s)[0] = {} /\ Chain(s)[1] = {1} \cup Chain(s)[s[1].parent]
          /\ Chain(s)[2] = {2} \cup Chain(s)[s[2].parent]
      BY <1>1, <1>3, ChainStep
    <2> QED
      BY <1>3, <2>1
  <1>6. 1 \in Chain(s)[b] /\ b \in Chain(s)[b] /\ \A c \in Chain(s)[b] : IsC(s, c) /\ c <= b /\ c \in 1..b
    <2>1. 1 \in Chain(s)[b] /\ \A c \in Chain(s)[b] : IsC(s, c) /\ c <= b
      BY <1>1, <1>2, KindChain
    <2>2. b \in Chain(s)[b]
      BY <1>1, <1>2, ChainShape DEF Older
    <2>3. \A c \in Chain(s)[b] : c \in 1..Len(s)
      BY <2>1 DEF IsC
    <2> QED
      BY <1>1, <1>2, <2>1, <2>2, <2>3
  <1>7. ASSUME NEW c \in Chain(s)[b]
        PROVE  /\ IsF(s, s[c].frame) /\ c \in 1..Len(s)
               /\ c # 1 => s[c].frame < c /\ s[c].frame > 2 /\ c > 3
    <2>1. IsC(s, c) /\ c \in 1..Len(s)
      BY <1>6 DEF IsC
    <2>2. IsF(s, s[c].frame) /\ (s[c].frame < c \/ c = 1)
      BY <1>1, <2>1 DEF Linked
    <2>3. c # 1 => s[c].frame # 2
      <3> SUFFICES ASSUME c # 1, s[c].frame = 2 PROVE FALSE
        OBVIOUS
      <3>1. 3 \in FramesOf(s, c)
        BY DEF Good
      <3> QED
        BY <1>5, <3>1 DEF FramesOf
    <2>4. s[c].frame \in 2..Len(s)
      BY <2>2, <1>4
    <2> QED
      BY <1>1, <2>1, <2>2, <2>3, <2>4
  <1>8. ASSUME NEW c \in Chain(s)[b], c # 1
        PROVE  s[c].parent \in Chain(s)[b] /\ s[c].parent < c
    <2>1. c \in 1..Len(s) /\ c > 3
      BY <1>7, <1>8
    <2>2. s[c].parent # 0 /\ s[c].parent \in 0..(c - 1)
      BY <1>1, <2>1 DEF Linked, Older
    <2>3. s[c].parent \in Chain(s)[b]
      BY <1>1, <1>2, <2>2, ChainShape DEF Older
    <2> QED
      BY <2>1, <2>2, <2>3
  <1>9. \A c, d \in Chain(s)[b] : c < d => c <= s[d].parent
    BY <1>6 DEF Good, IsC
  <1>10. \A c \in Chain(s)[b] : \A f \in FramesOf(s, c) :
              IsF(s, f) /\ f \in 2..Len(s) /\ f <= s[c].frame
    BY <1>4, <1>7 DEF FramesOf
  <1>11. \A c \in Chain(s)[b] : s[c].frame \in FramesOf(s, c) /\ 2 \in FramesOf(s, c)
    BY <1>4, <1>7 DEF FramesOf
  <1>12. FramesOf(s, 1) = {2}
    BY <1>3, <1>5 DEF FramesOf
  <1>13. fr \in 2..Len(s) /\ fr \in Chain(s)[fr] /\ 2 \in Chain(s)[fr]
         /\ \A f \in Chain(s)[fr] : IsF(s, f) /\ f \in 2..fr /\ f \in 2..Len(s) /\ f <= fr
    BY <1>2, <1>4
  <1>14. LiveIn(s, fr, b) \subseteq 3..Len(s)
    <2>1. ASSUME NEW f \in LiveIn(s, fr, b) PROVE f \in 2..Len(s) /\ f # 2
      BY <1>10, <1>13 DEF LiveIn
    <2> QED
      BY <1>1, <2>1
  <1>15. \A c \in Chain(s)[b] : s[c].frame \in 2..Len(s)
    BY <1>4, <1>7
  <1> QED
    BY <1>1, <1>2, <1>3, <1>5, <1>6, <1>7, <1>8, <1>9, <1>10, <1>11, <1>12, <1>13, <1>14, <1>15

-----------------------------------------------------------------------------
(* What the steps do to the stack and the registers, one at a time. *)

(* t has the pointers of s up to m. *)
Agree(s, t, m) ==
  \A a \in 1..m : /\ t[a].kind = s[a].kind /\ t[a].parent = s[a].parent
                  /\ s[a].kind # "frame" => t[a].frame = s[a].frame

LEMMA AgreeChains ==
  ASSUME NEW s, NEW t, NEW m \in Nat, Linked(s), m <= Len(s), Older(t), m <= Len(t), Agree(s, t, m)
  PROVE  \A g \in 0..m : Chain(t)[g] = Chain(s)[g]
  <1> SUFFICES ASSUME NEW g \in 0..m PROVE Chain(t)[g] = Chain(s)[g]
    OBVIOUS
  <1>1. Older(s) /\ Len(s) \in Nat /\ Len(t) \in Nat /\ g \in 0..Len(s)
    BY DEF Linked, Older
  <1>2. Chain(s)[g] \subseteq 1..g
    BY <1>1, ChainShape
  <1>3. \A a \in Chain(s)[g] : a \in 1..Len(t) /\ t[a].parent = s[a].parent
    BY <1>1, <1>2 DEF Agree
  <1> QED
    BY <1>1, <1>3, ChainAgrees

(* The stack is cut above everything that is in use, or cells change *)
(* elsewhere than in their pointers.                                 *)
LEMMA Restack ==
  ASSUME NEW s, NEW fr, NEW b, Good(s, fr, b), NEW t,
         Len(t) \in Nat, Len(t) >= 2, Len(t) <= Len(s), fr <= Len(t), b <= Len(t), Agree(s, t, Len(t))
  PROVE  /\ Good(t, fr, b) /\ LiveIn(t, fr, b) = LiveIn(s, fr, b)
         /\ \A g \in 0..Len(t) : Chain(t)[g] = Chain(s)[g]
  <1> DEFINE m == Len(t)
  <1>1. Linked(s) /\ Older(s) /\ Len(s) \in Nat /\ fr \in 2..Len(s) /\ b \in 1..Len(s)
    BY GoodFacts DEF Good
  <1>2. Older(t)
    <2>1. \A a \in 1..m : a \in 1..Len(s) /\ t[a].parent = s[a].parent
      BY <1>1 DEF Agree
    <2> QED
      BY <1>1, <2>1 DEF Older
  <1>3. \A a \in 1..m : (IsF(t, a) <=> IsF(s, a)) /\ (IsC(t, a) <=> IsC(s, a))
    BY <1>1 DEF IsF, IsC, Agree
  <1>4. \A a : (IsF(t, a) => a \in 1..m) /\ (IsC(t, a) => a \in 1..m)
    BY DEF IsF, IsC
  <1>5. Linked(t)
    <2>1. \A a \in 1..m : t[a].parent # 0 => (IsF(t, a) <=> IsF(t, t[a].parent))
      <3> SUFFICES ASSUME NEW a \in 1..m, t[a].parent # 0 PROVE IsF(t, a) <=> IsF(t, t[a].parent)
        OBVIOUS
      <3>1. a \in 1..Len(s) /\ t[a].parent = s[a].parent /\ t[a].parent \in 1..m
        BY <1>1, <1>2 DEF Agree, Older
      <3> QED
        BY <1>1, <1>3, <3>1 DEF Linked
    <2>2. ASSUME NEW a \in 1..m, IsC(t, a) PROVE IsF(t, t[a].frame) /\ (t[a].frame < a \/ a = 1)
      <3>1. a \in 1..Len(s) /\ IsC(s, a) /\ t[a].frame = s[a].frame
        BY <1>1, <1>3, <2>2 DEF Agree, IsC
      <3>2. IsF(s, s[a].frame) /\ (s[a].frame < a \/ a = 1) /\ (a = 1 => s[a].frame = 2)
        BY <1>1, <3>1 DEF Linked
      <3>3. s[a].frame \in 1..m
        BY <1>1, <3>2 DEF IsF
      <3> QED
        BY <1>3, <3>1, <3>2, <3>3
    <2>3. 1 \in 1..m /\ 2 \in 1..m /\ \A a \in 3..m : a \in 1..m /\ a \in 3..Len(s)
      BY <1>1
    <2>4. m >= 2 /\ IsC(t, 1) /\ IsF(t, 2) /\ t[1].frame = 2 /\ t[2].parent = 0
      BY <1>1, <1>3, <2>3 DEF Linked, Agree, IsC
    <2>5. \A a \in 3..m : t[a].parent # 0
      BY <1>1, <2>3 DEF Linked, Agree
    <2>6. m >= 3 => IsF(t, 3) /\ t[3].parent = 2
      <3> SUFFICES ASSUME m >= 3 PROVE IsF(t, 3) /\ t[3].parent = 2
        OBVIOUS
      <3>1. 3 \in 1..m /\ Len(s) >= 3
        BY <1>1
      <3> QED
        BY <1>1, <1>3, <3>1 DEF Linked, Agree
    <2> QED
      BY <1>2, <2>1, <2>2, <2>4, <2>5, <2>6 DEF Linked
  <1>6. \A g \in 0..m : Chain(t)[g] = Chain(s)[g]
    BY <1>1, <1>2, AgreeChains
  <1>7. Chain(t)[fr] = Chain(s)[fr] /\ Chain(t)[b] = Chain(s)[b] /\ fr \in 1..m /\ b \in 1..m
    BY <1>1, <1>6
  <1>8. \A c \in Chain(s)[b] : t[c].frame = s[c].frame /\ FramesOf(t, c) = FramesOf(s, c)
    <2> SUFFICES ASSUME NEW c \in Chain(s)[b] PROVE t[c].frame = s[c].frame /\ FramesOf(t, c) = FramesOf(s, c)
      OBVIOUS
    <2>1. IsC(s, c) /\ c \in 1..b /\ s[c].frame \in 2..Len(s) /\ (c # 1 => s[c].frame < c)
      BY GoodFacts
    <2>2. c = 1 => s[c].frame = 2
      BY <1>1 DEF Linked
    <2>3. c \in 1..m /\ s[c].frame \in 0..m
      BY <1>1, <2>1, <2>2
    <2>4. t[c].frame = s[c].frame
      BY <2>1, <2>3 DEF Agree, IsC
    <2> QED
      BY <1>6, <2>3, <2>4 DEF FramesOf
  <1>9. LiveIn(t, fr, b) = LiveIn(s, fr, b)
    BY <1>7, <1>8 DEF LiveIn
  <1>10. \A c \in Chain(s)[b] : Keeps(t, c, fr)
    BY <1>7, <1>8 DEF Good, Keeps
  <1>11. \A c, d \in Chain(s)[b] : c < d => Keeps(t, c, t[d].frame)
    <2> SUFFICES ASSUME NEW c \in Chain(s)[b], NEW d \in Chain(s)[b], c < d PROVE Keeps(t, c, t[d].frame)
      OBVIOUS
    <2>1. Keeps(s, c, s[d].frame)
      BY DEF Good
    <2>2. Chain(t)[t[d].frame] = Chain(s)[s[d].frame] /\ FramesOf(t, c) = FramesOf(s, c)
      BY <1>8 DEF FramesOf
    <2> QED
      BY <2>1, <2>2 DEF Keeps
  <1>12. \A x \in 1..m : IsC(t, x) => \A c \in Chain(s)[b] : c < x => c <= t[x].parent
    BY <1>1, <1>3 DEF Good, Agree
  <1>13. IsF(t, fr) /\ IsC(t, b)
    BY <1>3, <1>7 DEF Good
  <1>14. (fr # 2 => 3 \in Chain(t)[fr]) /\ \A c \in Chain(t)[b] : c # 1 => 3 \in FramesOf(t, c)
    BY <1>7, <1>8 DEF Good
  <1> QED
    BY <1>5, <1>6, <1>7, <1>9, <1>10, <1>11, <1>12, <1>13, <1>14 DEF Good

(* The newest choice points go. *)
LEMMA FewerChoices ==
  ASSUME NEW s, NEW fr, NEW b, Good(s, fr, b), NEW c \in Chain(s)[b]
  PROVE  /\ Good(s, fr, c) /\ Chain(s)[c] = {d \in Chain(s)[b] : d <= c}
  <1>1. Older(s) /\ b \in 0..Len(s) /\ c \in 0..Len(s) /\ c \in Nat
    BY GoodFacts
  <1>2. Chain(s)[c] \subseteq Chain(s)[b] /\ Chain(s)[c] \subseteq 1..c
        /\ \A d \in Chain(s)[b] : d <= c => d \in Chain(s)[c]
    BY <1>1, ChainShape
  <1>3. Chain(s)[c] = {d \in Chain(s)[b] : d <= c}
    BY <1>1, <1>2
  <1>4. IsC(s, c)
    BY GoodFacts
  <1> QED
    BY <1>2, <1>3, <1>4 DEF Good

(* Another frame runs. *)
LEMMA OtherFrame ==
  ASSUME NEW s, NEW fr, NEW b, Good(s, fr, b), NEW g, IsF(s, g), g # 2 => 3 \in Chain(s)[g],
         \A c \in Chain(s)[b] : Keeps(s, c, g)
  PROVE  Good(s, g, b)
  BY DEF Good

(* ... the one that called this one *)
LEMMA ParentFrame ==
  ASSUME NEW s, NEW fr, NEW b, Good(s, fr, b), fr # 2
  PROVE  /\ Good(s, s[fr].parent, b)
         /\ Chain(s)[fr] = {fr} \cup Chain(s)[s[fr].parent]
         /\ s[fr].parent \in 2..(fr - 1) /\ s[fr].parent \in Chain(s)[fr]
         /\ (s[fr].parent = 2 <=> fr = 3)
  <1> DEFINE p == s[fr].parent
  <1>1. Linked(s) /\ Older(s) /\ fr \in 3..Len(s) /\ fr \in 1..Len(s) /\ Len(s) \in Nat /\ IsF(s, fr)
        /\ 3 \in Chain(s)[fr]
    <2>1. fr \in 2..Len(s) /\ fr > 2 /\ Len(s) \in Nat /\ Older(s)
      BY GoodFacts
    <2>2. Linked(s) /\ IsF(s, fr) /\ 3 \in Chain(s)[fr]
      BY DEF Good
    <2> QED
      BY <2>1, <2>2
  <1>2. p # 0 /\ p \in 0..(fr - 1) /\ p \in 1..Len(s)
    BY <1>1 DEF Linked, Older
  <1>3. IsF(s, p)
    BY <1>1, <1>2 DEF Linked
  <1>4. p \in 2..(fr - 1)
    BY <1>1, <1>2, <1>3 DEF Linked, IsF, IsC
  <1>5. Chain(s)[fr] = {fr} \cup Chain(s)[p]
    BY <1>1, ChainStep
  <1>6. p \in Chain(s)[p]
    BY <1>1, <1>2, ChainShape
  <1>7. fr = 3 => p = 2
    BY <1>1 DEF Linked
  <1>8. fr # 3 => 3 \in Chain(s)[p]
    BY <1>1, <1>5
  <1>9. Chain(s)[2] = {2}
    BY GoodFacts
  <1>10. fr # 3 => p # 2
    BY <1>8, <1>9
  <1>11. \A c \in Chain(s)[b] : Keeps(s, c, p)
    BY <1>5 DEF Good, Keeps
  <1>12. Good(s, p, b)
    BY <1>3, <1>7, <1>8, <1>11 DEF Good
  <1> QED
    BY <1>4, <1>5, <1>6, <1>7, <1>10, <1>12

(* ... the one of the newest choice point *)
LEMMA ChoiceFrame ==
  ASSUME NEW s, NEW fr, NEW b, Good(s, fr, b), b # 1
  PROVE  /\ Good(s, s[b].frame, s[b].parent)
         /\ Chain(s)[b] = {b} \cup Chain(s)[s[b].parent]
         /\ s[b].frame \in 3..(b - 1) /\ s[b].parent \in 1..(b - 1)
         /\ \A f \in Chain(s)[fr] : f < b => f \in FramesOf(s, b)
         /\ LiveIn(s, s[b].frame, s[b].parent) = (UNION {FramesOf(s, c) : c \in Chain(s)[b]}) \ {2}
         /\ LiveIn(s, fr, b) \ LiveIn(s, s[b].frame, s[b].parent) = {f \in Chain(s)[fr] : f > b} \ {2}
  <1> DEFINE p == s[b].parent  g == s[b].frame
             U == UNION {FramesOf(s, c) : c \in Chain(s)[b]}
             W == UNION {FramesOf(s, c) : c \in Chain(s)[p]}
  <1>1. Linked(s) /\ Older(s) /\ b \in Chain(s)[b] /\ b \in 1..Len(s) /\ Len(s) \in Nat /\ fr \in 2..Len(s)
    BY GoodFacts DEF Good
  <1>2. p \in Chain(s)[b] /\ p < b /\ p \in 1..b /\ IsC(s, b) /\ b > 3
    BY <1>1, GoodFacts
  <1>3. g \in 2..Len(s) /\ g < b /\ g > 2 /\ 3 \in Chain(s)[g]
    BY <1>1, GoodFacts DEF Good, FramesOf
  <1>4. IsF(s, g)
    BY <1>1, <1>2 DEF Linked
  <1>5. Good(s, fr, p) /\ Chain(s)[p] = {d \in Chain(s)[b] : d <= p}
    BY <1>2, FewerChoices
  <1>6. Chain(s)[b] = {b} \cup Chain(s)[p]
    BY <1>1, ChainStep
  <1>7. \A c \in Chain(s)[p] : c < b
    BY <1>1, <1>2, <1>5, GoodFacts
  <1>8. \A c \in Chain(s)[p] : Keeps(s, c, g)
    BY <1>1, <1>5, <1>7 DEF Good
  <1>9. Good(s, g, p)
    BY <1>3, <1>4, <1>5, <1>8, OtherFrame
  <1>10. \A f \in Chain(s)[fr] : f < b => f \in FramesOf(s, b)
    BY <1>1 DEF Good, Keeps
  <1>11. LiveIn(s, g, p) = U \ {2}
    <2>1. Chain(s)[g] = FramesOf(s, b)
      BY DEF FramesOf
    <2>2. U = FramesOf(s, b) \cup W
      BY <1>6
    <2>3. LiveIn(s, g, p) = (Chain(s)[g] \cup W) \ {2}
      BY DEF LiveIn
    <2> HIDE DEF U, W, p, g
    <2> QED
      BY <2>1, <2>2, <2>3
  <1>12. ASSUME NEW c \in Chain(s)[b], NEW f \in FramesOf(s, c) PROVE f = 2 \/ f < b
    <2>1. CASE c = 1
      BY <2>1, GoodFacts
    <2>2. CASE c # 1
      <3>1. f <= s[c].frame /\ s[c].frame < c /\ c <= b /\ f \in 2..Len(s) /\ c \in 1..b /\ s[c].frame \in 2..Len(s)
        BY <2>2, GoodFacts
      <3> QED
        BY <1>1, <3>1
    <2> QED
      BY <2>1, <2>2
  <1>13. \A f \in Chain(s)[fr] : f \in 2..fr /\ IsF(s, f) /\ f # b
    BY <1>2, GoodFacts DEF IsF, IsC
  <1>14. LiveIn(s, fr, b) \ LiveIn(s, g, p) = {f \in Chain(s)[fr] : f > b} \ {2}
    <2>1. ASSUME NEW f \in Chain(s)[fr], f > b PROVE f = 2 \/ f \notin U
      BY <1>1, <1>12, <1>13, <2>1
    <2>2. ASSUME NEW f \in Chain(s)[fr], ~(f > b) PROVE f \in U
      <3>1. f < b
        BY <1>1, <1>13, <2>2
      <3> QED
        BY <1>1, <1>10, <3>1
    <2>3. LiveIn(s, fr, b) = (Chain(s)[fr] \cup U) \ {2}
      BY DEF LiveIn
    <2> HIDE DEF U, p, g
    <2> QED
      BY <1>11, <2>1, <2>2, <2>3
  <1>15. g \in 3..(b - 1) /\ p \in 1..(b - 1)
    BY <1>1, <1>2, <1>3
  <1>16. LiveIn(s, s[b].frame, s[b].parent) = (UNION {FramesOf(s, c) : c \in Chain(s)[b]}) \ {2}
    BY <1>11, Zenon
  <1>17. \A f \in Chain(s)[fr] : f < b => f \in FramesOf(s, b)
    BY <1>10
  <1> QED
    BY <1>6, <1>9, <1>14, <1>15, <1>16, <1>17, Zenon

(* The frame that runs leaves a choice point. *)
LEMMA PushChoice ==
  ASSUME NEW s, NEW fr, NEW b, Good(s, fr, b), fr # 2, NEW t,
         Len(t) = Len(s) + 1, Agree(s, t, Len(s)),
         t[Len(t)].kind # "frame", t[Len(t)].frame = fr, t[Len(t)].parent = b
  PROVE  /\ Good(t, fr, Len(t)) /\ LiveIn(t, fr, Len(t)) = LiveIn(s, fr, b)
         /\ Chain(t)[Len(t)] = {Len(t)} \cup Chain(s)[b]
         /\ \A g \in 0..Len(s) : Chain(t)[g] = Chain(s)[g]
  <1> DEFINE m == Len(s)  n == Len(t)
  <1>1. Linked(s) /\ Older(s) /\ m \in Nat /\ m >= 3 /\ n = m + 1 /\ fr \in 3..m /\ b \in 1..m /\ IsF(s, fr)
    <2>1. fr \in 2..m /\ fr > 2 /\ m \in Nat /\ b \in 1..m /\ Older(s)
      BY GoodFacts
    <2>2. Linked(s) /\ IsF(s, fr)
      BY DEF Good
    <2> QED
      BY <2>1, <2>2
  <1>2. \A a \in 1..n : a \in 1..m \/ a = n
    BY <1>1
  <1>3. \A a \in 1..m : a \in 1..n /\ t[a].parent = s[a].parent /\ t[a].kind = s[a].kind /\ a < n
    BY <1>1 DEF Agree
  <1>4. Older(t)
    <2>1. \A a \in 1..m : t[a].parent \in 0..(a - 1)
      BY <1>1, <1>3 DEF Older
    <2>2. t[n].parent \in 0..(n - 1) /\ n \in Nat
      BY <1>1
    <2> HIDE DEF n, m
    <2>3. \A a \in 1..n : t[a].parent \in 0..(a - 1)
      BY <1>2, <2>1, <2>2
    <2> QED
      BY <2>2, <2>3 DEF Older, n
  <1>5. \A a \in 1..m : (IsF(t, a) <=> IsF(s, a)) /\ (IsC(t, a) <=> IsC(s, a))
    BY <1>3 DEF IsF, IsC
  <1>6. IsC(t, n) /\ ~IsF(t, n) /\ IsF(t, fr) /\ IsC(t, b) /\ IsC(s, b)
    BY <1>1, <1>5 DEF IsF, IsC, Good
  <1>7. Linked(t)
    <2>1. \A a \in 1..n : t[a].parent # 0 => (IsF(t, a) <=> IsF(t, t[a].parent))
      <3> SUFFICES ASSUME NEW a \in 1..n, t[a].parent # 0 PROVE IsF(t, a) <=> IsF(t, t[a].parent)
        OBVIOUS
      <3>1. CASE a \in 1..m
        <4>1. s[a].parent \in 1..m /\ t[a].parent = s[a].parent
          BY <1>1, <1>3, <3>1 DEF Older
        <4> QED
          BY <1>1, <1>5, <3>1, <4>1 DEF Linked
      <3>2. CASE a = n
        BY <1>6, <3>2 DEF IsF, IsC
      <3> QED
        BY <1>2, <3>1, <3>2
    <2>2. ASSUME NEW a \in 1..n, IsC(t, a) PROVE IsF(t, t[a].frame) /\ (t[a].frame < a \/ a = 1)
      <3>1. CASE a \in 1..m
        <4>1. IsC(s, a) /\ t[a].frame = s[a].frame
          BY <1>5, <2>2, <3>1 DEF Agree, IsC
        <4>2. IsF(s, s[a].frame) /\ (s[a].frame < a \/ a = 1)
          BY <1>1, <3>1, <4>1 DEF Linked
        <4>3. s[a].frame \in 1..m
          BY <4>2 DEF IsF
        <4> QED
          BY <1>5, <4>1, <4>2, <4>3
      <3>2. CASE a = n
        BY <1>1, <1>6, <3>2
      <3> QED
        BY <1>2, <3>1, <3>2
    <2>3. 1 \in 1..m /\ 2 \in 1..m /\ 3 \in 1..m /\ n >= 2 /\ \A a \in 3..n : a \in 3..m \/ a = n
      BY <1>1
    <2>4. IsC(t, 1) /\ IsF(t, 2) /\ t[1].frame = 2 /\ t[2].parent = 0 /\ IsF(t, 3) /\ t[3].parent = 2
      BY <1>1, <1>3, <1>5, <2>3 DEF Linked, Agree, IsC
    <2>5. \A a \in 3..n : t[a].parent # 0
      <3>1. \A a \in 3..m : a \in 1..m /\ s[a].parent # 0
        BY <1>1 DEF Linked
      <3> QED
        BY <1>1, <1>3, <2>3, <3>1
    <2> QED
      BY <1>4, <2>1, <2>2, <2>3, <2>4, <2>5 DEF Linked
  <1>8. \A g \in 0..m : Chain(t)[g] = Chain(s)[g]
    BY <1>1, <1>3, <1>4, AgreeChains
  <1>9. Chain(t)[n] = {n} \cup Chain(s)[b]
    <2>1. Chain(t)[n] = {n} \cup Chain(t)[b]
      BY <1>1, <1>4, ChainStep
    <2> QED
      BY <1>1, <1>8, <2>1
  <1>10. Chain(t)[fr] = Chain(s)[fr] /\ FramesOf(t, n) = Chain(s)[fr]
    BY <1>1, <1>8 DEF FramesOf
  <1>11. ASSUME NEW c \in Chain(s)[b] PROVE t[c].frame = s[c].frame /\ FramesOf(t, c) = FramesOf(s, c) /\ c \in 1..m /\ c < n
    <2>1. IsC(s, c) /\ c \in 1..b /\ s[c].frame \in 2..m
      BY GoodFacts
    <2>2. c \in 1..m /\ s[c].frame \in 0..m
      BY <1>1, <2>1
    <2>3. t[c].frame = s[c].frame
      BY <2>1, <2>2 DEF Agree, IsC
    <2> QED
      BY <1>8, <1>3, <2>2, <2>3 DEF FramesOf
  <1>12. LiveIn(t, fr, n) = LiveIn(s, fr, b)
    <2> DEFINE U == UNION {FramesOf(s, c) : c \in Chain(s)[b]}
               V == UNION {FramesOf(t, c) : c \in Chain(t)[n]}
    <2>1. V = Chain(s)[fr] \cup U
      BY <1>9, <1>10, <1>11
    <2>2. LiveIn(t, fr, n) = (Chain(t)[fr] \cup V) \ {2} /\ LiveIn(s, fr, b) = (Chain(s)[fr] \cup U) \ {2}
      BY DEF LiveIn
    <2> HIDE DEF U, V
    <2> QED
      BY <1>10, <2>1, <2>2
  <1>13. \A c \in Chain(t)[n] : Keeps(t, c, fr)
    <2>1. \A c \in Chain(s)[b] : Keeps(t, c, fr)
      BY <1>10, <1>11 DEF Good, Keeps
    <2>2. Keeps(t, n, fr)
      BY <1>10 DEF Keeps
    <2> QED
      BY <1>9, <2>1, <2>2
  <1>14. \A c, d \in Chain(t)[n] : c < d => Keeps(t, c, t[d].frame)
    <2> SUFFICES ASSUME NEW c \in Chain(t)[n], NEW d \in Chain(t)[n], c < d PROVE Keeps(t, c, t[d].frame)
      OBVIOUS
    <2>1. CASE d = n
      BY <1>13, <2>1
    <2>2. CASE d # n
      <3>1. d \in Chain(s)[b] /\ d < n
        BY <1>9, <1>11, <2>2
      <3>2. c \in Chain(s)[b]
        BY <1>1, <1>9, <1>11, <3>1
      <3>3. Keeps(s, c, s[d].frame)
        BY <3>1, <3>2 DEF Good
      <3>4. Chain(t)[t[d].frame] = Chain(s)[s[d].frame] /\ FramesOf(t, c) = FramesOf(s, c)
        BY <1>11, <3>1, <3>2 DEF FramesOf
      <3> QED
        BY <3>3, <3>4 DEF Keeps
    <2> QED
      BY <2>1, <2>2
  <1>15. \A x \in 1..n : IsC(t, x) => \A c \in Chain(t)[n] : c < x => c <= t[x].parent
    <2> SUFFICES ASSUME NEW x \in 1..n, IsC(t, x), NEW c \in Chain(t)[n], c < x PROVE c <= t[x].parent
      OBVIOUS
    <2>0. c # n
      BY <1>1
    <2>1. c \in Chain(s)[b] /\ c <= b
      BY <1>9, <2>0, GoodFacts
    <2>2. CASE x = n
      BY <2>1, <2>2
    <2>3. CASE x \in 1..m
      <3>1. IsC(s, x) /\ t[x].parent = s[x].parent
        BY <1>3, <1>5, <2>3
      <3> QED
        BY <2>1, <2>3, <3>1 DEF Good
    <2> QED
      BY <1>2, <2>2, <2>3
  <1>16. fr # 2 => 3 \in Chain(t)[fr]
    BY <1>10 DEF Good
  <1>17. \A c \in Chain(t)[n] : c # 1 => 3 \in FramesOf(t, c)
    BY <1>9, <1>10, <1>11 DEF Good
  <1> QED
    BY <1>6, <1>7, <1>8, <1>9, <1>12, <1>13, <1>14, <1>15, <1>16, <1>17 DEF Good

(* A frame is pushed for a call. *)
LEMMA PushFrame ==
  ASSUME NEW s, NEW fr, NEW b, Good(s, fr, b), fr # 2 \/ Len(s) = 2, NEW t,
         Len(t) = Len(s) + 1, Agree(s, t, Len(s)),
         t[Len(t)].kind = "frame", t[Len(t)].parent = fr
  PROVE  /\ Good(t, Len(t), b) /\ LiveIn(t, Len(t), b) = LiveIn(s, fr, b) \cup {Len(t)}
         /\ Len(t) \notin LiveIn(s, fr, b) /\ Len(t) \in 3..Len(t)
         /\ \A g \in 0..Len(s) : Chain(t)[g] = Chain(s)[g]
         /\ Chain(t)[Len(t)] = {Len(t)} \cup Chain(s)[fr]
  <1> DEFINE m == Len(s)  n == Len(t)
  <1>1. Linked(s) /\ Older(s) /\ m \in Nat /\ m >= 2 /\ n = m + 1 /\ fr \in 2..m /\ fr \in 1..m /\ b \in 1..m
        /\ IsF(s, fr) /\ IsC(s, b)
    <2>1. fr \in 2..m /\ m \in Nat /\ m >= 2 /\ b \in 1..m /\ Older(s)
      BY GoodFacts
    <2>2. Linked(s) /\ IsF(s, fr) /\ IsC(s, b)
      BY DEF Good
    <2> QED
      BY <2>1, <2>2
  <1>2. \A a \in 1..n : a \in 1..m \/ a = n
    BY <1>1
  <1>3. \A a \in 1..m : a \in 1..n /\ t[a].parent = s[a].parent /\ t[a].kind = s[a].kind /\ a < n
    BY <1>1 DEF Agree
  <1>4. Older(t)
    <2>1. \A a \in 1..m : t[a].parent \in 0..(a - 1)
      BY <1>1, <1>3 DEF Older
    <2>2. t[n].parent \in 0..(n - 1) /\ n \in Nat
      BY <1>1
    <2> HIDE DEF n, m
    <2>3. \A a \in 1..n : t[a].parent \in 0..(a - 1)
      BY <1>2, <2>1, <2>2
    <2> QED
      BY <2>2, <2>3 DEF Older, n
  <1>5. \A a \in 1..m : (IsF(t, a) <=> IsF(s, a)) /\ (IsC(t, a) <=> IsC(s, a))
    BY <1>3 DEF IsF, IsC
  <1>6. IsF(t, n) /\ ~IsC(t, n) /\ IsF(t, fr) /\ IsC(t, b)
    BY <1>1, <1>5 DEF IsF, IsC, Good
  <1>7. Linked(t)
    <2>1. \A a \in 1..n : t[a].parent # 0 => (IsF(t, a) <=> IsF(t, t[a].parent))
      <3> SUFFICES ASSUME NEW a \in 1..n, t[a].parent # 0 PROVE IsF(t, a) <=> IsF(t, t[a].parent)
        OBVIOUS
      <3>1. CASE a \in 1..m
        <4>1. s[a].parent \in 1..m /\ t[a].parent = s[a].parent
          BY <1>1, <1>3, <3>1 DEF Older
        <4> QED
          BY <1>1, <1>5, <3>1, <4>1 DEF Linked
      <3>2. CASE a = n
        BY <1>6, <3>2
      <3> QED
        BY <1>2, <3>1, <3>2
    <2>2. ASSUME NEW a \in 1..n, IsC(t, a) PROVE IsF(t, t[a].frame) /\ (t[a].frame < a \/ a = 1)
      <3>1. a \in 1..m
        BY <1>2, <1>6, <2>2
      <3>2. IsC(s, a) /\ t[a].frame = s[a].frame
        BY <1>5, <2>2, <3>1 DEF Agree, IsC
      <3>3. IsF(s, s[a].frame) /\ (s[a].frame < a \/ a = 1)
        BY <1>1, <3>1, <3>2 DEF Linked
      <3>4. s[a].frame \in 1..m
        BY <3>3 DEF IsF
      <3> QED
        BY <1>5, <3>2, <3>3, <3>4
    <2>3. 1 \in 1..m /\ 2 \in 1..m /\ n >= 2 /\ \A a \in 3..n : a \in 3..m \/ a = n
      BY <1>1
    <2>4. IsC(t, 1) /\ IsF(t, 2) /\ t[1].frame = 2 /\ t[2].parent = 0
      BY <1>1, <1>3, <1>5, <2>3 DEF Linked, Agree, IsC
    <2>5. \A a \in 3..n : t[a].parent # 0
      <3>1. \A a \in 3..m : a \in 1..m /\ s[a].parent # 0
        BY <1>1 DEF Linked
      <3> QED
        BY <1>1, <1>3, <2>3, <3>1
    <2>6. IsF(t, 3) /\ t[3].parent = 2
      <3>1. CASE m = 2
        BY <1>1, <1>6, <3>1
      <3>2. CASE m >= 3
        <4>1. 3 \in 1..m
          BY <1>1, <3>2
        <4> QED
          BY <1>1, <1>3, <1>5, <3>2, <4>1 DEF Linked
      <3> QED
        BY <1>1, <3>1, <3>2
    <2> QED
      BY <1>4, <2>1, <2>2, <2>3, <2>4, <2>5, <2>6 DEF Linked
  <1>8. \A g \in 0..m : Chain(t)[g] = Chain(s)[g]
    BY <1>1, <1>3, <1>4, AgreeChains
  <1>9. Chain(t)[n] = {n} \cup Chain(s)[fr]
    <2>1. Chain(t)[n] = {n} \cup Chain(t)[fr]
      BY <1>1, <1>4, ChainStep
    <2> QED
      BY <1>1, <1>8, <2>1
  <1>10. Chain(t)[b] = Chain(s)[b]
    BY <1>1, <1>8
  <1>11. ASSUME NEW c \in Chain(s)[b] PROVE t[c].frame = s[c].frame /\ FramesOf(t, c) = FramesOf(s, c) /\ c \in 1..m /\ c < n
    <2>1. IsC(s, c) /\ c \in 1..b /\ s[c].frame \in 2..m
      BY GoodFacts
    <2>2. c \in 1..m /\ s[c].frame \in 0..m
      BY <1>1, <2>1
    <2>3. t[c].frame = s[c].frame
      BY <2>1, <2>2 DEF Agree, IsC
    <2> QED
      BY <1>8, <1>3, <2>2, <2>3 DEF FramesOf
  <1>12. LiveIn(t, n, b) = LiveIn(s, fr, b) \cup {n}
    <2> DEFINE U == UNION {FramesOf(s, c) : c \in Chain(s)[b]}
               V == UNION {FramesOf(t, c) : c \in Chain(t)[b]}
    <2>1. V = U
      BY <1>10, <1>11
    <2>2. LiveIn(t, n, b) = (Chain(t)[n] \cup V) \ {2} /\ LiveIn(s, fr, b) = (Chain(s)[fr] \cup U) \ {2}
      BY DEF LiveIn
    <2>3. n # 2
      BY <1>1
    <2> HIDE DEF U, V
    <2> QED
      BY <1>9, <2>1, <2>2, <2>3
  <1>13. ASSUME NEW c \in Chain(s)[b] PROVE Keeps(t, c, n)
    <2>1. Keeps(s, c, fr)
      BY DEF Good
    <2>2. ~(n < c)
      BY <1>1, <1>11
    <2> QED
      BY <1>9, <1>11, <2>1, <2>2 DEF Keeps
  <1>14. \A c, d \in Chain(t)[b] : c < d => Keeps(t, c, t[d].frame)
    <2> SUFFICES ASSUME NEW c \in Chain(s)[b], NEW d \in Chain(s)[b], c < d PROVE Keeps(t, c, t[d].frame)
      BY <1>10
    <2>3. Keeps(s, c, s[d].frame)
      BY DEF Good
    <2>4. Chain(t)[t[d].frame] = Chain(s)[s[d].frame] /\ FramesOf(t, c) = FramesOf(s, c)
      BY <1>11 DEF FramesOf
    <2> QED
      BY <2>3, <2>4 DEF Keeps
  <1>15. \A x \in 1..n : IsC(t, x) => \A c \in Chain(t)[b] : c < x => c <= t[x].parent
    <2> SUFFICES ASSUME NEW x \in 1..n, IsC(t, x), NEW c \in Chain(s)[b], c < x PROVE c <= t[x].parent
      BY <1>10
    <2>1. x \in 1..m
      BY <1>2, <1>6
    <2>2. IsC(s, x) /\ t[x].parent = s[x].parent
      BY <1>3, <1>5, <2>1
    <2> QED
      BY <2>1, <2>2 DEF Good
  <1>16. 3 \in Chain(t)[n]
    <2>1. CASE fr # 2
      BY <1>9, <2>1 DEF Good
    <2>2. CASE m = 2
      BY <1>1, <1>9, <2>2
    <2> QED
      BY <2>1, <2>2
  <1>17. \A c \in Chain(t)[b] : c # 1 => 3 \in FramesOf(t, c)
    BY <1>10, <1>11 DEF Good
  <1>18. n \notin LiveIn(s, fr, b) /\ n \in 3..n
    <2>1. LiveIn(s, fr, b) \subseteq 3..m
      BY GoodFacts
    <2> QED
      BY <1>1, <2>1
  <1>19. \A c \in Chain(t)[b] : Keeps(t, c, n)
    BY <1>10, <1>13
  <1> QED
    BY <1>6, <1>7, <1>8, <1>9, <1>12, <1>14, <1>15, <1>16, <1>17, <1>18, <1>19 DEF Good

(* What a cut leaves is what can no longer be returned to. *)
DiscardedIn(s, c, F) ==
  {f \in FramesOf(s, c) :
     f > IF s[c].parent # 0 /\ s[s[c].parent].frame > F THEN s[s[c].parent].frame ELSE F}

LEMMA CutLeaves ==
  ASSUME NEW s, NEW fr, NEW b, Good(s, fr, b), NEW to \in Nat,
         NEW e \in Chain(s)[b], e <= to, \A c \in Chain(s)[b] : c <= to => c <= e,
         NEW F, F = fr \/ F = s[e].frame, F >= fr, F >= s[e].frame,
         \A c \in Chain(s)[b] : c > to => c > fr
  PROVE  UNION {DiscardedIn(s, c, F) : c \in {d \in Chain(s)[b] : d > to}}
           = LiveIn(s, fr, b) \ LiveIn(s, fr, e)
  <1> DEFINE K == Chain(s)[b]
             U == UNION {FramesOf(s, c) : c \in K}
             V == UNION {FramesOf(s, c) : c \in Chain(s)[e]}
             D == UNION {DiscardedIn(s, c, F) : c \in {d \in K : d > to}}
  <1>1. Older(s) /\ Len(s) \in Nat /\ fr \in 2..Len(s) /\ b \in 1..Len(s) /\ fr \in Chain(s)[fr]
    BY GoodFacts
  <1>2. \A c \in K : IsC(s, c) /\ c \in 1..Len(s) /\ s[c].frame \in 2..Len(s) /\ (c # 1 => s[c].frame < c)
    BY GoodFacts DEF IsC
  <1>3. Chain(s)[e] = {d \in K : d <= e}
    BY FewerChoices
  <1>4. s[e].frame \in 2..Len(s) /\ F \in Nat /\ F >= 2 /\ e \in Nat /\ e >= 1
    BY <1>1, <1>2
  <1>5. \A c \in K : c > to => c > e /\ c # 1 /\ c > fr
    BY <1>2, <1>4
  <1>6. \A c \in K : \A f \in FramesOf(s, c) : IsF(s, f) /\ f \in 2..Len(s) /\ f <= s[c].frame
    BY GoodFacts
  <1>7. \A f \in Chain(s)[fr] : f \in 2..Len(s) /\ f <= fr
    BY <1>1, GoodFacts
  <1>8. \A f \in FramesOf(s, 1) : f = 2
    BY GoodFacts
  <1>9. LiveIn(s, fr, b) = (Chain(s)[fr] \cup U) \ {2} /\ LiveIn(s, fr, e) = (Chain(s)[fr] \cup V) \ {2}
    BY DEF LiveIn
  <1>10. \A c \in K : c # 1 => s[c].parent \in K /\ s[c].parent < c
    BY GoodFacts
  <1>11. ASSUME NEW c \in K, c > to, NEW x \in DiscardedIn(s, c, F)
         PROVE  x \in U /\ x # 2 /\ x \notin Chain(s)[fr] /\ x \notin V
    <2> DEFINE p == s[c].parent
    <2>1. x \in FramesOf(s, c) /\ c \in 1..Len(s) /\ c > e /\ c # 1 /\ x \in 2..Len(s)
      BY <1>2, <1>5, <1>6, <1>11 DEF DiscardedIn
    <2>2. p \in K /\ s[p].frame \in 2..Len(s)
      BY <1>2, <1>10, <2>1
    <2>3. x > F
      BY <1>4, <2>1, <2>2 DEF DiscardedIn
    <2>4. x # 2 /\ x \notin Chain(s)[fr]
      BY <1>1, <1>4, <1>7, <2>1, <2>3
    <2>5. ASSUME NEW d \in K, d <= e, x \in FramesOf(s, d) PROVE FALSE
      <3>1. d # 1
        BY <1>8, <2>4, <2>5
      <3>2. x <= s[d].frame /\ s[d].frame < d /\ d \in 1..Len(s) /\ s[d].frame \in 2..Len(s)
        BY <1>2, <1>6, <2>5, <3>1
      <3>3. d # e
        BY <1>4, <2>1, <2>3, <3>2
      <3>4. x < e
        BY <1>4, <2>1, <2>5, <3>2
      <3>5. Keeps(s, e, s[c].frame)
        BY <2>1 DEF Good
      <3>6. x \in FramesOf(s, e)
        BY <2>1, <3>4, <3>5 DEF Keeps, FramesOf
      <3>7. x <= s[e].frame
        BY <1>6, <3>6
      <3> QED
        BY <1>4, <2>1, <2>3, <3>7
    <2> QED
      BY <1>3, <2>1, <2>4, <2>5
  <1>12. ASSUME NEW x, x \in U, x # 2, x \notin Chain(s)[fr], x \notin V
         PROVE  x \in D
    <2> DEFINE N == {c \in K : x \in FramesOf(s, c)}
    <2>1. N \in SUBSET Nat /\ N # {}
      BY <1>2, <1>12
    <2>2. PICK c \in N : \A d \in N : c <= d
      BY <2>1, NatLeast
    <2> DEFINE p == s[c].parent
    <2>3. c \in K /\ x \in FramesOf(s, c) /\ c \in 1..Len(s) /\ x \in 2..Len(s) /\ IsF(s, x)
      BY <1>2, <1>6, <2>2
    <2>4. c # 1
      BY <1>8, <1>12, <2>3
    <2>5. ~(c <= e)
      BY <1>3, <1>12, <2>3
    <2>6. c > to /\ c > fr
      BY <1>4, <2>3, <2>5
    <2>7. p \in K /\ p < c /\ p \in 1..Len(s) /\ IsC(s, p) /\ p # 0 /\ s[p].frame \in 2..Len(s)
          /\ (p # 1 => s[p].frame < p)
      BY <1>2, <1>10, <2>3, <2>4
    <2>8. x \notin FramesOf(s, p)
      <3>1. ~(c <= p)
        BY <2>3, <2>7
      <3> QED
        BY <2>2, <2>7, <3>1
    <2>9. Keeps(s, p, s[c].frame)
      BY <2>3, <2>7 DEF Good
    <2>10. ~(x < p)
      BY <2>3, <2>8, <2>9 DEF Keeps, FramesOf
    <2>11. x # p
      BY <2>3, <2>7 DEF IsF, IsC
    <2>12. x > p
      BY <2>3, <2>7, <2>10, <2>11
    <2>13. x > s[p].frame
      <3>1. p = 1 => s[p].frame = 2
        BY DEF Good, Linked
      <3> QED
        BY <1>12, <2>3, <2>7, <2>12, <3>1
    <2>14. x > F
      <3>1. CASE F = fr
        <4>1. SUFFICES ASSUME x <= fr PROVE FALSE
          BY <1>1, <2>3, <3>1
        <4>2. x # fr
          BY <1>1, <1>12
        <4>3. fr < c /\ Keeps(s, c, fr)
          BY <2>3, <2>6 DEF Good
        <4>4. fr \in FramesOf(s, c)
          BY <1>1, <4>3 DEF Keeps
        <4>5. s[c].frame \in 0..Len(s)
          BY <1>2, <2>3
        <4>6. x \in Chain(s)[fr]
          BY <1>1, <2>3, <4>1, <4>4, <4>5, ChainShape DEF FramesOf
        <4> QED
          BY <1>12, <4>6
      <3>2. CASE F = s[e].frame
        <4>1. e < c
          BY <1>4, <2>3, <2>5
        <4>2. e <= p
          BY <2>3, <4>1, GoodFacts
        <4>3. e # 1 => s[e].frame < e
          BY <1>2
        <4>4. e = 1 => s[e].frame = 2
          BY DEF Good, Linked
        <4> QED
          BY <1>4, <1>12, <2>3, <2>7, <2>12, <3>2, <4>2, <4>3, <4>4
      <3> QED
        BY <3>1, <3>2
    <2>15. x \in DiscardedIn(s, c, F)
      BY <2>3, <2>13, <2>14 DEF DiscardedIn
    <2> QED
      BY <2>3, <2>6, <2>15
  <1>13. D = LiveIn(s, fr, b) \ LiveIn(s, fr, e)
    <2>1. \A x : x \in D => x \in U /\ x # 2 /\ x \notin Chain(s)[fr] /\ x \notin V
      BY <1>11
    <2>2. \A x : x \in U /\ x # 2 /\ x \notin Chain(s)[fr] /\ x \notin V => x \in D
      BY <1>12
    <2> HIDE DEF D, U, V
    <2> QED
      BY <1>9, <2>1, <2>2
  <1> QED
    BY <1>13

(* The loops of a cut leave no frame twice. *)
LEMMA CutApart ==
  ASSUME NEW s, NEW fr, NEW b, Good(s, fr, b), NEW c \in Chain(s)[b], NEW d \in Chain(s)[b], c < d
  PROVE  DiscardedIn(s, c, 0) \cap DiscardedIn(s, d, 0) = {}
  <1> DEFINE p == s[d].parent
  <1> SUFFICES ASSUME NEW x, x \in DiscardedIn(s, c, 0), x \in DiscardedIn(s, d, 0) PROVE FALSE
    OBVIOUS
  <1>1. x \in FramesOf(s, c) /\ x \in FramesOf(s, d) /\ c \in 1..b /\ d \in 1..b /\ b \in Nat
    BY GoodFacts DEF DiscardedIn
  <1>2. x \in 2..Len(s) /\ x <= s[c].frame /\ s[c].frame \in 2..Len(s) /\ Len(s) \in Nat
        /\ (c # 1 => s[c].frame < c) /\ (c = 1 => x = 2)
    BY <1>1, GoodFacts
  <1>3. d # 1
    BY <1>1
  <1>4. p \in Chain(s)[b] /\ p < d /\ c <= p /\ p \in 1..b /\ s[p].frame \in 2..Len(s)
    BY <1>3, GoodFacts
  <1>5. x > s[p].frame
    BY <1>1, <1>2, <1>4 DEF DiscardedIn
  <1>6. c # p
    BY <1>2, <1>4, <1>5
  <1>7. x < p
    BY <1>1, <1>2, <1>4, <1>5, <1>6
  <1>8. Keeps(s, p, s[d].frame)
    BY <1>4 DEF Good
  <1>9. x \in FramesOf(s, p)
    BY <1>1, <1>7, <1>8 DEF Keeps, FramesOf
  <1> QED
    BY <1>2, <1>4, <1>5, <1>9, GoodFacts

(* A query that is asked for another solution goes on in its frame. *)
LEMMA QueryFrame ==
  ASSUME NEW s, NEW b, Good(s, 2, b), b # 1
  PROVE  /\ Good(s, 3, b) /\ LiveIn(s, 3, b) = LiveIn(s, 2, b) /\ Chain(s)[3] = {3, 2}
         /\ 3 \in LiveIn(s, 2, b)
  <1>1. 3 \in FramesOf(s, b) /\ Linked(s) /\ Older(s) /\ b \in Chain(s)[b] /\ Len(s) \in Nat
    BY GoodFacts DEF Good
  <1>2. IsF(s, 3) /\ 3 \in 1..Len(s)
    BY <1>1, GoodFacts DEF IsF
  <1>3. Chain(s)[3] = {3, 2}
    <2>1. s[3].parent = 2
      BY <1>1, <1>2 DEF Linked
    <2>2. Chain(s)[2] = {2}
      BY GoodFacts
    <2> QED
      BY <1>1, <1>2, <2>1, <2>2, ChainStep
  <1>4. ASSUME NEW c \in Chain(s)[b] PROVE Keeps(s, c, 3)
    <2>1. 2 \in FramesOf(s, c)
      BY GoodFacts
    <2>2. c = 1 \/ 3 \in FramesOf(s, c)
      BY DEF Good
    <2>3. c = 1 => ~(2 < c) /\ ~(3 < c)
      OBVIOUS
    <2> QED
      BY <1>3, <2>1, <2>2, <2>3 DEF Keeps
  <1>5. Good(s, 3, b)
    BY <1>2, <1>3, <1>4, OtherFrame
  <1>6. LiveIn(s, 3, b) = LiveIn(s, 2, b) /\ 3 \in LiveIn(s, 2, b)
    <2> DEFINE U == UNION {FramesOf(s, c) : c \in Chain(s)[b]}
    <2>1. LiveIn(s, 3, b) = (Chain(s)[3] \cup U) \ {2} /\ LiveIn(s, 2, b) = (Chain(s)[2] \cup U) \ {2}
      BY DEF LiveIn
    <2>2. 3 \in U
      BY <1>1
    <2>3. Chain(s)[2] = {2}
      BY GoodFacts
    <2> HIDE DEF U
    <2> QED
      BY <1>3, <2>1, <2>2, <2>3
  <1> QED
    BY <1>3, <1>5, <1>6

(* The newest choice point, of the frame that runs, goes. *)
LEMMA OwnChoice ==
  ASSUME NEW s, NEW fr, NEW b, Good(s, fr, b), s[b].frame = fr, b # 1
  PROVE  /\ Good(s, fr, s[b].parent) /\ LiveIn(s, fr, s[b].parent) = LiveIn(s, fr, b)
         /\ s[b].parent \in 1..(b - 1) /\ Chain(s)[b] = {b} \cup Chain(s)[s[b].parent]
  <1> DEFINE p == s[b].parent
             U == UNION {FramesOf(s, c) : c \in Chain(s)[b]}
             W == UNION {FramesOf(s, c) : c \in Chain(s)[p]}
  <1>1. Chain(s)[b] = {b} \cup Chain(s)[p] /\ p \in 1..(b - 1) /\ p \in Chain(s)[b]
    BY ChoiceFrame, GoodFacts
  <1>2. Good(s, fr, p)
    BY <1>1, FewerChoices
  <1>3. U = FramesOf(s, b) \cup W /\ FramesOf(s, b) = Chain(s)[fr]
    BY <1>1 DEF FramesOf
  <1>4. LiveIn(s, fr, b) = (Chain(s)[fr] \cup U) \ {2} /\ LiveIn(s, fr, p) = (Chain(s)[fr] \cup W) \ {2}
    BY DEF LiveIn
  <1>5. LiveIn(s, fr, p) = LiveIn(s, fr, b)
    <2> HIDE DEF U, W, p
    <2> QED
      BY <1>3, <1>4
  <1> QED
    BY <1>1, <1>2, <1>5

(* A choice point of the frame that runs is unlinked from those after it. *)
LEMMA UnlinkChoice ==
  ASSUME NEW s, NEW fr, NEW b, Good(s, fr, b), NEW ch \in Chain(s)[b], ch # b, ch # 1, s[ch].frame = fr,
         NEW t, Len(t) = Len(s),
         \A a \in 1..Len(s) :
           /\ t[a].kind = s[a].kind
           /\ s[a].kind # "frame" => t[a].frame = s[a].frame
           /\ t[a].parent = IF a \in Chain(s)[b] /\ s[a].parent = ch THEN s[ch].parent ELSE s[a].parent
  PROVE  /\ Good(t, fr, b) /\ LiveIn(t, fr, b) = LiveIn(s, fr, b)
         /\ Chain(t)[b] = Chain(s)[b] \ {ch}
         /\ \A g \in 1..Len(s) : IsF(s, g) => Chain(t)[g] = Chain(s)[g]
  <1> DEFINE m == Len(s)  K == Chain(s)[b]
  <1>1. Linked(s) /\ Older(s) /\ m \in Nat /\ m >= 2 /\ fr \in 1..m /\ b \in 1..m /\ IsF(s, fr) /\ IsC(s, b) /\ b \in K
    <2>1. fr \in 2..m /\ m \in Nat /\ m >= 2 /\ b \in 1..m /\ Older(s) /\ b \in K
      BY GoodFacts
    <2>2. Linked(s) /\ IsF(s, fr) /\ IsC(s, b)
      BY DEF Good
    <2> QED
      BY <2>1, <2>2
  <1>2. \A c \in K : IsC(s, c) /\ c \in 1..m /\ s[c].frame \in 2..m /\ c <= b /\ (c = 1 \/ c > 3)
    BY GoodFacts DEF IsC
  <1>3. s[ch].parent \in K /\ s[ch].parent < ch /\ s[ch].parent \in 1..m /\ s[ch].parent # 0
    BY <1>2, GoodFacts
  <1>4. \A a \in 1..m : (IsF(t, a) <=> IsF(s, a)) /\ (IsC(t, a) <=> IsC(s, a))
    BY <1>1 DEF IsF, IsC
  <1>5. \A a \in 1..m : IsF(s, a) => t[a].parent = s[a].parent
    BY <1>2 DEF IsF, IsC
  <1>6. Older(t)
    <2>1. ASSUME NEW a \in 1..m PROVE t[a].parent \in 0..(a - 1)
      <3>1. s[a].parent \in 0..(a - 1)
        BY <1>1 DEF Older
      <3> QED
        BY <1>1, <1>3, <3>1
    <2> QED
      BY <1>1, <2>1 DEF Older
  <1>7. Linked(t)
    <2>1. \A a \in 1..m : t[a].parent # 0 => (IsF(t, a) <=> IsF(t, t[a].parent))
      <3> SUFFICES ASSUME NEW a \in 1..m, t[a].parent # 0 PROVE IsF(t, a) <=> IsF(t, t[a].parent)
        OBVIOUS
      <3>1. t[a].parent \in 1..m
        BY <1>1, <1>6 DEF Older
      <3>2. CASE a \in K /\ s[a].parent = ch
        <4>1. IsC(s, a) /\ IsC(s, t[a].parent)
          BY <1>2, <1>3, <3>2
        <4> QED
          BY <1>4, <3>1, <4>1 DEF IsF, IsC
      <3>3. CASE ~(a \in K /\ s[a].parent = ch)
        <4>1. t[a].parent = s[a].parent
          BY <3>3
        <4> QED
          BY <1>1, <1>4, <3>1, <4>1 DEF Linked
      <3> QED
        BY <3>2, <3>3
    <2>2. ASSUME NEW a \in 1..m, IsC(t, a) PROVE IsF(t, t[a].frame) /\ (t[a].frame < a \/ a = 1)
      <3>1. IsC(s, a) /\ t[a].frame = s[a].frame
        BY <1>4, <2>2 DEF IsC
      <3>2. IsF(s, s[a].frame) /\ (s[a].frame < a \/ a = 1)
        BY <1>1, <3>1 DEF Linked
      <3>3. s[a].frame \in 1..m
        BY <3>2 DEF IsF
      <3> QED
        BY <1>4, <3>1, <3>2, <3>3
    <2>3. 1 \in 1..m /\ 2 \in 1..m /\ \A a \in 3..m : a \in 1..m
      BY <1>1
    <2>4. IsC(t, 1) /\ IsF(t, 2) /\ t[1].frame = 2
      BY <1>1, <1>4, <2>3 DEF Linked, IsC
    <2>5. t[2].parent = 0
      BY <1>1, <1>5, <2>3 DEF Linked
    <2>6. \A a \in 3..m : t[a].parent # 0
      BY <1>1, <1>3, <2>3 DEF Linked
    <2>7. m >= 3 => IsF(t, 3) /\ t[3].parent = 2
      <3> SUFFICES ASSUME m >= 3 PROVE IsF(t, 3) /\ t[3].parent = 2
        OBVIOUS
      <3>1. 3 \in 1..m /\ IsF(s, 3) /\ s[3].parent = 2
        BY <1>1 DEF Linked
      <3> QED
        BY <1>4, <1>5, <3>1
    <2> QED
      BY <1>1, <1>6, <2>1, <2>2, <2>4, <2>5, <2>6, <2>7 DEF Linked
  <1>8. ASSUME NEW g \in 1..m, IsF(s, g) PROVE Chain(t)[g] = Chain(s)[g]
    <2>1. \A a \in Chain(s)[g] : IsF(s, a)
      BY <1>1, <1>8, KindChain
    <2>2. \A a \in Chain(s)[g] : a \in 1..Len(t) /\ t[a].parent = s[a].parent
      BY <1>5, <2>1 DEF IsF
    <2>3. g \in 0..Len(s)
      BY <1>1
    <2> QED
      BY <1>1, <1>6, <2>2, <2>3, ChainAgrees
  <1>9. Chain(t)[b] = K \ {ch}
    <2> DEFINE S == {a \in 0..m :
                       a \in K =>
                       /\ a # ch => Chain(t)[a] = Chain(s)[a] \ {ch}
                       /\ a = ch => Chain(t)[s[ch].parent] = Chain(s)[ch] \ {ch}}
    <2>1. 0 \in S
      BY <1>1, <1>2
    <2>2. ASSUME NEW a \in 1..m, s[a].parent \in S PROVE a \in S
      <3>1. a \in 0..m
        BY <1>1
      <3> SUFFICES ASSUME a \in K
                   PROVE  /\ a # ch => Chain(t)[a] = Chain(s)[a] \ {ch}
                          /\ a = ch => Chain(t)[s[ch].parent] = Chain(s)[ch] \ {ch}
        BY <3>1
      <3>2. Chain(s)[a] = {a} \cup Chain(s)[s[a].parent] /\ Chain(t)[a] = {a} \cup Chain(t)[t[a].parent]
            /\ Chain(s)[0] = {} /\ Chain(t)[0] = {}
        BY <1>1, <1>6, ChainStep
      <3>3. s[a].parent # 0 => s[a].parent \in K
        BY <1>1, ChainShape
      <3>4. CASE a = ch
        <4>1. s[ch].parent # ch
          BY <1>3, <1>2
        <4>2. Chain(t)[s[ch].parent] = Chain(s)[s[ch].parent] \ {ch}
          BY <1>3, <2>2, <3>4, <4>1
        <4> QED
          BY <3>2, <3>4, <4>2
      <3>5. CASE a # ch /\ s[a].parent = ch
        <4>1. t[a].parent = s[ch].parent
          BY <3>5
        <4>2. Chain(t)[s[ch].parent] = Chain(s)[ch] \ {ch}
          BY <2>2, <3>5
        <4> QED
          BY <3>2, <3>5, <4>1, <4>2
      <3>6. CASE a # ch /\ s[a].parent # ch
        <4>1. t[a].parent = s[a].parent
          BY <3>6
        <4>2. Chain(t)[s[a].parent] = Chain(s)[s[a].parent] \ {ch}
          <5>1. CASE s[a].parent = 0
            BY <3>2, <5>1
          <5>2. CASE s[a].parent # 0
            BY <2>2, <3>3, <3>6, <5>2
          <5> QED
            BY <5>1, <5>2
        <4> QED
          BY <3>2, <3>6, <4>1, <4>2
      <3> QED
        BY <3>4, <3>5, <3>6
    <2>3. b \in 0..m
      BY <1>1
    <2>4. b \in S
      <3> HIDE DEF S
      <3> QED
        BY <1>1, <2>1, <2>2, <2>3, ChainInduction
    <2> QED
      BY <1>1, <2>4
  <1>10. \A c \in K : t[c].frame = s[c].frame /\ FramesOf(t, c) = FramesOf(s, c)
    <2> SUFFICES ASSUME NEW c \in K PROVE t[c].frame = s[c].frame /\ FramesOf(t, c) = FramesOf(s, c)
      OBVIOUS
    <2>1. IsC(s, c) /\ c \in 1..m
      BY <1>2
    <2>2. t[c].frame = s[c].frame /\ IsF(s, s[c].frame)
      BY <1>1, <2>1 DEF IsC, Linked
    <2>3. s[c].frame \in 1..m
      BY <2>2 DEF IsF
    <2> QED
      BY <1>8, <2>2, <2>3 DEF FramesOf
  <1>11. Chain(t)[fr] = Chain(s)[fr] /\ FramesOf(s, ch) = Chain(s)[fr]
    BY <1>1, <1>8 DEF FramesOf
  <1>12. LiveIn(t, fr, b) = LiveIn(s, fr, b)
    <2> DEFINE U == UNION {FramesOf(s, c) : c \in K}
               V == UNION {FramesOf(t, c) : c \in Chain(t)[b]}
    <2>1. \A x : x \in V => x \in U
      BY <1>9, <1>10
    <2>2. \A x : x \in U => x \in V \/ x \in Chain(s)[fr]
      BY <1>9, <1>10, <1>11
    <2>3. LiveIn(t, fr, b) = (Chain(t)[fr] \cup V) \ {2} /\ LiveIn(s, fr, b) = (Chain(s)[fr] \cup U) \ {2}
      BY DEF LiveIn
    <2> HIDE DEF U, V
    <2> QED
      BY <1>11, <2>1, <2>2, <2>3
  <1>13. \A c \in Chain(t)[b] : Keeps(t, c, fr)
    BY <1>9, <1>10, <1>11 DEF Good, Keeps
  <1>14. \A c, d \in Chain(t)[b] : c < d => Keeps(t, c, t[d].frame)
    <2> SUFFICES ASSUME NEW c \in K, NEW d \in K, c < d PROVE Keeps(t, c, t[d].frame)
      BY <1>9
    <2>1. Keeps(s, c, s[d].frame)
      BY DEF Good
    <2>2. Chain(t)[t[d].frame] = Chain(s)[s[d].frame] /\ FramesOf(t, c) = FramesOf(s, c)
      BY <1>10 DEF FramesOf
    <2> QED
      BY <2>1, <2>2 DEF Keeps
  <1>15. \A x \in 1..m : IsC(t, x) => \A c \in Chain(t)[b] : c < x => c <= t[x].parent
    <2> SUFFICES ASSUME NEW x \in 1..m, IsC(t, x), NEW c \in K, c # ch, c < x PROVE c <= t[x].parent
      BY <1>9
    <2>1. IsC(s, x) /\ c <= s[x].parent
      BY <1>4 DEF Good
    <2>2. CASE x \in K /\ s[x].parent = ch
      <3>1. c < ch /\ c \in 1..m /\ ch \in 1..m /\ IsC(s, ch)
        BY <1>2, <2>1, <2>2
      <3>2. c <= s[ch].parent
        BY <3>1 DEF Good
      <3> QED
        BY <2>2, <3>2
    <2>3. CASE ~(x \in K /\ s[x].parent = ch)
      BY <2>1, <2>3
    <2> QED
      BY <2>2, <2>3
  <1>16. IsF(t, fr) /\ IsC(t, b)
    BY <1>1, <1>4
  <1>17. fr # 2 => 3 \in Chain(t)[fr]
    BY <1>11 DEF Good
  <1>18. \A c \in Chain(t)[b] : c # 1 => 3 \in FramesOf(t, c)
    BY <1>9, <1>10 DEF Good
  <1> QED
    BY <1>1, <1>7, <1>8, <1>9, <1>12, <1>13, <1>14, <1>15, <1>16, <1>17, <1>18 DEF Good

-----------------------------------------------------------------------------
(* The cells of the stack, and the choice points that variables remember. *)

FrameFields  == {"kind", "goal", "clause", "parent", "programPointer", "variables", "flags"}
ChoiceFields == {"kind", "frame", "parent", "next"}

IsSeq(s) == Len(s) \in Nat /\ s = [a \in 1..Len(s) |-> s[a]]

Cells(s) ==
  /\ IsSeq(s)
  /\ \A a \in 1..Len(s) : DOMAIN s[a] = IF s[a].kind = "frame" THEN FrameFields ELSE ChoiceFields
  /\ \A a \in 1..Len(s) : s[a].kind = "CHP_CLAUSE" => s[a].frame = a - 1
  /\ s[1].kind = "CHP_TOP"

(* No choice point that is older than the frame is newer than what a variable *)
(* of the frame holds.                                                        *)
Vars(s, b) ==
  \A f \in 1..Len(s) : IsF(s, f) =>
    \A v \in DOMAIN s[f].variables :
      /\ s[f].variables[v] \in Nat
      /\ s[f].variables[v] # 0 => \A c \in Chain(s)[b] : c < f => c <= s[f].variables[v]

Whole(s, fr, b) == Good(s, fr, b) /\ Cells(s) /\ Vars(s, b)

LEMMA EqualIntervals ==
  ASSUME NEW m \in Nat, NEW n \in Nat, 1..m = 1..n
  PROVE  m = n
  <1>1. m # 0 => m \in 1..n
    OBVIOUS
  <1>2. n # 0 => n \in 1..m
    OBVIOUS
  <1> QED
    BY <1>1, <1>2

LEMMA SeqOf ==
  ASSUME NEW s, IsSeq(s)
  PROVE  s \in Seq({s[a] : a \in 1..Len(s)})
  <1> DEFINE S == {s[a] : a \in 1..Len(s)}
  <1>1. \A a \in 1..Len(s) : s[a] \in S
    OBVIOUS
  <1>2. s \in [1..Len(s) -> S]
    BY <1>1 DEF IsSeq
  <1>3. Len(s) \in Nat
    BY DEF IsSeq
  <1> QED
    BY <1>2, <1>3

LEMMA Shortened ==
  ASSUME NEW s, IsSeq(s), NEW n \in Nat, n <= Len(s)
  PROVE  LET t == SubSeq(s, 1, n)
         IN  IsSeq(t) /\ Len(t) = n /\ \A a \in 1..n : t[a] = s[a]
  <1> DEFINE t == SubSeq(s, 1, n)
  <1>1. PICK S : s \in Seq(S)
    BY SeqOf
  <1>2. Len(s) \in Nat
    BY DEF IsSeq
  <1>3. t = [a \in 1..n |-> s[a]]
    BY <1>2
  <1>4. t \in Seq(S)
    BY <1>1, <1>2
  <1>5. Len(t) = n
    BY <1>3, <1>4
  <1> QED
    BY <1>3, <1>5 DEF IsSeq

LEMMA Appended ==
  ASSUME NEW s, IsSeq(s), NEW r
  PROVE  LET t == Append(s, r)
         IN  IsSeq(t) /\ Len(t) = Len(s) + 1 /\ (\A a \in 1..Len(s) : t[a] = s[a]) /\ t[Len(s) + 1] = r
  <1> DEFINE t == Append(s, r)  S == {s[a] : a \in 1..Len(s)} \cup {r}
  <1>1. s \in Seq({s[a] : a \in 1..Len(s)})
    BY SeqOf
  <1>2. s \in Seq(S) /\ r \in S
    BY <1>1
  <1>3. t \in Seq(S) /\ Len(t) = Len(s) + 1 /\ (\A a \in 1..Len(s) : t[a] = s[a]) /\ t[Len(s) + 1] = r
    <2> HIDE DEF S
    <2> QED BY <1>2
  <1>4. IsSeq(t)
    <2>1. t \in [1..Len(t) -> S] /\ Len(t) \in Nat
      <3> HIDE DEF S, t
      <3> QED
        BY <1>3, LenProperties
    <2> HIDE DEF S, t
    <2> QED
      BY <2>1 DEF IsSeq
  <1> QED
    BY <1>3, <1>4

LEMMA Replaced ==
  ASSUME NEW s, IsSeq(s), NEW i \in 1..Len(s), NEW r
  PROVE  LET t == [s EXCEPT ![i] = r]
         IN  IsSeq(t) /\ Len(t) = Len(s) /\ \A a \in 1..Len(s) : t[a] = IF a = i THEN r ELSE s[a]
  <1> DEFINE t == [s EXCEPT ![i] = r]  S == {s[a] : a \in 1..Len(s)} \cup {r}
  <1>1. s \in Seq({s[a] : a \in 1..Len(s)})
    BY SeqOf
  <1>2. s \in Seq(S) /\ r \in S
    BY <1>1
  <1>3. t \in Seq(S) /\ Len(t) = Len(s) /\ \A a \in 1..Len(s) : t[a] = IF a = i THEN r ELSE s[a]
    <2> HIDE DEF S
    <2> QED
      BY <1>2, ExceptSeq
  <1>4. t \in [1..Len(t) -> S] /\ Len(t) \in Nat
    <2> HIDE DEF S, t
    <2> QED
      BY <1>3, LenProperties
  <1>5. IsSeq(t)
    <2> HIDE DEF S, t
    <2> QED
      BY <1>4 DEF IsSeq
  <1> QED
    BY <1>3, <1>5

LEMMA Joined ==
  ASSUME NEW s, IsSeq(s), NEW r, NEW q
  PROVE  s \o <<r>> \o <<>> = Append(s, r) /\ s \o <<r>> \o <<q>> = Append(Append(s, r), q)
         /\ s \o <<r, q>> = Append(Append(s, r), q)
  <1> DEFINE S == {s[a] : a \in 1..Len(s)} \cup {r, q}
  <1>1. s \in Seq({s[a] : a \in 1..Len(s)})
    BY SeqOf
  <1>2. s \in Seq(S) /\ r \in S /\ q \in S
    BY <1>1
  <1> HIDE DEF S
  <1>3. s \o <<r>> = Append(s, r)
    BY <1>2
  <1>4. Append(s, r) \in Seq(S)
    BY <1>2
  <1>5. Append(s, r) \o <<>> = Append(s, r) /\ Append(s, r) \o <<q>> = Append(Append(s, r), q)
    BY <1>2, <1>4
  <1>6. s \o <<r, q>> = Append(Append(s, r), q)
    BY <1>2
  <1> QED
    BY <1>3, <1>5, <1>6

-----------------------------------------------------------------------------
(* The same steps, on whole stacks. *)

LEMMA VarsFewer ==
  ASSUME NEW s, NEW b, Vars(s, b), NEW c, Chain(s)[c] \subseteq Chain(s)[b]
  PROVE  Vars(s, c)
  BY DEF Vars

LEMMA WholeFewer ==
  ASSUME NEW s, NEW fr, NEW b, Whole(s, fr, b), NEW c \in Chain(s)[b]
  PROVE  Whole(s, fr, c) /\ Chain(s)[c] = {d \in Chain(s)[b] : d <= c}
  <1>1. Good(s, fr, c) /\ Chain(s)[c] = {d \in Chain(s)[b] : d <= c}
    BY FewerChoices DEF Whole
  <1>2. Vars(s, c)
    BY <1>1, VarsFewer DEF Whole
  <1> QED
    BY <1>1, <1>2 DEF Whole

LEMMA WholeOther ==
  ASSUME NEW s, NEW fr, NEW b, Whole(s, fr, b), NEW g, NEW c,
         Chain(s)[c] \subseteq Chain(s)[b], Good(s, g, c)
  PROVE  Whole(s, g, c)
  <1>1. Vars(s, c)
    BY VarsFewer DEF Whole
  <1> QED
    BY <1>1 DEF Whole

(* The cells of t up to m are those of s, but for what is not a pointer and *)
(* for variables.                                                           *)
Same(s, t, m) ==
  \A a \in 1..m :
    /\ DOMAIN t[a] = DOMAIN s[a] /\ t[a].kind = s[a].kind /\ t[a].parent = s[a].parent
    /\ s[a].kind # "frame" => t[a].frame = s[a].frame

LEMMA WholeRestack ==
  ASSUME NEW s, NEW fr, NEW b, Whole(s, fr, b), NEW t, IsSeq(t),
         Len(t) >= 2, Len(t) <= Len(s), fr <= Len(t), b <= Len(t), Same(s, t, Len(t)),
         \A f \in 1..Len(t) : IsF(s, f) => \A v \in DOMAIN t[f].variables :
           \/ v \in DOMAIN s[f].variables /\ t[f].variables[v] = s[f].variables[v]
           \/ t[f].variables[v] \in Nat /\ (t[f].variables[v] # 0 => t[f].variables[v] >= b)
  PROVE  /\ Whole(t, fr, b) /\ LiveIn(t, fr, b) = LiveIn(s, fr, b)
         /\ \A g \in 0..Len(t) : Chain(t)[g] = Chain(s)[g]
  <1> DEFINE m == Len(t)
  <1>1. Good(s, fr, b) /\ Cells(s) /\ Vars(s, b) /\ m \in Nat /\ Len(s) \in Nat /\ b \in 1..Len(s)
    BY GoodFacts DEF Whole, IsSeq
  <1>2. Agree(s, t, m)
    BY DEF Agree, Same
  <1>3. Good(t, fr, b) /\ LiveIn(t, fr, b) = LiveIn(s, fr, b)
        /\ \A g \in 0..m : Chain(t)[g] = Chain(s)[g]
    BY <1>1, <1>2, Restack
  <1>4. \A a \in 1..m : a \in 1..Len(s)
    BY <1>1
  <1>5. Cells(t)
    <2>1. \A a \in 1..m : DOMAIN t[a] = IF t[a].kind = "frame" THEN FrameFields ELSE ChoiceFields
      BY <1>1, <1>4 DEF Cells, Same
    <2>2. \A a \in 1..m : t[a].kind = "CHP_CLAUSE" => t[a].frame = a - 1
      BY <1>1, <1>4 DEF Cells, Same
    <2>3. t[1].kind = "CHP_TOP"
      BY <1>1 DEF Cells, Same
    <2> QED
      BY <2>1, <2>2, <2>3 DEF Cells
  <1>6. Vars(t, b)
    <2> SUFFICES ASSUME NEW f \in 1..m, IsF(t, f), NEW v \in DOMAIN t[f].variables
                 PROVE  /\ t[f].variables[v] \in Nat
                        /\ t[f].variables[v] # 0 => \A c \in Chain(t)[b] : c < f => c <= t[f].variables[v]
      BY DEF Vars
    <2>1. f \in 1..Len(s) /\ IsF(s, f)
      BY <1>4 DEF IsF, Same
    <2>2. Chain(t)[b] = Chain(s)[b]
      BY <1>1, <1>3
    <2>3. CASE v \in DOMAIN s[f].variables /\ t[f].variables[v] = s[f].variables[v]
      BY <1>1, <2>1, <2>2, <2>3 DEF Vars
    <2>4. CASE t[f].variables[v] \in Nat /\ (t[f].variables[v] # 0 => t[f].variables[v] >= b)
      <3>1. \A c \in Chain(s)[b] : c \in 1..b
        BY <1>1, GoodFacts
      <3> QED
        BY <1>1, <2>2, <2>4, <3>1
    <2> QED
      BY <2>1, <2>3, <2>4
  <1> QED
    BY <1>3, <1>5, <1>6 DEF Whole

(* lTop is set back. *)
LEMMA WholeUpTo ==
  ASSUME NEW s, NEW fr, NEW b, Whole(s, fr, b), NEW n \in Nat, n >= 2, n <= Len(s), fr <= n, b <= n
  PROVE  LET t == SubSeq(s, 1, n)
         IN  /\ Whole(t, fr, b) /\ LiveIn(t, fr, b) = LiveIn(s, fr, b)
             /\ Len(t) = n /\ \A a \in 1..n : t[a] = s[a]
             /\ \A g \in 0..n : Chain(t)[g] = Chain(s)[g]
  <1> DEFINE t == SubSeq(s, 1, n)
  <1>1. IsSeq(s)
    BY DEF Whole, Cells
  <1>2. IsSeq(t) /\ Len(t) = n /\ \A a \in 1..n : t[a] = s[a]
    BY <1>1, Shortened
  <1> HIDE DEF t
  <1>3. Same(s, t, Len(t))
    BY <1>2 DEF Same
  <1>4. \A f \in 1..Len(t) : \A v \in DOMAIN t[f].variables :
          v \in DOMAIN s[f].variables /\ t[f].variables[v] = s[f].variables[v]
    BY <1>2
  <1>5. /\ Whole(t, fr, b) /\ LiveIn(t, fr, b) = LiveIn(s, fr, b)
        /\ \A g \in 0..Len(t) : Chain(t)[g] = Chain(s)[g]
    BY <1>2, <1>3, <1>4, WholeRestack
  <1> QED
    BY <1>2, <1>5 DEF t

(* newChoice() *)
LEMMA WholeChoice ==
  ASSUME NEW s, NEW fr, NEW b, Whole(s, fr, b), fr # 2,
         NEW t, IsSeq(t), Len(t) = Len(s) + 1, \A a \in 1..Len(s) : t[a] = s[a],
         NEW r, t[Len(t)] = r, DOMAIN r = ChoiceFields, r.kind # "frame", r.frame = fr, r.parent = b,
         r.kind = "CHP_CLAUSE" => fr = Len(s)
  PROVE  /\ Whole(t, fr, Len(t)) /\ LiveIn(t, fr, Len(t)) = LiveIn(s, fr, b)
         /\ Chain(t)[Len(t)] = {Len(t)} \cup Chain(s)[b]
         /\ \A g \in 0..Len(s) : Chain(t)[g] = Chain(s)[g]
  <1> DEFINE m == Len(s)
  <1>1. IsSeq(s) /\ Good(s, fr, b) /\ Cells(s) /\ Vars(s, b) /\ m \in Nat /\ fr \in 2..m
    BY GoodFacts DEF Whole, Cells
  <1>2. IsSeq(t) /\ Len(t) = m + 1 /\ (\A a \in 1..m : t[a] = s[a]) /\ t[m + 1] = r
    OBVIOUS
  <1>3. r.kind # "frame" /\ r.frame = fr /\ r.parent = b /\ DOMAIN r = ChoiceFields
    OBVIOUS
  <1> HIDE DEF m
  <1>4. Agree(s, t, m)
    BY <1>2 DEF Agree
  <1>5. t[Len(t)] = r
    BY <1>2
  <1>6. /\ Good(t, fr, Len(t)) /\ LiveIn(t, fr, Len(t)) = LiveIn(s, fr, b)
        /\ Chain(t)[Len(t)] = {Len(t)} \cup Chain(s)[b]
        /\ \A g \in 0..m : Chain(t)[g] = Chain(s)[g]
    <2>1. t[Len(t)].kind # "frame" /\ t[Len(t)].frame = fr /\ t[Len(t)].parent = b /\ Len(t) = Len(s) + 1
      BY <1>2, <1>3, <1>5 DEF m
    <2> QED
      BY <1>1, <1>4, <2>1, PushChoice DEF m
  <1>7. \A a \in 1..Len(t) : a \in 1..m \/ a = m + 1
    BY <1>1, <1>2
  <1>8. Cells(t)
    <2>1. \A a \in 1..m : DOMAIN t[a] = IF t[a].kind = "frame" THEN FrameFields ELSE ChoiceFields
      BY <1>1, <1>2 DEF Cells, m
    <2>2. \A a \in 1..m : t[a].kind = "CHP_CLAUSE" => t[a].frame = a - 1
      BY <1>1, <1>2 DEF Cells, m
    <2>3. t[1].kind = "CHP_TOP"
      BY <1>1, <1>2 DEF Cells
    <2>4. t[m + 1].kind = "CHP_CLAUSE" => t[m + 1].frame = (m + 1) - 1
      BY <1>1, <1>2, <1>3 DEF m
    <2>5. DOMAIN t[m + 1] = ChoiceFields /\ t[m + 1].kind # "frame"
      BY <1>2, <1>3
    <2>6. \A a \in 1..Len(t) : DOMAIN t[a] = IF t[a].kind = "frame" THEN FrameFields ELSE ChoiceFields
      BY <1>7, <2>1, <2>5
    <2>7. \A a \in 1..Len(t) : t[a].kind = "CHP_CLAUSE" => t[a].frame = a - 1
      BY <1>7, <2>2, <2>4
    <2> QED
      BY <1>2, <2>3, <2>6, <2>7 DEF Cells
  <1>9. Vars(t, Len(t))
    <2> SUFFICES ASSUME NEW f \in 1..Len(t), IsF(t, f), NEW v \in DOMAIN t[f].variables
                 PROVE  /\ t[f].variables[v] \in Nat
                        /\ t[f].variables[v] # 0 => \A c \in Chain(t)[Len(t)] : c < f => c <= t[f].variables[v]
      BY DEF Vars
    <2>1. f \in 1..m /\ t[f] = s[f]
      BY <1>2, <1>3, <1>7 DEF IsF
    <2>2. IsF(s, f) /\ v \in DOMAIN s[f].variables
      BY <2>1 DEF IsF, m
    <2>3. /\ s[f].variables[v] \in Nat
          /\ s[f].variables[v] # 0 => \A c \in Chain(s)[b] : c < f => c <= s[f].variables[v]
      BY <1>1, <2>1, <2>2 DEF Vars, m
    <2>4. ~(Len(t) < f)
      BY <1>1, <1>2, <2>1
    <2> QED
      BY <1>6, <2>1, <2>3, <2>4
  <1>10. Whole(t, fr, Len(t))
    BY <1>6, <1>8, <1>9 DEF Whole
  <1> QED
    BY <1>1, <1>2, <1>5, <1>6, <1>10 DEF m

LEMMA WholeCall ==
  ASSUME NEW s, NEW fr, NEW b, Whole(s, fr, b), fr # 2 \/ Len(s) = 2,
         NEW goal, NEW clause, NEW ret
  PROVE  LET t == Append(s, Frame(goal, clause, fr, ret))
         IN  /\ Whole(t, Len(s) + 1, b) /\ LiveIn(t, Len(s) + 1, b) = LiveIn(s, fr, b) \cup {Len(s) + 1}
             /\ Len(s) + 1 \notin LiveIn(s, fr, b)
             /\ Len(t) = Len(s) + 1 /\ Len(s) \in Nat /\ Len(s) >= 2
             /\ (\A a \in 1..Len(s) : t[a] = s[a]) /\ t[Len(s) + 1] = Frame(goal, clause, fr, ret)
             /\ Chain(t)[Len(s) + 1] = {Len(s) + 1} \cup Chain(s)[fr]
             /\ \A g \in 0..Len(s) : Chain(t)[g] = Chain(s)[g]
  <1> DEFINE r == Frame(goal, clause, fr, ret)
             t == Append(s, r)
             m == Len(s)
             n == m + 1
  <1>1. IsSeq(s) /\ Good(s, fr, b) /\ Cells(s) /\ Vars(s, b) /\ m \in Nat /\ m >= 2 /\ b \in 1..m
    BY GoodFacts DEF Whole, Cells
  <1>2. IsSeq(t) /\ Len(t) = n /\ (\A a \in 1..m : t[a] = s[a]) /\ t[n] = r
    BY <1>1, Appended
  <1>3. r.kind = "frame" /\ r.parent = fr /\ DOMAIN r = FrameFields
    BY DEF Frame, FrameFields
  <1>4. \A v \in DOMAIN r.variables : r.variables[v] = 0
    BY DEF Frame
  <1> HIDE DEF t, r, m
  <1>5. Agree(s, t, m)
    BY <1>2 DEF Agree
  <1>6. t[Len(t)] = r
    BY <1>2
  <1>7. /\ Good(t, n, b) /\ LiveIn(t, n, b) = LiveIn(s, fr, b) \cup {n}
        /\ n \notin LiveIn(s, fr, b)
        /\ \A g \in 0..m : Chain(t)[g] = Chain(s)[g]
        /\ Chain(t)[n] = {n} \cup Chain(s)[fr]
    BY <1>1, <1>2, <1>3, <1>5, <1>6, PushFrame DEF m
  <1>8. \A a \in 1..Len(t) : a \in 1..m \/ a = n
    BY <1>1, <1>2
  <1>9. Cells(t)
    <2>1. \A a \in 1..m : DOMAIN t[a] = IF t[a].kind = "frame" THEN FrameFields ELSE ChoiceFields
      BY <1>1, <1>2 DEF Cells, m
    <2>2. \A a \in 1..m : t[a].kind = "CHP_CLAUSE" => t[a].frame = a - 1
      BY <1>1, <1>2 DEF Cells, m
    <2>3. t[1].kind = "CHP_TOP"
      BY <1>1, <1>2 DEF Cells
    <2>4. t[n].kind # "CHP_CLAUSE" /\ DOMAIN t[n] = FrameFields /\ t[n].kind = "frame"
      BY <1>1, <1>2, <1>3
    <2>6. \A a \in 1..Len(t) : DOMAIN t[a] = IF t[a].kind = "frame" THEN FrameFields ELSE ChoiceFields
      BY <1>8, <2>1, <2>4
    <2>7. \A a \in 1..Len(t) : t[a].kind = "CHP_CLAUSE" => t[a].frame = a - 1
      BY <1>8, <2>2, <2>4
    <2> QED
      BY <1>2, <2>3, <2>6, <2>7 DEF Cells
  <1>10. Vars(t, b)
    <2> SUFFICES ASSUME NEW f \in 1..Len(t), IsF(t, f), NEW v \in DOMAIN t[f].variables
                 PROVE  /\ t[f].variables[v] \in Nat
                        /\ t[f].variables[v] # 0 => \A c \in Chain(t)[b] : c < f => c <= t[f].variables[v]
      BY DEF Vars
    <2>1. CASE f = n
      BY <1>2, <1>4, <2>1
    <2>2. CASE f \in 1..m
      <3>1. IsF(s, f) /\ v \in DOMAIN s[f].variables /\ t[f] = s[f]
        BY <1>2, <2>2 DEF IsF, m
      <3>2. /\ s[f].variables[v] \in Nat
            /\ s[f].variables[v] # 0 => \A c \in Chain(s)[b] : c < f => c <= s[f].variables[v]
        BY <1>1, <2>2, <3>1 DEF Vars, m
      <3>3. Chain(t)[b] = Chain(s)[b]
        BY <1>1, <1>7
      <3> QED
        BY <3>1, <3>2, <3>3
    <2> QED
      BY <1>8, <2>1, <2>2
  <1>11. Whole(t, n, b)
    BY <1>7, <1>9, <1>10 DEF Whole
  <1> QED
    BY <1>1, <1>2, <1>7, <1>11 DEF t, r, m

(* The stack and the registers after EnterGoal(): a frame, and a choice point *)
(* if there is another clause                                                 *)
LEMMA WholeEnter ==
  ASSUME NEW past, NEW base, NEW b, NEW goal, NEW fr, NEW ret,
         Whole(base, fr, b), fr # 2 \/ Len(base) = 2,
         EnterGoal(past, base, b, goal, fr, ret)
  PROVE  /\ Whole(stack', FR', BFR') /\ FR' = Len(base) + 1
         /\ LiveIn(stack', FR', BFR') = LiveIn(base, fr, b) \cup {Len(base) + 1}
         /\ Len(base) + 1 \notin LiveIn(base, fr, b)
         /\ mode' \in {"run", "fail"} /\ FR' # 2 /\ PC' = 1
         /\ Len(base) \in Nat /\ Len(stack') \in Nat /\ Len(stack') >= Len(base) + 1
         /\ \A a \in 1..Len(base) : stack'[a] = base[a]
         /\ \E clause : stack'[Len(base) + 1] = Frame(goal, clause, fr, ret)
         /\ \A a \in 1..Len(stack') : a > Len(base) + 1 => \E next : stack'[a] = Choice("CHP_CLAUSE", Len(base) + 1, b, next)
         /\ Chain(stack')[FR'] = {FR'} \cup Chain(base)[fr]
         /\ \A g \in 0..Len(base) : Chain(stack')[g] = Chain(base)[g]
         /\ Chain(stack')[BFR'] = Chain(base)[b] \/ Chain(stack')[BFR'] = {Len(base) + 2} \cup Chain(base)[b]
  <1> DEFINE cs == Clauses(goal)
             clause == IF cs = <<>> THEN NoClause ELSE cs[1]
             f == Len(base) + 1
             r == Frame(goal, clause, fr, ret)
             t == Append(base, r)
             q == Choice("CHP_CLAUSE", f, b, 2)
  <1>1. /\ FR' = f /\ PC' = 1 /\ mode' \in {"run", "fail"}
        /\ BFR' = IF Len(cs) > 1 THEN f + 1 ELSE b
        /\ stack' = base \o <<r>> \o (IF Len(cs) > 1 THEN <<q>> ELSE <<>>)
    BY DEF EnterGoal
  <1>2. IsSeq(base) /\ b \in 0..Len(base)
    BY GoodFacts DEF Whole, Cells
  <1>3. base \o <<r>> \o <<>> = t /\ base \o <<r>> \o <<q>> = Append(t, q)
    BY <1>2, Joined
  <1>4. /\ Whole(t, f, b) /\ LiveIn(t, f, b) = LiveIn(base, fr, b) \cup {f}
        /\ f \notin LiveIn(base, fr, b)
        /\ Len(t) = f /\ Len(base) \in Nat /\ Len(base) >= 2
        /\ (\A a \in 1..Len(base) : t[a] = base[a]) /\ t[f] = r
        /\ Chain(t)[f] = {f} \cup Chain(base)[fr]
        /\ \A g \in 0..Len(base) : Chain(t)[g] = Chain(base)[g]
    BY WholeCall
  <1>5. f # 2 /\ f \in Nat /\ f >= 3 /\ f > Len(base)
    BY <1>4
  <1>6. Chain(t)[b] = Chain(base)[b]
    BY <1>2, <1>4
  <1>7. CASE Len(cs) > 1
    <2> DEFINE u == Append(t, q)
    <2>1. stack' = u /\ BFR' = Len(t) + 1
      BY <1>1, <1>3, <1>4, <1>7
    <2> HIDE DEF t, r, cs, clause, u
    <2>a. Whole(t, f, b) /\ f # 2 /\ f = Len(t)
      BY <1>4, <1>5
    <2>b. IsSeq(u) /\ Len(u) = Len(t) + 1 /\ (\A a \in 1..Len(t) : u[a] = t[a]) /\ u[Len(t) + 1] = q
      <3>1. IsSeq(t)
        BY <1>4 DEF Whole, Cells
      <3> QED
        BY <3>1, Appended DEF u
    <2>2. /\ Whole(u, f, Len(u)) /\ LiveIn(u, f, Len(u)) = LiveIn(t, f, b)
          /\ Chain(u)[Len(u)] = {Len(u)} \cup Chain(t)[b]
          /\ \A g \in 0..Len(t) : Chain(u)[g] = Chain(t)[g]
      <3>1. q.kind = "CHP_CLAUSE" /\ q.frame = f /\ q.parent = b /\ DOMAIN q = ChoiceFields
        BY DEF Choice, ChoiceFields
      <3> HIDE DEF f, q
      <3>2. u[Len(u)] = q
        BY <2>b
      <3>3. q.kind # "frame" /\ (q.kind = "CHP_CLAUSE" => f = Len(t))
        BY <2>a, <3>1
      <3>4. IsSeq(u) /\ Len(u) = Len(t) + 1 /\ (\A a \in 1..Len(t) : u[a] = t[a])
        BY <2>b
      <3>5. Whole(t, f, b) /\ f # 2
        BY <2>a
      <3> QED
        BY <3>1, <3>2, <3>3, <3>4, <3>5, WholeChoice
    <2> HIDE DEF q
    <2>4. Len(stack') \in Nat /\ Len(stack') = f + 1
      BY <1>4, <1>5, <2>1, <2>2, <2>b
    <2>5. \A a \in 1..Len(base) : stack'[a] = base[a] /\ a \in 1..Len(t)
      BY <1>4, <1>5, <2>1, <2>2, <2>b
    <2>6. stack'[f] = r
      BY <1>4, <1>5, <2>1, <2>2, <2>b
    <2>7. \A a \in 1..Len(stack') : a > f => stack'[a] = q
      BY <1>4, <1>5, <2>1, <2>b, <2>4
    <2>8. Chain(stack')[f] = {f} \cup Chain(base)[fr]
      BY <1>4, <1>5, <2>1, <2>2, <2>b
    <2>9. \A g \in 0..Len(base) : Chain(stack')[g] = Chain(base)[g]
      BY <1>4, <1>5, <2>1, <2>2, <2>b
    <2>10. Chain(stack')[BFR'] = {Len(base) + 2} \cup Chain(base)[b]
      BY <1>4, <1>5, <1>6, <2>1, <2>2, <2>b
    <2>11. \E x : stack'[f] = Frame(goal, x, fr, ret)
      BY <2>6 DEF r
    <2>12. \A a \in 1..Len(stack') : a > f => \E next : stack'[a] = Choice("CHP_CLAUSE", f, b, next)
      BY <2>7 DEF q
    <2>13. Whole(stack', FR', BFR') /\ LiveIn(stack', FR', BFR') = LiveIn(base, fr, b) \cup {f}
      BY <1>1, <1>4, <2>1, <2>2, <2>b
    <2>14. Len(stack') >= f /\ f = Len(base) + 1 /\ FR' # 2
      BY <1>1, <1>5, <2>4
    <2>15. \A a \in 1..Len(base) : stack'[a] = base[a]
      BY <2>5
    <2> QED
      BY <1>1, <1>4, <2>4, <2>15, <2>8, <2>9, <2>10, <2>11, <2>12, <2>13, <2>14
  <1>8. CASE ~(Len(cs) > 1)
    <2>1. stack' = t /\ BFR' = b
      BY <1>1, <1>3, <1>8
    <2> HIDE DEF t, cs, clause
    <2>2. \A a \in 1..Len(t) : ~(a > f)
      BY <1>4, <1>5
    <2>3. \E x : stack'[f] = Frame(goal, x, fr, ret)
      BY <1>4, <2>1 DEF r
    <2>4. Whole(stack', FR', BFR') /\ LiveIn(stack', FR', BFR') = LiveIn(base, fr, b) \cup {f}
      BY <1>1, <1>4, <2>1
    <2>5. Len(stack') \in Nat /\ Len(stack') >= f /\ f = Len(base) + 1 /\ FR' # 2
      BY <1>1, <1>4, <1>5, <2>1
    <2>6. \A a \in 1..Len(base) : stack'[a] = base[a]
      BY <1>4, <2>1
    <2>7. \A a \in 1..Len(stack') : ~(a > f)
      BY <2>1, <2>2
    <2> HIDE DEF f
    <2> QED
      BY <1>1, <1>4, <1>6, <2>1, <2>3, <2>4, <2>5, <2>6, <2>7
  <1> QED
    BY <1>7, <1>8

(* A variable of a frame is set, or a frame is flagged. *)
VarSetIn(s, f, v, x) == [s EXCEPT ![f].variables[v] = x]
FlaggedIn(s, f, fl)  == [s EXCEPT ![f].flags = @ \cup {fl}]

LEMMA VarSetCells ==
  ASSUME NEW s, IsSeq(s), NEW f \in 1..Len(s), DOMAIN s[f] = FrameFields, NEW v, NEW x
  PROVE  LET u == VarSetIn(s, f, v, x)
         IN  /\ IsSeq(u) /\ Len(u) = Len(s) /\ \A a \in 1..Len(s) : a # f => u[a] = s[a]
             /\ DOMAIN u[f] = FrameFields /\ u[f].kind = s[f].kind /\ u[f].parent = s[f].parent
             /\ u[f].flags = s[f].flags /\ u[f].goal = s[f].goal /\ u[f].clause = s[f].clause
             /\ u[f].programPointer = s[f].programPointer
             /\ \A w \in DOMAIN u[f].variables : w \in DOMAIN s[f].variables
                  /\ (u[f].variables[w] = s[f].variables[w] \/ u[f].variables[w] = x)
  <1> DEFINE r == [s[f] EXCEPT !.variables[v] = x]
             t == [s EXCEPT ![f] = r]
  <1>1. VarSetIn(s, f, v, x) = t
    BY DEF VarSetIn
  <1>2. DOMAIN r = FrameFields /\ r.kind = s[f].kind /\ r.parent = s[f].parent /\ r.flags = s[f].flags
        /\ r.goal = s[f].goal /\ r.programPointer = s[f].programPointer /\ r.clause = s[f].clause
    BY DEF FrameFields
  <1>3. r.variables = [s[f].variables EXCEPT ![v] = x]
    BY DEF FrameFields
  <1>4. \A w \in DOMAIN r.variables : w \in DOMAIN s[f].variables
          /\ (r.variables[w] = s[f].variables[w] \/ r.variables[w] = x)
    BY <1>3
  <1> HIDE DEF r
  <1>5. IsSeq(t) /\ Len(t) = Len(s) /\ \A a \in 1..Len(s) : t[a] = IF a = f THEN r ELSE s[a]
    <2>1. \A i \in 1..Len(s) : \A q :
            LET u == [s EXCEPT ![i] = q]
            IN  IsSeq(u) /\ Len(u) = Len(s) /\ \A a \in 1..Len(s) : u[a] = IF a = i THEN q ELSE s[a]
      BY Replaced
    <2> QED
      BY <2>1
  <1> HIDE DEF t
  <1>6. t[f] = r /\ \A a \in 1..Len(s) : a # f => t[a] = s[a]
    BY <1>5
  <1> QED
    BY <1>1, <1>2, <1>4, <1>5, <1>6

LEMMA FlaggedCells ==
  ASSUME NEW s, IsSeq(s), NEW f \in 1..Len(s), DOMAIN s[f] = FrameFields, NEW fl
  PROVE  LET u == FlaggedIn(s, f, fl)
         IN  /\ IsSeq(u) /\ Len(u) = Len(s) /\ \A a \in 1..Len(s) : a # f => u[a] = s[a]
             /\ DOMAIN u[f] = FrameFields /\ u[f].kind = s[f].kind /\ u[f].parent = s[f].parent
             /\ u[f].flags = s[f].flags \cup {fl} /\ u[f].goal = s[f].goal /\ u[f].clause = s[f].clause
             /\ u[f].programPointer = s[f].programPointer /\ u[f].variables = s[f].variables
  <1> DEFINE r == [s[f] EXCEPT !.flags = @ \cup {fl}]
             t == [s EXCEPT ![f] = r]
  <1>1. FlaggedIn(s, f, fl) = t
    BY DEF FlaggedIn
  <1>2. DOMAIN r = FrameFields /\ r.kind = s[f].kind /\ r.parent = s[f].parent
        /\ r.flags = s[f].flags \cup {fl} /\ r.variables = s[f].variables
        /\ r.goal = s[f].goal /\ r.programPointer = s[f].programPointer /\ r.clause = s[f].clause
    BY DEF FrameFields
  <1> HIDE DEF r
  <1>5. IsSeq(t) /\ Len(t) = Len(s) /\ \A a \in 1..Len(s) : t[a] = IF a = f THEN r ELSE s[a]
    <2>1. \A i \in 1..Len(s) : \A q :
            LET u == [s EXCEPT ![i] = q]
            IN  IsSeq(u) /\ Len(u) = Len(s) /\ \A a \in 1..Len(s) : u[a] = IF a = i THEN q ELSE s[a]
      BY Replaced
    <2> QED
      BY <2>1
  <1> HIDE DEF t
  <1>6. t[f] = r /\ \A a \in 1..Len(s) : a # f => t[a] = s[a]
    BY <1>5
  <1> QED
    BY <1>1, <1>2, <1>5, <1>6

(* A frame changes, but for its pointers; its variables may be set to choice *)
(* points that are as new as the newest.                                     *)
LEMMA WholeChange ==
  ASSUME NEW s, NEW fr, NEW b, Whole(s, fr, b), NEW f \in 1..Len(s), IsF(s, f),
         NEW u, IsSeq(u), Len(u) = Len(s), \A a \in 1..Len(s) : a # f => u[a] = s[a],
         DOMAIN u[f] = FrameFields, u[f].kind = s[f].kind, u[f].parent = s[f].parent,
         \A w \in DOMAIN u[f].variables :
           \/ w \in DOMAIN s[f].variables /\ u[f].variables[w] = s[f].variables[w]
           \/ u[f].variables[w] \in Nat /\ (u[f].variables[w] # 0 => u[f].variables[w] >= b)
  PROVE  /\ Whole(u, fr, b) /\ LiveIn(u, fr, b) = LiveIn(s, fr, b)
         /\ \A g \in 0..Len(s) : Chain(u)[g] = Chain(s)[g]
  <1>1. Cells(s) /\ Len(s) \in Nat /\ Len(s) >= 2 /\ fr <= Len(s) /\ b <= Len(s)
    BY GoodFacts DEF Whole
  <1>2. DOMAIN s[f] = FrameFields /\ s[f].kind = "frame"
    BY <1>1 DEF Cells, IsF
  <1>3. Same(s, u, Len(u))
    <2> SUFFICES ASSUME NEW a \in 1..Len(s)
                 PROVE  /\ DOMAIN u[a] = DOMAIN s[a] /\ u[a].kind = s[a].kind /\ u[a].parent = s[a].parent
                        /\ s[a].kind # "frame" => u[a].frame = s[a].frame
      BY DEF Same
    <2>1. a = f \/ u[a] = s[a]
      OBVIOUS
    <2> QED
      BY <1>2, <2>1
  <1>4. \A g \in 1..Len(u) : IsF(s, g) => \A w \in DOMAIN u[g].variables :
           \/ w \in DOMAIN s[g].variables /\ u[g].variables[w] = s[g].variables[w]
           \/ u[g].variables[w] \in Nat /\ (u[g].variables[w] # 0 => u[g].variables[w] >= b)
    <2> SUFFICES ASSUME NEW g \in 1..Len(s), NEW w \in DOMAIN u[g].variables
                 PROVE  \/ w \in DOMAIN s[g].variables /\ u[g].variables[w] = s[g].variables[w]
                        \/ u[g].variables[w] \in Nat /\ (u[g].variables[w] # 0 => u[g].variables[w] >= b)
      OBVIOUS
    <2>1. g = f \/ u[g] = s[g]
      OBVIOUS
    <2> QED
      BY <2>1
  <1>5. Len(u) >= 2 /\ Len(u) <= Len(s) /\ fr <= Len(u) /\ b <= Len(u)
    BY <1>1
  <1> QED
    BY <1>3, <1>4, <1>5, WholeRestack

LEMMA WholeSetVar ==
  ASSUME NEW s, NEW fr, NEW b, Whole(s, fr, b), NEW v, NEW x \in Nat, x >= b,
         NEW u, u = VarSetIn(s, fr, v, x)
  PROVE  /\ Whole(u, fr, b) /\ LiveIn(u, fr, b) = LiveIn(s, fr, b) /\ Len(u) = Len(s)
         /\ \A g \in 0..Len(s) : Chain(u)[g] = Chain(s)[g]
         /\ \A a \in 1..Len(s) : a # fr => u[a] = s[a]
         /\ IsSeq(u) /\ u[fr].flags = s[fr].flags /\ u[fr].goal = s[fr].goal
         /\ u[fr].programPointer = s[fr].programPointer /\ u[fr].clause = s[fr].clause
         /\ u[fr].parent = s[fr].parent /\ u[fr].kind = s[fr].kind
  <1>1. Cells(s) /\ IsSeq(s) /\ fr \in 1..Len(s) /\ IsF(s, fr)
    <2>1. fr \in 2..Len(s) /\ Len(s) \in Nat
      BY GoodFacts DEF Whole
    <2> QED
      BY <2>1 DEF Whole, Cells, Good
  <1>2. DOMAIN s[fr] = FrameFields
    BY <1>1 DEF Cells, IsF
  <1>3. /\ IsSeq(u) /\ Len(u) = Len(s) /\ \A a \in 1..Len(s) : a # fr => u[a] = s[a]
        /\ DOMAIN u[fr] = FrameFields /\ u[fr].kind = s[fr].kind /\ u[fr].parent = s[fr].parent
        /\ u[fr].flags = s[fr].flags /\ u[fr].goal = s[fr].goal /\ u[fr].clause = s[fr].clause
        /\ u[fr].programPointer = s[fr].programPointer
        /\ \A w \in DOMAIN u[fr].variables : w \in DOMAIN s[fr].variables
             /\ (u[fr].variables[w] = s[fr].variables[w] \/ u[fr].variables[w] = x)
    BY <1>1, <1>2, VarSetCells
  <1>4. \A w \in DOMAIN u[fr].variables :
           \/ w \in DOMAIN s[fr].variables /\ u[fr].variables[w] = s[fr].variables[w]
           \/ u[fr].variables[w] \in Nat /\ (u[fr].variables[w] # 0 => u[fr].variables[w] >= b)
    BY <1>3
  <1>5. /\ Whole(u, fr, b) /\ LiveIn(u, fr, b) = LiveIn(s, fr, b)
        /\ \A g \in 0..Len(s) : Chain(u)[g] = Chain(s)[g]
    BY <1>1, <1>3, <1>4, WholeChange
  <1> QED
    BY <1>3, <1>5

LEMMA WholeFlag ==
  ASSUME NEW s, NEW fr, NEW b, Whole(s, fr, b), NEW f \in 1..Len(s), IsF(s, f), NEW fl,
         NEW u, u = FlaggedIn(s, f, fl)
  PROVE  /\ Whole(u, fr, b) /\ LiveIn(u, fr, b) = LiveIn(s, fr, b) /\ Len(u) = Len(s)
         /\ \A g \in 0..Len(s) : Chain(u)[g] = Chain(s)[g]
         /\ \A a \in 1..Len(s) : a # f => u[a] = s[a]
         /\ IsSeq(u) /\ u[f].flags = s[f].flags \cup {fl} /\ u[f].goal = s[f].goal
         /\ u[f].programPointer = s[f].programPointer /\ u[f].clause = s[f].clause
         /\ u[f].parent = s[f].parent /\ u[f].kind = s[f].kind
  <1>1. Cells(s) /\ IsSeq(s)
    BY DEF Whole, Cells
  <1>2. DOMAIN s[f] = FrameFields
    BY <1>1 DEF Cells, IsF
  <1>3. /\ IsSeq(u) /\ Len(u) = Len(s) /\ \A a \in 1..Len(s) : a # f => u[a] = s[a]
        /\ DOMAIN u[f] = FrameFields /\ u[f].kind = s[f].kind /\ u[f].parent = s[f].parent
        /\ u[f].flags = s[f].flags \cup {fl} /\ u[f].goal = s[f].goal /\ u[f].clause = s[f].clause
        /\ u[f].programPointer = s[f].programPointer /\ u[f].variables = s[f].variables
    BY <1>1, <1>2, FlaggedCells
  <1>4. \A w \in DOMAIN u[f].variables :
           w \in DOMAIN s[f].variables /\ u[f].variables[w] = s[f].variables[w]
    BY <1>3
  <1>5. /\ Whole(u, fr, b) /\ LiveIn(u, fr, b) = LiveIn(s, fr, b)
        /\ \A g \in 0..Len(s) : Chain(u)[g] = Chain(s)[g]
    BY <1>1, <1>3, <1>4, WholeChange
  <1> QED
    BY <1>3, <1>5

(* Unlink() *)
LEMMA WholeUnlink ==
  ASSUME Whole(stack, FR, BFR), NEW ch, ch # 0, ch # BFR,
         ch \in Chain(stack)[BFR] => ch # 1 /\ stack[ch].frame = FR
  PROVE  LET t == Unlink(ch)
         IN  /\ Whole(t, FR, BFR) /\ LiveIn(t, FR, BFR) = LiveIn(stack, FR, BFR) /\ Len(t) = Len(stack)
             /\ Chain(t)[BFR] = Chain(stack)[BFR] \ {ch}
             /\ \A g \in 1..Len(stack) : IsF(stack, g) => Chain(t)[g] = Chain(stack)[g] /\ t[g] = stack[g]
             /\ \A g \in 1..Len(stack) : t[g].kind = stack[g].kind /\ DOMAIN t[g] = DOMAIN stack[g]
                  /\ (stack[g].kind # "frame" => t[g].frame = stack[g].frame)
  <1> DEFINE s == stack
             t == Unlink(ch)
             m == Len(s)
             K == Chain(s)[BFR]
  <1>1. Good(s, FR, BFR) /\ Cells(s) /\ Vars(s, BFR) /\ IsSeq(s) /\ m \in Nat /\ Older(s)
        /\ BFR \in 1..m
    BY GoodFacts DEF Whole, Cells
  <1>2. t = [a \in 1..m |-> IF a \in K /\ s[a].parent = ch THEN [s[a] EXCEPT !.parent = s[ch].parent] ELSE s[a]]
    <2>1. DOMAIN s = 1..m
      BY <1>1 DEF IsSeq
    <2> QED
      BY <2>1 DEF Unlink, ChoiceChain
  <1>3. CASE ch \notin K
    <2>1. \A a \in K : s[a].parent # ch
      <3>1. \A a \in K : a = 1 \/ s[a].parent \in K
        BY <1>1, GoodFacts
      <3>2. s[1].parent = 0
        BY <1>1 DEF Older
      <3> QED
        BY <1>3, <3>1, <3>2
    <2>2. t = [a \in 1..m |-> s[a]]
      BY <1>2, <2>1
    <2>3. t = s
      BY <1>1, <2>2 DEF IsSeq
    <2>4. K = K \ {ch}
      BY <1>3
    <2> HIDE DEF t
    <2> QED
      BY <1>1, <2>3, <2>4 DEF t
  <1>4. CASE ch \in K
    <2>1. \A a \in K : IsC(s, a) /\ DOMAIN s[a] = ChoiceFields /\ s[a].kind # "frame"
      <3>1. \A a \in K : IsC(s, a)
        BY <1>1, GoodFacts
      <3> QED
        BY <1>1, <3>1 DEF IsC, Cells
    <2>2. t \in [1..m -> {t[a] : a \in 1..m}]
      BY <1>2
    <2>3. IsSeq(t) /\ Len(t) = m
      <3>1. t \in Seq({t[a] : a \in 1..m}) /\ DOMAIN t = 1..m
        BY <1>1, <1>2, <2>2
      <3>2. Len(t) = m
        <4>1. 1..Len(t) = 1..m /\ Len(t) \in Nat
          <5> HIDE DEF t, m
          <5> QED
            BY <3>1, LenProperties
        <4> HIDE DEF t, m
        <4> QED
          BY <1>1, <4>1, EqualIntervals
      <3> QED
        BY <1>1, <1>2, <3>2 DEF IsSeq
    <2>4. ASSUME NEW a \in 1..m
          PROVE  /\ t[a].kind = s[a].kind /\ DOMAIN t[a] = DOMAIN s[a]
                 /\ s[a].kind # "frame" => t[a].frame = s[a].frame
                 /\ t[a].parent = IF a \in K /\ s[a].parent = ch THEN s[ch].parent ELSE s[a].parent
                 /\ s[a].kind = "frame" => t[a] = s[a]
      <3>1. CASE a \in K /\ s[a].parent = ch
        <4>1. t[a] = [s[a] EXCEPT !.parent = s[ch].parent]
          BY <1>2, <3>1
        <4> HIDE DEF t
        <4> QED
          BY <2>1, <3>1, <4>1 DEF ChoiceFields
      <3>2. CASE ~(a \in K /\ s[a].parent = ch)
        <4>1. t[a] = s[a]
          BY <1>2, <3>2
        <4> HIDE DEF t
        <4> QED
          BY <3>2, <4>1
      <3> QED
        BY <3>1, <3>2
    <2> HIDE DEF t
    <2>5. /\ Good(t, FR, BFR) /\ LiveIn(t, FR, BFR) = LiveIn(s, FR, BFR)
          /\ Chain(t)[BFR] = Chain(s)[BFR] \ {ch}
          /\ \A g \in 1..m : IsF(s, g) => Chain(t)[g] = Chain(s)[g]
      <3>1. ch # 1 /\ ch # BFR /\ s[ch].frame = FR
        BY <1>4
      <3>2. \A a \in 1..Len(s) :
           /\ t[a].kind = s[a].kind
           /\ s[a].kind # "frame" => t[a].frame = s[a].frame
           /\ t[a].parent = IF a \in Chain(s)[BFR] /\ s[a].parent = ch THEN s[ch].parent ELSE s[a].parent
        BY <2>4
      <3> QED
        BY <1>1, <1>4, <2>3, <3>1, <3>2, UnlinkChoice
    <2>6. Cells(t)
      <3>1. \A a \in 1..m : DOMAIN t[a] = IF t[a].kind = "frame" THEN FrameFields ELSE ChoiceFields
        BY <1>1, <2>4 DEF Cells
      <3>2. \A a \in 1..m : t[a].kind = "CHP_CLAUSE" => t[a].frame = a - 1
        BY <1>1, <2>4 DEF Cells
      <3>3. t[1].kind = "CHP_TOP"
        BY <1>1, <2>4 DEF Cells
      <3> QED
        BY <2>3, <3>1, <3>2, <3>3 DEF Cells
    <2>7. Vars(t, BFR)
      <3> SUFFICES ASSUME NEW f \in 1..m, IsF(t, f), NEW v \in DOMAIN t[f].variables
                   PROVE  /\ t[f].variables[v] \in Nat
                          /\ t[f].variables[v] # 0 => \A c \in Chain(t)[BFR] : c < f => c <= t[f].variables[v]
        BY <2>3 DEF Vars
      <3>1. IsF(s, f) /\ t[f] = s[f]
        BY <2>4 DEF IsF
      <3> QED
        BY <1>1, <2>5, <3>1 DEF Vars
    <2>8. Whole(t, FR, BFR)
      BY <2>5, <2>6, <2>7 DEF Whole
    <2>9. \A g \in 1..m : IsF(s, g) => Chain(t)[g] = Chain(s)[g] /\ t[g] = s[g]
      BY <2>4, <2>5 DEF IsF
    <2>10. \A g \in 1..m : t[g].kind = s[g].kind /\ DOMAIN t[g] = DOMAIN s[g]
             /\ (s[g].kind # "frame" => t[g].frame = s[g].frame)
      BY <2>4
    <2> QED
      BY <2>3, <2>5, <2>8, <2>9, <2>10 DEF t
  <1> QED
    BY <1>3, <1>4

-----------------------------------------------------------------------------
(* The newest choice point that a cut keeps. *)

LEMMA NatMost ==
  ASSUME NEW N \in SUBSET Nat, N # {}, NEW m \in Nat, \A n \in N : n <= m
  PROVE  \E n \in N : \A k \in N : k <= n
  <1> DEFINE M == {m - n : n \in N}
  <1>1. M \in SUBSET Nat /\ M # {}
    <2>1. \A n \in N : m - n \in Nat
      OBVIOUS
    <2>2. PICK n \in N : TRUE
      OBVIOUS
    <2> QED
      BY <2>1, <2>2
  <1>2. PICK d \in M : \A e \in M : d <= e
    <2> HIDE DEF M
    <2> QED
      BY <1>1, NatLeast
  <1>3. PICK n \in N : d = m - n
    BY <1>2
  <1>4. \A k \in N : m - n <= m - k
    BY <1>2, <1>3
  <1>5. ASSUME NEW k \in N PROVE k <= n
    <2>1. k \in Nat /\ n \in Nat /\ m \in Nat /\ m - n <= m - k
      BY <1>4
    <2> HIDE DEF M
    <2> QED
      BY <2>1
  <1> QED
    BY <1>5

LEMMA OldestIs ==
  ASSUME Good(stack, FR, BFR), NEW to \in Nat, to >= 1
  PROVE  /\ Oldest(to) \in Chain(stack)[BFR] /\ Oldest(to) <= to /\ Oldest(to) \in 1..BFR
         /\ \A c \in Chain(stack)[BFR] : c <= to => c <= Oldest(to)
         /\ BFR <= to => Oldest(to) = BFR
  <1> DEFINE K == Chain(stack)[BFR]
             N == {c \in K : c <= to}
             P(e) == e <= to /\ \A c \in K : c <= to => c <= e
  <1>1. 1 \in K /\ BFR \in K /\ \A c \in K : c \in 1..BFR /\ c <= BFR /\ c \in Nat
    <2>1. 1 \in K /\ BFR \in K /\ (\A c \in K : c \in 1..BFR /\ c <= BFR) /\ BFR \in 1..Len(stack)
      BY GoodFacts
    <2> QED
      BY <2>1
  <1>2. N \in SUBSET Nat /\ N # {} /\ \A n \in N : n <= to
    BY <1>1
  <1>3. PICK e \in N : \A c \in N : c <= e
    <2> HIDE DEF N
    <2> QED
      BY <1>2, NatMost
  <1>4. e \in K \cup {0} /\ P(e)
    BY <1>3
  <1>5. Oldest(to) = CHOOSE ch \in K \cup {0} : P(ch)
    BY DEF Oldest, ChoiceChain
  <1>6. Oldest(to) \in K \cup {0} /\ P(Oldest(to))
    <2> HIDE DEF K, P
    <2> QED
      BY <1>4, <1>5
  <1>7. Oldest(to) # 0
    BY <1>1, <1>6
  <1>8. BFR <= to => Oldest(to) = BFR
    <2> SUFFICES ASSUME BFR <= to PROVE Oldest(to) = BFR
      OBVIOUS
    <2>1. BFR <= Oldest(to) /\ Oldest(to) <= BFR /\ Oldest(to) \in Nat /\ BFR \in Nat
      BY <1>1, <1>6, <1>7
    <2> QED
      BY <2>1
  <1> QED
    BY <1>1, <1>6, <1>7, <1>8

LEMMA OldestOf ==
  ASSUME Good(stack, FR, BFR), NEW c \in Chain(stack)[BFR]
  PROVE  Oldest(c) = c
  <1>1. c \in Nat /\ c >= 1
    BY GoodFacts
  <1>2. Oldest(c) \in 1..BFR /\ Oldest(c) <= c /\ c <= Oldest(c)
    BY <1>1, OldestIs
  <1> QED
    BY <1>1, <1>2

-----------------------------------------------------------------------------
(* How many frames are in use. *)

LEMMA LiveFinite ==
  ASSUME NEW s, NEW fr, NEW b, Good(s, fr, b)
  PROVE  IsFiniteSet(LiveIn(s, fr, b))
  <1>1. LiveIn(s, fr, b) \in SUBSET (3..Len(s)) /\ Len(s) \in Int
    BY GoodFacts
  <1>2. IsFiniteSet(3..Len(s))
    BY <1>1, FS_Interval
  <1> QED
    BY <1>1, <1>2, FS_Subset

LEMMA CardinalityLess ==
  ASSUME NEW A, IsFiniteSet(A), NEW B \in SUBSET A
  PROVE  /\ IsFiniteSet(B) /\ IsFiniteSet(A \ B)
         /\ Cardinality(B) \in Nat /\ Cardinality(A) \in Nat
         /\ Cardinality(A \ B) = Cardinality(A) - Cardinality(B)
  <1>1. IsFiniteSet(B) /\ IsFiniteSet(A \ B)
    BY FS_Subset
  <1>2. Cardinality(B) \in Nat /\ Cardinality(A) \in Nat /\ Cardinality(A \ B) \in Nat
    BY <1>1, FS_CardinalityType
  <1>3. (A \ B) \cup B = A /\ (A \ B) \cap B = {}
    OBVIOUS
  <1>4. Cardinality(A) = Cardinality(A \ B) + Cardinality(B) - 0
    BY <1>1, <1>3, FS_Union, FS_EmptySet
  <1> QED
    BY <1>1, <1>2, <1>4

LEMMA CardinalityMore ==
  ASSUME NEW A, IsFiniteSet(A), NEW x, x \notin A
  PROVE  Cardinality(A \cup {x}) = Cardinality(A) + 1 /\ Cardinality(A) \in Nat
  BY FS_AddElement, FS_CardinalityType

-----------------------------------------------------------------------------
(* Leaving a frame *)

(* No choice point is newer: the frame goes. *)
LEMMA WholeLeave ==
  ASSUME NEW s, NEW fr, NEW b, Whole(s, fr, b), fr # 2, b <= fr
  PROVE  LET t == SubSeq(s, 1, fr - 1)
             p == s[fr].parent
         IN  /\ Whole(t, p, b) /\ LiveIn(t, p, b) = LiveIn(s, fr, b) \ {fr} /\ fr \in LiveIn(s, fr, b)
             /\ Len(t) = fr - 1 /\ fr \in 3..Len(s) /\ Len(s) \in Nat /\ \A a \in 1..(fr - 1) : t[a] = s[a]
             /\ p \in 2..(fr - 1) /\ (p = 2 <=> fr = 3) /\ p \in Chain(s)[fr]
             /\ Chain(s)[fr] = {fr} \cup Chain(s)[p]
             /\ \A g \in 0..(fr - 1) : Chain(t)[g] = Chain(s)[g]
  <1> DEFINE p == s[fr].parent
             U == UNION {FramesOf(s, c) : c \in Chain(s)[b]}
             t == SubSeq(s, 1, fr - 1)
  <1>1. /\ Good(s, p, b) /\ Chain(s)[fr] = {fr} \cup Chain(s)[p]
        /\ p \in 2..(fr - 1) /\ (p = 2 <=> fr = 3) /\ p \in Chain(s)[fr]
    BY ParentFrame DEF Whole
  <1>2. Whole(s, p, b)
    BY <1>1 DEF Whole
  <1>3. fr \in 3..Len(s) /\ Len(s) \in Nat /\ IsF(s, fr) /\ IsC(s, b) /\ b \in 1..Len(s) /\ Good(s, fr, b)
    <2>1. fr \in 2..Len(s) /\ Len(s) \in Nat /\ b \in 1..Len(s)
      BY GoodFacts DEF Whole
    <2> QED
      BY <2>1 DEF Whole, Good
  <1>4. b # fr
    BY <1>3 DEF IsF, IsC
  <1>5. \A c \in Chain(s)[b] : \A f \in FramesOf(s, c) : f < fr
    <2> SUFFICES ASSUME NEW c \in Chain(s)[b], NEW f \in FramesOf(s, c) PROVE f < fr
      OBVIOUS
    <2>1. c \in 1..b /\ f \in 2..Len(s) /\ f <= s[c].frame /\ s[c].frame \in 2..Len(s)
          /\ (c # 1 => s[c].frame < c) /\ FramesOf(s, 1) = {2}
      BY <1>3, GoodFacts
    <2> QED
      BY <1>3, <1>4, <2>1
  <1>6. fr \notin U /\ fr \notin Chain(s)[p]
    <2>1. fr \notin U
      BY <1>3, <1>5
    <2>2. \A f \in Chain(s)[p] : f <= p
      BY <1>1, GoodFacts
    <2> QED
      BY <1>1, <1>3, <2>1, <2>2
  <1>7. LiveIn(s, p, b) = LiveIn(s, fr, b) \ {fr} /\ fr \in LiveIn(s, fr, b)
    <2>1. LiveIn(s, p, b) = (Chain(s)[p] \cup U) \ {2} /\ LiveIn(s, fr, b) = (Chain(s)[fr] \cup U) \ {2}
      BY DEF LiveIn
    <2> HIDE DEF U, p
    <2> QED
      BY <1>1, <1>6, <2>1
  <1>8. fr - 1 \in Nat /\ fr - 1 >= 2 /\ fr - 1 <= Len(s) /\ p <= fr - 1 /\ b <= fr - 1
    BY <1>1, <1>3, <1>4
  <1>9. /\ Whole(t, p, b) /\ LiveIn(t, p, b) = LiveIn(s, p, b)
        /\ Len(t) = fr - 1 /\ \A a \in 1..(fr - 1) : t[a] = s[a]
        /\ \A g \in 0..(fr - 1) : Chain(t)[g] = Chain(s)[g]
    <2> HIDE DEF p
    <2> QED
      BY <1>2, <1>8, WholeUpTo
  <1> QED
    BY <1>1, <1>3, <1>7, <1>9

(* A choice point is newer: the frame stays for it. *)
LEMMA WholeLeaveBehind ==
  ASSUME NEW s, NEW fr, NEW b, Whole(s, fr, b), fr # 2, ~(b <= fr)
  PROVE  /\ Whole(s, s[fr].parent, b) /\ LiveIn(s, s[fr].parent, b) = LiveIn(s, fr, b)
         /\ fr \in 3..Len(s) /\ s[fr].parent \in 2..(fr - 1) /\ (s[fr].parent = 2 <=> fr = 3)
         /\ Chain(s)[fr] = {fr} \cup Chain(s)[s[fr].parent]
  <1> DEFINE p == s[fr].parent
             U == UNION {FramesOf(s, c) : c \in Chain(s)[b]}
  <1>1. /\ Good(s, p, b) /\ Chain(s)[fr] = {fr} \cup Chain(s)[p]
        /\ p \in 2..(fr - 1) /\ (p = 2 <=> fr = 3)
    BY ParentFrame DEF Whole
  <1>2. Whole(s, p, b)
    BY <1>1 DEF Whole
  <1>3. fr \in 3..Len(s) /\ b \in 1..Len(s) /\ Len(s) \in Nat /\ b \in Chain(s)[b] /\ fr \in Chain(s)[fr]
    <2>1. fr \in 2..Len(s) /\ b \in 1..Len(s) /\ Len(s) \in Nat /\ b \in Chain(s)[b] /\ fr \in Chain(s)[fr]
      BY GoodFacts DEF Whole
    <2> QED
      BY <2>1
  <1>4. fr \in FramesOf(s, b)
    <2>1. Keeps(s, b, fr) /\ fr < b
      BY <1>3 DEF Whole, Good
    <2> QED
      BY <1>3, <2>1 DEF Keeps
  <1>5. fr \in U
    BY <1>3, <1>4
  <1>6. LiveIn(s, p, b) = LiveIn(s, fr, b)
    <2>1. LiveIn(s, p, b) = (Chain(s)[p] \cup U) \ {2} /\ LiveIn(s, fr, b) = (Chain(s)[fr] \cup U) \ {2}
      BY DEF LiveIn
    <2> HIDE DEF U, p
    <2> QED
      BY <1>1, <1>5, <2>1
  <1> QED
    BY <1>1, <1>2, <1>3, <1>6

(* A cut *)
LEMMA WholeCut ==
  ASSUME Whole(stack, FR, BFR), NEW to \in Nat, to >= 1,
         NEW F, F = FR \/ F = stack[Oldest(to)].frame, F >= FR, F >= stack[Oldest(to)].frame,
         \A c \in Chain(stack)[BFR] : c > to => c > FR
  PROVE  /\ Whole(stack, FR, Oldest(to))
         /\ LiveIn(stack, FR, Oldest(to)) \subseteq LiveIn(stack, FR, BFR)
         /\ DiscardedAfter(to, F) = LiveIn(stack, FR, BFR) \ LiveIn(stack, FR, Oldest(to))
         /\ Chain(stack)[Oldest(to)] = {d \in Chain(stack)[BFR] : d <= Oldest(to)}
  <1> DEFINE e == Oldest(to)  K == Chain(stack)[BFR]
  <1>1. Good(stack, FR, BFR)
    BY DEF Whole
  <1>2. e \in K /\ e <= to /\ \A c \in K : c <= to => c <= e
    BY <1>1, OldestIs
  <1> HIDE DEF e
  <1>3. Whole(stack, FR, e) /\ Chain(stack)[e] = {d \in K : d <= e}
    BY <1>2, WholeFewer
  <1>4. UNION {DiscardedIn(stack, c, F) : c \in {d \in K : d > to}}
           = LiveIn(stack, FR, BFR) \ LiveIn(stack, FR, e)
    BY <1>1, <1>2, CutLeaves DEF e
  <1>5. DiscardedAfter(to, F) = UNION {DiscardedIn(stack, c, F) : c \in {d \in K : d > to}}
    BY DEF DiscardedAfter, Discarded, DiscardedIn, Newer, ChoiceChain, FrameChain, FramesOf
  <1>6. LiveIn(stack, FR, e) \subseteq LiveIn(stack, FR, BFR)
    BY <1>3 DEF LiveIn
  <1> QED
    BY <1>3, <1>4, <1>5, <1>6 DEF e

(* A choice point is gone back to. *)
LEMMA WholeBack ==
  ASSUME NEW s, NEW fr, NEW b, Whole(s, fr, b), b # 1
  PROVE  LET t == SubSeq(s, 1, b - 1)
             g == s[b].frame
             p == s[b].parent
         IN  /\ Whole(t, g, p) /\ LiveIn(t, g, p) \subseteq LiveIn(s, fr, b)
             /\ LiveIn(s, fr, b) \ LiveIn(t, g, p) = {f \in Chain(s)[fr] : f > b} \ {2}
             /\ g \in 3..(b - 1) /\ p \in 1..(b - 1) /\ IsF(t, g) /\ g \in LiveIn(t, g, p) /\ IsC(s, b)
             /\ Len(t) = b - 1 /\ b \in 1..Len(s) /\ Len(s) \in Nat /\ \A a \in 1..(b - 1) : t[a] = s[a]
             /\ Chain(s)[b] = {b} \cup Chain(s)[p]
             /\ \A a \in 0..(b - 1) : Chain(t)[a] = Chain(s)[a]
  <1> DEFINE g == s[b].frame
             p == s[b].parent
             t == SubSeq(s, 1, b - 1)
             U == UNION {FramesOf(s, c) : c \in Chain(s)[b]}
  <1>1. /\ Good(s, g, p)
        /\ Chain(s)[b] = {b} \cup Chain(s)[p]
        /\ g \in 3..(b - 1) /\ p \in 1..(b - 1)
        /\ LiveIn(s, g, p) = U \ {2}
        /\ LiveIn(s, fr, b) \ LiveIn(s, g, p) = {f \in Chain(s)[fr] : f > b} \ {2}
    BY ChoiceFrame DEF Whole
  <1>2. b \in 1..Len(s) /\ Len(s) \in Nat /\ IsC(s, b)
    <2>1. b \in 1..Len(s) /\ Len(s) \in Nat
      BY GoodFacts DEF Whole
    <2> QED
      BY <2>1 DEF Whole, Good
  <1>3. Chain(s)[p] \subseteq Chain(s)[b]
    BY <1>1
  <1> HIDE DEF U
  <1>4. LiveIn(s, g, p) \subseteq LiveIn(s, fr, b)
    BY <1>1 DEF LiveIn, U
  <1> HIDE DEF g, p
  <1>5. Whole(s, g, p)
    BY <1>1, <1>3, WholeOther
  <1>6. b - 1 \in Nat /\ b - 1 >= 2 /\ b - 1 <= Len(s) /\ g <= b - 1 /\ p <= b - 1
    BY <1>1, <1>2
  <1>7. /\ Whole(t, g, p) /\ LiveIn(t, g, p) = LiveIn(s, g, p)
        /\ Len(t) = b - 1 /\ \A a \in 1..(b - 1) : t[a] = s[a]
        /\ \A a \in 0..(b - 1) : Chain(t)[a] = Chain(s)[a]
    BY <1>5, <1>6, WholeUpTo
  <1> HIDE DEF t
  <1>8. IsF(t, g) /\ g \in LiveIn(t, g, p)
    <2>1. Good(t, g, p) /\ g # 2
      BY <1>1, <1>6, <1>7 DEF Whole
    <2>2. g \in Chain(t)[g]
      BY <2>1, GoodFacts
    <2> QED
      BY <2>1, <2>2 DEF Good, LiveIn
  <1> QED
    BY <1>1, <1>2, <1>4, <1>7, <1>8 DEF t, g, p

-----------------------------------------------------------------------------
(* The inductive invariant *)

Modes ==
  /\ mode \in {"closed", "run", "exit", "solution", "last", "fail", "unwind", "done", "assertion"}
  /\ mode \in {"run", "fail"} => FR # 2
  /\ mode \in {"exit", "solution", "last", "done"} => FR = 2
  /\ mode = "solution" => BFR # 1
  /\ mode \in {"last", "done"} => BFR = 1
  /\ mode = "unwind" => catcher \in Chain(stack)[FR] /\ (FR = 2 => BFR = 1)

IInv ==
  /\ Modes
  /\ mode = "closed" => stack = <<>> /\ FR = 0 /\ BFR = 0 /\ inside = 0
  /\ mode # "closed" => Whole(stack, FR, BFR) /\ inside = Cardinality(LiveIn(stack, FR, BFR))

LEMMA InvInit == Init => IInv
  BY DEF Init, IInv, Modes

(* What the invariant says of a machine that runs *)
LEMMA Running ==
  ASSUME IInv, mode # "closed"
  PROVE  /\ Whole(stack, FR, BFR) /\ Good(stack, FR, BFR) /\ inside = Cardinality(LiveIn(stack, FR, BFR))
         /\ IsFiniteSet(LiveIn(stack, FR, BFR)) /\ inside \in Nat
         /\ Len(stack) \in Nat /\ FR \in 2..Len(stack) /\ BFR \in 1..Len(stack)
         /\ IsF(stack, FR) /\ IsC(stack, BFR) /\ BFR # FR
         /\ mode \in {"run", "fail"} => FR # 2
         /\ IsSeq(stack)
  <1>1. Whole(stack, FR, BFR) /\ Good(stack, FR, BFR) /\ inside = Cardinality(LiveIn(stack, FR, BFR))
    BY DEF IInv, Whole
  <1>2. IsFiniteSet(LiveIn(stack, FR, BFR))
    BY <1>1, LiveFinite
  <1>3. inside \in Nat
    BY <1>1, <1>2, FS_CardinalityType
  <1>4. Len(stack) \in Nat /\ FR \in 2..Len(stack) /\ BFR \in 1..Len(stack)
    BY <1>1, GoodFacts
  <1>5. IsF(stack, FR) /\ IsC(stack, BFR) /\ BFR # FR /\ IsSeq(stack)
    BY <1>1 DEF Good, IsF, IsC, Whole, Cells
  <1>6. mode \in {"run", "fail"} => FR # 2
    BY DEF IInv, Modes
  <1> QED
    BY <1>1, <1>2, <1>3, <1>4, <1>5, <1>6

(* Where the machine runs on *)
LEMMA RunsOn ==
  ASSUME mode' \in {"run", "fail", "assertion"}, FR' # 2, Whole(stack', FR', BFR'),
         inside' = Cardinality(LiveIn(stack', FR', BFR'))
  PROVE  IInv'
  BY DEF IInv, Modes

LEMMA Entered ==
  ASSUME NEW past, NEW base, NEW b, NEW goal, NEW fr, NEW ret,
         Whole(base, fr, b), fr # 2 \/ Len(base) = 2,
         EnterGoal(past, base, b, goal, fr, ret),
         inside' = Cardinality(LiveIn(base, fr, b)) + 1
  PROVE  IInv'
  <1>1. /\ Whole(stack', FR', BFR')
        /\ LiveIn(stack', FR', BFR') = LiveIn(base, fr, b) \cup {Len(base) + 1}
        /\ Len(base) + 1 \notin LiveIn(base, fr, b)
        /\ mode' \in {"run", "fail"} /\ FR' # 2
    BY WholeEnter
  <1>2. IsFiniteSet(LiveIn(base, fr, b))
    BY LiveFinite DEF Whole
  <1>3. inside' = Cardinality(LiveIn(stack', FR', BFR'))
    BY <1>1, <1>2, CardinalityMore
  <1> QED
    BY <1>1, <1>3, RunsOn

(* The machine goes on with the same frames. *)
LEMMA Continued ==
  ASSUME IInv, mode = "run", NEW s, NEW b, Continue(s, b), inside' = inside,
         Whole(s, FR, b), LiveIn(s, FR, b) = LiveIn(stack, FR, BFR)
  PROVE  IInv'
  <1>1. mode' = "run" /\ FR' = FR /\ stack' = s /\ BFR' = b
    BY DEF Continue
  <1>2. FR # 2 /\ inside = Cardinality(LiveIn(stack, FR, BFR))
    BY Running
  <1> QED
    BY <1>1, <1>2, RunsOn

(* The frames fs are left, those of L stay. *)
LEMMA FewerLive ==
  ASSUME IInv, mode # "closed", NEW fs,
         NEW L, L \subseteq LiveIn(stack, FR, BFR), fs = LiveIn(stack, FR, BFR) \ L
  PROVE  inside - Cardinality(fs) = Cardinality(L)
  <1> DEFINE A == LiveIn(stack, FR, BFR)
  <1>1. IsFiniteSet(A) /\ inside = Cardinality(A)
    BY Running
  <1>2. A \ fs = L /\ fs \in SUBSET A
    OBVIOUS
  <1> HIDE DEF A
  <1>3. Cardinality(A \ fs) = Cardinality(A) - Cardinality(fs)
    BY <1>1, <1>2, CardinalityLess
  <1> QED
    BY <1>1, <1>2, <1>3

LEMMA LeftBehind ==
  ASSUME IInv, mode # "closed", NEW fs, inside' = inside - Cardinality(fs),
         NEW L, L \subseteq LiveIn(stack, FR, BFR), fs = LiveIn(stack, FR, BFR) \ L
  PROVE  inside' = Cardinality(L)
  BY FewerLive

-----------------------------------------------------------------------------
(* The actions keep the invariant. *)

LEMMA I_CALL_Inv ==
  ASSUME IInv, I_CALL \/ I_USERCALL0
  PROVE  IInv'
  <1>1. mode = "run"
    BY DEF I_CALL, I_USERCALL0, Is
  <1>2. PICK goal, ret : EnterGoal(log, stack, BFR, goal, FR, ret)
    BY DEF I_CALL, I_USERCALL0, UserCall
  <1>3. inside' = inside + 1
    BY DEF I_CALL, I_USERCALL0
  <1>4. Whole(stack, FR, BFR) /\ FR # 2 /\ inside = Cardinality(LiveIn(stack, FR, BFR))
    BY <1>1, Running
  <1> QED
    BY <1>2, <1>3, <1>4, Entered

LEMMA I_DEPART_Inv ==
  ASSUME IInv, I_DEPART
  PROVE  IInv'
  <1>1. mode = "run"
    BY DEF I_DEPART, Is
  <1>2. /\ Whole(stack, FR, BFR) /\ FR # 2 /\ inside = Cardinality(LiveIn(stack, FR, BFR))
        /\ IsFiniteSet(LiveIn(stack, FR, BFR))
    BY <1>1, Running
  <1>3. CASE LastCall
    <2> DEFINE t == SubSeq(stack, 1, FR - 1)
               p == stack[FR].parent
    <2>1. EnterGoal(log, t, BFR, Arg(1), p, stack[FR].programPointer) /\ inside' = inside
      BY <1>3 DEF I_DEPART, UpTo, counts
    <2>2. BFR <= FR
      BY <1>3 DEF LastCall
    <2>3. /\ Whole(t, p, BFR) /\ LiveIn(t, p, BFR) = LiveIn(stack, FR, BFR) \ {FR}
          /\ FR \in LiveIn(stack, FR, BFR)
          /\ Len(t) = FR - 1 /\ FR \in 3..Len(stack) /\ (p = 2 <=> FR = 3)
      BY <1>2, <2>2, WholeLeave
    <2>4. p # 2 \/ Len(t) = 2
      BY <2>3
    <2>5. inside' = Cardinality(LiveIn(t, p, BFR)) + 1
      <3>1. Cardinality(LiveIn(stack, FR, BFR) \ {FR}) = Cardinality(LiveIn(stack, FR, BFR)) - 1
        BY <1>2, <2>3, FS_RemoveElement
      <3>2. Cardinality(LiveIn(stack, FR, BFR)) \in Nat
        BY <1>2, FS_CardinalityType
      <3>3. inside' = inside /\ inside = Cardinality(LiveIn(stack, FR, BFR))
            /\ LiveIn(t, p, BFR) = LiveIn(stack, FR, BFR) \ {FR}
        BY <1>2, <2>1, <2>3
      <3> HIDE DEF t, p
      <3> QED
        BY <3>1, <3>2, <3>3
    <2> HIDE DEF t, p
    <2> QED
      BY <2>1, <2>3, <2>4, <2>5, Entered
  <1>4. CASE ~LastCall
    <2>1. EnterGoal(log, stack, BFR, Arg(1), FR, PC + 1) /\ inside' = inside + 1
      BY <1>4 DEF I_DEPART
    <2> QED
      BY <1>2, <2>1, Entered
  <1> QED
    BY <1>3, <1>4

(* Leaving the frame that runs, its own choice point gone or not *)
LEMMA Exited ==
  ASSUME IInv, mode = "run", NEW b, ExitFrame(b), Whole(stack, FR, b),
         LiveIn(stack, FR, b) = LiveIn(stack, FR, BFR)
  PROVE  IInv'
  <1> DEFINE p == stack[FR].parent
  <1>1. /\ FR # 2 /\ inside = Cardinality(LiveIn(stack, FR, BFR))
        /\ IsFiniteSet(LiveIn(stack, FR, BFR)) /\ inside \in Nat
    BY Running
  <1>2. FR' = p /\ BFR' = b /\ mode' = IF p = 2 THEN "exit" ELSE "run"
    BY DEF ExitFrame, TopFR
  <1>3. Whole(stack', FR', BFR') /\ inside' = Cardinality(LiveIn(stack', FR', BFR'))
    <2>1. CASE b <= FR
      <3> DEFINE t == SubSeq(stack, 1, FR - 1)
      <3>1. stack' = t /\ inside' = inside - 1
        BY <2>1 DEF ExitFrame, UpTo
      <3>2. /\ Whole(t, p, b) /\ LiveIn(t, p, b) = LiveIn(stack, FR, b) \ {FR}
            /\ FR \in LiveIn(stack, FR, b)
        BY <1>1, <2>1, WholeLeave
      <3> HIDE DEF t, p
      <3>3. Cardinality(LiveIn(stack, FR, BFR) \ {FR}) = Cardinality(LiveIn(stack, FR, BFR)) - 1
        BY <1>1, <3>2, FS_RemoveElement
      <3> QED
        BY <1>1, <1>2, <3>1, <3>2, <3>3
    <2>2. CASE ~(b <= FR)
      <3>1. stack' = stack /\ inside' = inside
        BY <2>2 DEF ExitFrame
      <3>2. Whole(stack, p, b) /\ LiveIn(stack, p, b) = LiveIn(stack, FR, b)
        BY <1>1, <2>2, WholeLeaveBehind
      <3> QED
        BY <1>1, <1>2, <3>1, <3>2
    <2> QED
      BY <2>1, <2>2
  <1> QED
    BY <1>2, <1>3 DEF IInv, Modes

LEMMA I_EXIT_Inv ==
  ASSUME IInv, I_EXIT
  PROVE  IInv'
  <1>1. mode = "run" /\ ExitFrame(BFR)
    BY DEF I_EXIT, Is
  <1>2. Whole(stack, FR, BFR)
    BY <1>1, Running
  <1> QED
    BY <1>1, <1>2, Exited

LEMMA I_EXITCATCH_Inv ==
  ASSUME IInv, I_EXITCATCH
  PROVE  IInv'
  <1> DEFINE b == IF BFR = FR + 1 /\ stack[BFR].frame = FR THEN stack[BFR].parent ELSE BFR
  <1>1. mode = "run" /\ ExitFrame(b)
    BY DEF I_EXITCATCH, Is
  <1>2. Whole(stack, FR, BFR) /\ Good(stack, FR, BFR) /\ FR \in 2..Len(stack)
    BY <1>1, Running
  <1>3. Whole(stack, FR, b) /\ LiveIn(stack, FR, b) = LiveIn(stack, FR, BFR)
    <2>1. CASE BFR = FR + 1 /\ stack[BFR].frame = FR
      <3>1. BFR # 1
        BY <1>2, <2>1
      <3>2. /\ Good(stack, FR, stack[BFR].parent)
            /\ LiveIn(stack, FR, stack[BFR].parent) = LiveIn(stack, FR, BFR)
            /\ Chain(stack)[BFR] = {BFR} \cup Chain(stack)[stack[BFR].parent]
        BY <1>2, <2>1, <3>1, OwnChoice
      <3> QED
        BY <1>2, <2>1, <3>2, WholeOther
    <2>2. CASE ~(BFR = FR + 1 /\ stack[BFR].frame = FR)
      BY <1>2, <2>2
    <2> QED
      BY <2>1, <2>2
  <1> HIDE DEF b
  <1> QED
    BY <1>1, <1>3, Exited

LEMMA I_EXITQUERY_Inv ==
  ASSUME IInv, I_EXITQUERY
  PROVE  IInv'
  <1>1. /\ mode = "exit" /\ mode' = IF BFR = 1 THEN "last" ELSE "solution"
        /\ stack' = stack /\ FR' = FR /\ BFR' = BFR /\ inside' = inside /\ catcher' = catcher
    BY DEF I_EXITQUERY, regs, counts, Top
  <1> QED
    BY <1>1 DEF IInv, Modes

(* A cut commits with the choice points up to to. *)
LEMMA CutCounted ==
  ASSUME IInv, mode # "closed", NEW to \in Nat, to >= 1,
         NEW F, F = FR \/ F = stack[Oldest(to)].frame, F >= FR, F >= stack[Oldest(to)].frame,
         \A c \in Chain(stack)[BFR] : c > to => c > FR,
         inside' = inside - Cardinality(DiscardedAfter(to, F))
  PROVE  Whole(stack, FR, Oldest(to)) /\ inside' = Cardinality(LiveIn(stack, FR, Oldest(to)))
  <1> DEFINE L == LiveIn(stack, FR, Oldest(to))
  <1>1. Whole(stack, FR, BFR)
    BY Running
  <1>2. /\ Whole(stack, FR, Oldest(to)) /\ L \subseteq LiveIn(stack, FR, BFR)
        /\ DiscardedAfter(to, F) = LiveIn(stack, FR, BFR) \ L
    BY <1>1, WholeCut
  <1> HIDE DEF L
  <1>3. inside' = Cardinality(L)
    BY <1>2, LeftBehind
  <1> QED
    BY <1>2, <1>3 DEF L

(* The cut of the clause, an exception and the end of the query cut to the *)
(* frame that runs.                                                        *)
LEMMA CutToFrame ==
  ASSUME IInv, mode # "closed", NEW fs, fs = DiscardedAfter(FR, FR)
  PROVE  /\ Whole(stack, FR, Oldest(FR)) /\ Oldest(FR) <= FR /\ Oldest(FR) \in 1..BFR
         /\ LiveIn(stack, FR, Oldest(FR)) \subseteq LiveIn(stack, FR, BFR)
         /\ fs = LiveIn(stack, FR, BFR) \ LiveIn(stack, FR, Oldest(FR))
         /\ BFR <= FR => Oldest(FR) = BFR
         /\ Chain(stack)[Oldest(FR)] = {d \in Chain(stack)[BFR] : d <= Oldest(FR)}
  <1>1. Whole(stack, FR, BFR) /\ Good(stack, FR, BFR) /\ FR \in 2..Len(stack) /\ FR \in Nat /\ FR >= 1
    BY Running
  <1>2. Oldest(FR) \in Chain(stack)[BFR] /\ Oldest(FR) <= FR /\ Oldest(FR) \in 1..BFR
        /\ (BFR <= FR => Oldest(FR) = BFR)
    BY <1>1, OldestIs
  <1>3. FR >= FR /\ FR >= stack[Oldest(FR)].frame
    <2>1. /\ stack[Oldest(FR)].frame \in 2..Len(stack)
          /\ Oldest(FR) # 1 => stack[Oldest(FR)].frame < Oldest(FR)
          /\ FramesOf(stack, 1) = {2} /\ stack[1].frame \in FramesOf(stack, 1)
      BY <1>1, <1>2, GoodFacts
    <2> QED
      BY <1>1, <1>2, <2>1
  <1>4. \A c \in Chain(stack)[BFR] : c > FR => c > FR
    OBVIOUS
  <1> QED
    BY <1>1, <1>2, <1>3, <1>4, WholeCut

LEMMA I_CUT_Inv ==
  ASSUME IInv, I_CUT
  PROVE  IInv'
  <1> DEFINE e == Oldest(FR)  t == SubSeq(stack, 1, FR)
  <1>1. mode = "run" /\ inside' = inside - Cardinality(DiscardedAfter(FR, FR))
    BY DEF I_CUT, Is, LeaveFrames
  <1>2. FR \in 2..Len(stack) /\ Len(stack) \in Nat /\ FR # 2 /\ BFR \in 1..Len(stack)
    BY <1>1, Running
  <1>3. /\ Whole(stack, FR, e) /\ e <= FR /\ e \in 1..BFR
        /\ LiveIn(stack, FR, e) \subseteq LiveIn(stack, FR, BFR)
        /\ DiscardedAfter(FR, FR) = LiveIn(stack, FR, BFR) \ LiveIn(stack, FR, e)
        /\ (BFR <= FR => e = BFR)
    BY <1>1, CutToFrame
  <1>4. FR' = FR /\ mode' = "run" /\ stack' = t /\ BFR' = e
    <2>1. (FR + 1) - 1 = FR
      BY <1>2
    <2>2. stack' = UpTo(FR + 1) /\ BFR' = IF BFR > FR THEN e ELSE BFR
      BY DEF I_CUT, Continue
    <2>3. BFR' = e
      BY <1>2, <1>3, <2>2
    <2> QED
      BY <1>1, <2>1, <2>2, <2>3 DEF I_CUT, Continue, UpTo
  <1> HIDE DEF e
  <1>5. Whole(t, FR, e) /\ LiveIn(t, FR, e) = LiveIn(stack, FR, e)
    BY <1>2, <1>3, WholeUpTo
  <1> HIDE DEF t
  <1>6. inside' = Cardinality(LiveIn(stack, FR, e))
    BY <1>1, <1>3, LeftBehind
  <1> QED
    BY <1>2, <1>4, <1>5, <1>6, RunsOn

(* An assertion of the code stops the machine where it is. *)
LEMMA Asserted ==
  ASSUME IInv, mode = "run", mode' = "assertion", UNCHANGED <<stack, regs, inside>>
  PROVE  IInv'
  <1>1. Whole(stack, FR, BFR) /\ FR # 2 /\ inside = Cardinality(LiveIn(stack, FR, BFR))
    BY Running
  <1>2. stack' = stack /\ FR' = FR /\ BFR' = BFR /\ inside' = inside
    BY DEF regs
  <1> QED
    BY <1>1, <1>2, RunsOn

(* The frame down to which CutTo() discards *)
CutFrame(och) == IF och = 0 \/ FR > stack[och].frame THEN FR ELSE stack[och].frame

LEMMA CutToEffect ==
  ASSUME IInv, mode = "run", NEW och \in Nat, och # 0, Oldest(och) = och,
         \A c \in Chain(stack)[BFR] : c > och => c > FR
  PROVE  LET F == CutFrame(och)
             n == IF och > F THEN och ELSE F
             t == SubSeq(stack, 1, n)
         IN  /\ UpTo(IF och > F THEN och + 1 ELSE F + 1) = t
             /\ Whole(t, FR, och) /\ LiveIn(t, FR, och) = LiveIn(stack, FR, och)
             /\ LiveIn(stack, FR, och) \subseteq LiveIn(stack, FR, BFR)
             /\ DiscardedAfter(och, F) = LiveIn(stack, FR, BFR) \ LiveIn(stack, FR, och)
             /\ n \in FR..Len(stack) /\ \A a \in 1..n : t[a] = stack[a]
             /\ och \in Chain(stack)[BFR]
             /\ Chain(stack)[och] = {d \in Chain(stack)[BFR] : d <= och}
             /\ \A g \in 0..n : Chain(t)[g] = Chain(stack)[g]
             /\ Len(t) = n
  <1> DEFINE F == CutFrame(och)
             n == IF och > F THEN och ELSE F
             t == SubSeq(stack, 1, n)
  <1>1. /\ Whole(stack, FR, BFR) /\ Good(stack, FR, BFR) /\ FR \in 2..Len(stack) /\ Len(stack) \in Nat
        /\ BFR \in 1..Len(stack)
    BY Running
  <1>2. och \in Chain(stack)[BFR] /\ och >= 1 /\ och \in 1..BFR
    BY <1>1, OldestIs
  <1>3. stack[och].frame \in 2..Len(stack)
    BY <1>1, <1>2, GoodFacts
  <1>4. (F = FR \/ F = stack[Oldest(och)].frame) /\ F >= FR /\ F >= stack[Oldest(och)].frame /\ F \in 2..Len(stack)
    BY <1>1, <1>2, <1>3 DEF CutFrame
  <1> HIDE DEF F
  <1>5. /\ Whole(stack, FR, och)
        /\ LiveIn(stack, FR, och) \subseteq LiveIn(stack, FR, BFR)
        /\ DiscardedAfter(och, F) = LiveIn(stack, FR, BFR) \ LiveIn(stack, FR, och)
        /\ Chain(stack)[och] = {d \in Chain(stack)[BFR] : d <= och}
    BY <1>1, <1>2, <1>4, WholeCut
  <1>6. n \in Nat /\ n >= 2 /\ n <= Len(stack) /\ FR <= n /\ och <= n /\ n \in FR..Len(stack)
    BY <1>1, <1>2, <1>4
  <1>7. UpTo(IF och > F THEN och + 1 ELSE F + 1) = t
    <2>1. (IF och > F THEN och + 1 ELSE F + 1) - 1 = n
      BY <1>1, <1>2, <1>4
    <2> HIDE DEF n
    <2> QED
      BY <2>1 DEF UpTo
  <1> HIDE DEF n
  <1>8. /\ Whole(t, FR, och) /\ LiveIn(t, FR, och) = LiveIn(stack, FR, och)
        /\ \A a \in 1..n : t[a] = stack[a]
        /\ \A g \in 0..n : Chain(t)[g] = Chain(stack)[g]
        /\ Len(t) = n
    BY <1>5, <1>6, WholeUpTo
  <1> QED
    BY <1>2, <1>5, <1>6, <1>7, <1>8 DEF F, n

LEMMA CutToSteps ==
  ASSUME NEW och, CutTo(och)
  PROVE  \/ /\ Oldest(och) = och
            /\ LeaveFrames(DiscardedAfter(och, CutFrame(och)))
            /\ Continue(UpTo(IF och > CutFrame(och) THEN och + 1 ELSE CutFrame(och) + 1), och)
         \/ mode' = "assertion" /\ UNCHANGED <<keep, stack, regs, log, counts>>
  BY DEF CutTo, CutFrame

LEMMA CutToInv ==
  ASSUME IInv, mode = "run", NEW och \in Nat, och # 0, CutTo(och),
         \A c \in Chain(stack)[BFR] : c > och => c > FR
  PROVE  IInv'
  <1>1. CASE mode' = "assertion" /\ UNCHANGED <<keep, stack, regs, log, counts>>
    <2>1. UNCHANGED <<stack, regs, inside>>
      BY <1>1 DEF counts
    <2> QED
      BY <1>1, <2>1, Asserted
  <1>2. CASE /\ Oldest(och) = och
             /\ LeaveFrames(DiscardedAfter(och, CutFrame(och)))
             /\ Continue(UpTo(IF och > CutFrame(och) THEN och + 1 ELSE CutFrame(och) + 1), och)
    <2> DEFINE F == CutFrame(och)
               t == SubSeq(stack, 1, IF och > F THEN och ELSE F)
    <2>1. Oldest(och) = och
      BY <1>2
    <2>2. /\ UpTo(IF och > F THEN och + 1 ELSE F + 1) = t
          /\ Whole(t, FR, och) /\ LiveIn(t, FR, och) = LiveIn(stack, FR, och)
          /\ LiveIn(stack, FR, och) \subseteq LiveIn(stack, FR, BFR)
          /\ DiscardedAfter(och, F) = LiveIn(stack, FR, BFR) \ LiveIn(stack, FR, och)
      BY <2>1, CutToEffect
    <2>3. FR' = FR /\ mode' = "run" /\ BFR' = och /\ stack' = t
          /\ inside' = inside - Cardinality(DiscardedAfter(och, F))
      BY <1>2, <2>2 DEF Continue, LeaveFrames
    <2>4. FR # 2
      BY Running
    <2> HIDE DEF F, t
    <2>5. inside' = Cardinality(LiveIn(stack, FR, och))
      BY <2>2, <2>3, LeftBehind
    <2> QED
      BY <2>2, <2>3, <2>4, <2>5, RunsOn
  <1> QED
    BY <1>1, <1>2, CutToSteps

(* What a variable of the frame that runs says of the choice points *)
LEMMA VarFacts ==
  ASSUME IInv, mode = "run", Arg(1) \in DOMAIN stack[FR].variables, ChoiceVar # 0
  PROVE  /\ ChoiceVar \in Nat
         /\ \A c \in Chain(stack)[BFR] : c > ChoiceVar => c > FR
  <1>1. /\ Whole(stack, FR, BFR) /\ Good(stack, FR, BFR) /\ FR \in 2..Len(stack) /\ Len(stack) \in Nat
        /\ IsF(stack, FR) /\ BFR \in 1..Len(stack)
    BY Running
  <1>2. /\ ChoiceVar \in Nat
        /\ ChoiceVar # 0 => \A c \in Chain(stack)[BFR] : c < FR => c <= ChoiceVar
    BY <1>1 DEF Whole, Vars, ChoiceVar
  <1>3. ASSUME NEW c \in Chain(stack)[BFR], c > ChoiceVar PROVE c > FR
    <2>1. IsC(stack, c) /\ c \in 1..BFR
      BY <1>1, GoodFacts
    <2>2. c # FR
      BY <1>1, <2>1 DEF IsF, IsC
    <2>3. c < FR => c <= ChoiceVar
      BY <1>2
    <2> QED
      BY <1>1, <1>2, <1>3, <2>1, <2>2, <2>3
  <1> QED
    BY <1>2, <1>3

LEMMA C_CUT_Inv ==
  ASSUME IInv, ChoicesKnown, C_CUT
  PROVE  IInv'
  <1>1. mode = "run" /\ CutTo(ChoiceVar)
    BY DEF C_CUT, Is
  <1>2. Arg(1) \in DOMAIN stack[FR].variables /\ ChoiceVar # 0
    BY DEF C_CUT, ChoicesKnown
  <1>3. /\ ChoiceVar \in Nat
        /\ \A c \in Chain(stack)[BFR] : c > ChoiceVar => c > FR
    BY <1>1, <1>2, VarFacts
  <1> QED
    BY <1>1, <1>2, <1>3, CutToInv

LEMMA CutAfterInv ==
  ASSUME IInv, mode = "run", NEW och \in Nat, CutAfter(och),
         \A c \in Chain(stack)[BFR] : c > och => c > FR
  PROVE  IInv'
  <1> DEFINE next == {ch \in ChoiceChain(BFR) : stack[ch].parent = och}
  <1>1. Whole(stack, FR, BFR) /\ Good(stack, FR, BFR)
    BY Running
  <1>2. CASE next # {}
    <2> DEFINE n == CHOOSE ch \in next : TRUE
    <2>1. n \in next
      BY <1>2
    <2>2. CutTo(n)
      BY <1>2 DEF CutAfter
    <2>3. n \in Chain(stack)[BFR] /\ stack[n].parent = och
      BY <2>1 DEF ChoiceChain
    <2> HIDE DEF n
    <2>4. n \in Nat /\ n # 0
      BY <1>1, <2>3, GoodFacts
    <2>5. n > och
      <3>1. Older(stack) /\ n \in 1..Len(stack)
        BY <1>1, <2>3, GoodFacts DEF IsC
      <3> QED
        BY <2>3, <3>1 DEF Older
    <2>6. \A c \in Chain(stack)[BFR] : c > n => c > FR
      <3> SUFFICES ASSUME NEW c \in Chain(stack)[BFR], c > n PROVE c > FR
        OBVIOUS
      <3>1. c \in Nat
        BY <1>1, GoodFacts
      <3>2. c > och
        BY <2>4, <2>5, <3>1
      <3> QED
        BY <3>2
    <2> QED
      BY <2>2, <2>4, <2>6, CutToInv
  <1>3. CASE next = {}
    <2>1. /\ IF BFR = och THEN Continue(stack, BFR)
             ELSE mode' = "assertion" /\ UNCHANGED <<keep, stack, regs, log>>
          /\ inside' = inside
      BY <1>3 DEF CutAfter, counts
    <2>2. CASE BFR = och
      BY <1>1, <2>1, <2>2, Continued
    <2>3. CASE BFR # och
      BY <2>1, <2>3, Asserted
    <2> QED
      BY <2>2, <2>3
  <1> QED
    BY <1>2, <1>3

LEMMA C_LCUT_Inv ==
  ASSUME IInv, ChoicesKnown, C_LCUT
  PROVE  IInv'
  <1>1. mode = "run" /\ CutAfter(ChoiceVar)
    BY DEF C_LCUT, Is
  <1>2. Arg(1) \in DOMAIN stack[FR].variables /\ ChoiceVar # 0
    BY DEF C_LCUT, ChoicesKnown
  <1>3. /\ ChoiceVar \in Nat
        /\ \A c \in Chain(stack)[BFR] : c > ChoiceVar => c > FR
    BY <1>1, <1>2, VarFacts
  <1> QED
    BY <1>1, <1>3, CutAfterInv

(* ... and of the choice point that follows the one it holds *)
LEMMA SoftFacts ==
  ASSUME IInv, ChoicesKnown, C_LSCUT
  PROVE  LET och == stack[ChoiceVar].parent
         IN  /\ mode = "run" /\ CutAfter(och) /\ och \in Nat
             /\ \A c \in Chain(stack)[BFR] : c > och => c > FR
  <1> DEFINE x == ChoiceVar
  <1>1. mode = "run" /\ CutAfter(stack[x].parent)
    BY DEF C_LSCUT, Is
  <1>2. IsChoice(x) /\ stack[x].frame = FR
    BY DEF C_LSCUT, ChoicesKnown
  <1>3. /\ Whole(stack, FR, BFR) /\ Good(stack, FR, BFR) /\ FR \in 2..Len(stack) /\ Len(stack) \in Nat
        /\ IsF(stack, FR) /\ IsSeq(stack) /\ FR # 2
    BY <1>1, Running
  <1> HIDE DEF x
  <1>4. x \in 1..Len(stack) /\ IsC(stack, x)
    <2>1. DOMAIN stack = 1..Len(stack)
      BY <1>3 DEF IsSeq
    <2> QED
      BY <1>2, <2>1 DEF IsChoice, IsC
  <1>5. FR < x /\ stack[x].parent \in 0..(x - 1)
    BY <1>2, <1>3, <1>4 DEF Good, Linked, Older
  <1>6. ASSUME NEW c \in Chain(stack)[BFR], c > stack[x].parent PROVE c > FR
    <2>1. c < x => c <= stack[x].parent
      BY <1>3, <1>4 DEF Good
    <2>2. c \in Nat
      BY <1>3, GoodFacts
    <2> QED
      BY <1>3, <1>4, <1>5, <1>6, <2>1, <2>2
  <1>7. stack[x].parent \in Nat
    BY <1>4, <1>5
  <1> QED
    BY <1>1, <1>6, <1>7 DEF x

LEMMA C_LSCUT_Inv ==
  ASSUME IInv, ChoicesKnown, C_LSCUT
  PROVE  IInv'
  <1> DEFINE och == stack[ChoiceVar].parent
  <1>1. /\ mode = "run" /\ CutAfter(och) /\ och \in Nat
        /\ \A c \in Chain(stack)[BFR] : c > och => c > FR
    BY SoftFacts
  <1> HIDE DEF och
  <1> QED
    BY <1>1, CutAfterInv

LEMMA NothingInv ==
  ASSUME IInv, C_JMP \/ Nothing \/ C_FAIL
  PROVE  IInv'
  <1>1. mode = "run" /\ mode' \in {"run", "fail"} /\ UNCHANGED <<stack, FR, BFR, inside>>
    BY DEF C_JMP, Nothing, C_FAIL, Is, Continue, regs, counts
  <1>2. Whole(stack, FR, BFR) /\ FR # 2 /\ inside = Cardinality(LiveIn(stack, FR, BFR))
    BY <1>1, Running
  <1>3. stack' = stack /\ FR' = FR /\ BFR' = BFR /\ inside' = inside
    BY <1>1
  <1> QED
    BY <1>1, <1>2, <1>3, RunsOn

(* newChoice() in the frame that runs, on the stack s *)
LEMMA NewChoice ==
  ASSUME NEW s, Whole(s, FR, BFR), FR # 2, NEW next, NEW type, type \in {"CHP_JUMP", "CHP_CATCH"}
  PROVE  LET t == Append(s, Choice(type, FR, BFR, next))
         IN  /\ Whole(t, FR, Len(s) + 1) /\ LiveIn(t, FR, Len(s) + 1) = LiveIn(s, FR, BFR)
             /\ Len(t) = Len(s) + 1 /\ Len(s) \in Nat /\ \A a \in 1..Len(s) : t[a] = s[a]
             /\ t[Len(s) + 1] = Choice(type, FR, BFR, next)
             /\ Chain(t)[Len(s) + 1] = {Len(s) + 1} \cup Chain(s)[BFR]
             /\ \A g \in 0..Len(s) : Chain(t)[g] = Chain(s)[g]
  <1> DEFINE r == Choice(type, FR, BFR, next)
             t == Append(s, r)
  <1>1. IsSeq(s) /\ Len(s) \in Nat
    BY DEF Whole, Cells, IsSeq
  <1>2. IsSeq(t) /\ Len(t) = Len(s) + 1 /\ (\A a \in 1..Len(s) : t[a] = s[a]) /\ t[Len(s) + 1] = r
    BY <1>1, Appended
  <1>3. DOMAIN r = ChoiceFields /\ r.kind # "frame" /\ r.kind # "CHP_CLAUSE" /\ r.frame = FR /\ r.parent = BFR
    BY DEF Choice, ChoiceFields
  <1> HIDE DEF r, t
  <1>4. t[Len(t)] = r /\ (r.kind = "CHP_CLAUSE" => FR = Len(s))
    BY <1>2, <1>3
  <1>5. /\ Whole(t, FR, Len(t)) /\ LiveIn(t, FR, Len(t)) = LiveIn(s, FR, BFR)
        /\ Chain(t)[Len(t)] = {Len(t)} \cup Chain(s)[BFR]
        /\ \A g \in 0..Len(s) : Chain(t)[g] = Chain(s)[g]
    BY <1>2, <1>3, <1>4, WholeChoice
  <1> QED
    BY <1>1, <1>2, <1>5 DEF r, t

LEMMA OrInv ==
  ASSUME IInv, mode = "run", NEW s, NEW skip, Or(s, skip), Len(s) = Len(stack),
         Whole(s, FR, BFR), LiveIn(s, FR, BFR) = LiveIn(stack, FR, BFR)
  PROVE  IInv'
  <1> DEFINE t == Append(s, Choice("CHP_JUMP", FR, BFR, PC + 1 + skip))
  <1>1. FR # 2
    BY Running
  <1>2. Continue(t, Len(stack) + 1) /\ inside' = inside
    BY DEF Or, counts
  <1>3. Whole(t, FR, Len(s) + 1) /\ LiveIn(t, FR, Len(s) + 1) = LiveIn(s, FR, BFR)
    BY <1>1, NewChoice
  <1> HIDE DEF t
  <1> QED
    BY <1>2, <1>3, Continued

LEMMA C_OR_Inv ==
  ASSUME IInv, C_OR
  PROVE  IInv'
  <1>1. mode = "run" /\ Or(stack, Arg(1))
    BY DEF C_OR, Is
  <1>2. Whole(stack, FR, BFR)
    BY <1>1, Running
  <1> QED
    BY <1>1, <1>2, OrInv

LEMMA VarSet ==
  ASSUME IInv, mode = "run", NEW v, NEW x \in Nat, x >= BFR
  PROVE  /\ Whole(SetVar(v, x), FR, BFR) /\ LiveIn(SetVar(v, x), FR, BFR) = LiveIn(stack, FR, BFR)
         /\ Len(SetVar(v, x)) = Len(stack)
  <1>1. Whole(stack, FR, BFR)
    BY Running
  <1> DEFINE u == SetVar(v, x)
  <1>2. u = VarSetIn(stack, FR, v, x)
    BY DEF SetVar, VarSetIn
  <1> HIDE DEF u
  <1>3. Whole(u, FR, BFR) /\ LiveIn(u, FR, BFR) = LiveIn(stack, FR, BFR) /\ Len(u) = Len(stack)
    BY <1>1, <1>2, WholeSetVar
  <1> QED
    BY <1>3 DEF u

LEMMA C_IFTHENELSE_Inv ==
  ASSUME IInv, C_IFTHENELSE \/ C_SOFTIF
  PROVE  IInv'
  <1>1. PICK x \in {BFR, Len(stack) + 1} : Or(SetVar(Arg(1), x), Arg(2))
    BY DEF C_IFTHENELSE, C_SOFTIF
  <1>2. mode = "run"
    BY DEF C_IFTHENELSE, C_SOFTIF, Is
  <1>3. x \in Nat /\ x >= BFR
    BY <1>2, Running
  <1>4. /\ Whole(SetVar(Arg(1), x), FR, BFR)
        /\ LiveIn(SetVar(Arg(1), x), FR, BFR) = LiveIn(stack, FR, BFR)
        /\ Len(SetVar(Arg(1), x)) = Len(stack)
    BY <1>2, <1>3, VarSet
  <1> QED
    BY <1>1, <1>2, <1>4, OrInv

LEMMA C_IFTHEN_Inv ==
  ASSUME IInv, C_IFTHEN
  PROVE  IInv'
  <1>1. mode = "run" /\ Continue(SetVar(Arg(1), BFR), BFR) /\ inside' = inside
    BY DEF C_IFTHEN, Is, counts
  <1>2. BFR \in Nat /\ BFR >= BFR
    BY <1>1, Running
  <1>3. /\ Whole(SetVar(Arg(1), BFR), FR, BFR)
        /\ LiveIn(SetVar(Arg(1), BFR), FR, BFR) = LiveIn(stack, FR, BFR)
    BY <1>1, <1>2, VarSet
  <1> QED
    BY <1>1, <1>3, Continued

LEMMA C_SOFTCUT_Inv ==
  ASSUME IInv, ChoicesKnown, C_SOFTCUT
  PROVE  IInv'
  <1> DEFINE ch == ChoiceVar
  <1>1. mode = "run" /\ inside' = inside
        /\ IF BFR = ch THEN Continue(stack, stack[BFR].parent) ELSE Continue(Unlink(ch), BFR)
    BY DEF C_SOFTCUT, Is, counts
  <1>2. ch # 0
    BY DEF C_SOFTCUT, ChoicesKnown
  <1>3. ch \in Chain(stack)[BFR] => stack[ch].kind = "CHP_JUMP" /\ stack[ch].frame = FR
    BY DEF C_SOFTCUT, ChoicesKnown, ChoiceChain
  <1> HIDE DEF ch
  <1>4. Whole(stack, FR, BFR) /\ Good(stack, FR, BFR) /\ BFR \in Chain(stack)[BFR]
    BY <1>1, Running, GoodFacts
  <1>5. ch \in Chain(stack)[BFR] => ch # 1
    BY <1>3, <1>4 DEF Whole, Cells
  <1>6. CASE BFR = ch
    <2>1. BFR # 1 /\ stack[BFR].frame = FR
      BY <1>3, <1>4, <1>5, <1>6
    <2>2. /\ Good(stack, FR, stack[BFR].parent)
          /\ LiveIn(stack, FR, stack[BFR].parent) = LiveIn(stack, FR, BFR)
          /\ Chain(stack)[BFR] = {BFR} \cup Chain(stack)[stack[BFR].parent]
      BY <1>4, <2>1, OwnChoice
    <2>3. Whole(stack, FR, stack[BFR].parent)
      BY <1>4, <2>2, WholeOther
    <2> QED
      BY <1>1, <1>6, <2>2, <2>3, Continued
  <1>7. CASE BFR # ch
    <2>1. Whole(Unlink(ch), FR, BFR) /\ LiveIn(Unlink(ch), FR, BFR) = LiveIn(stack, FR, BFR)
      BY <1>2, <1>3, <1>4, <1>5, <1>7, WholeUnlink
    <2> QED
      BY <1>1, <1>7, <2>1, Continued
  <1> QED
    BY <1>6, <1>7

(* The goal of catch/3 or setup_call_cleanup/3 is called. *)
LEMMA CatchCalled ==
  ASSUME IInv, mode = "run", NEW s, Whole(s, FR, BFR), Len(s) = Len(stack),
         LiveIn(s, FR, BFR) = LiveIn(stack, FR, BFR),
         NEW goal, NEW ret, UserCall(WithCatch(s), Len(stack) + 1, goal, FR, ret), inside' = inside + 1
  PROVE  IInv'
  <1> DEFINE t == WithCatch(s)
  <1>1. FR # 2 /\ inside = Cardinality(LiveIn(stack, FR, BFR))
    BY Running
  <1>2. "CHP_CATCH" \in {"CHP_JUMP", "CHP_CATCH"}
    OBVIOUS
  <1>3. Whole(t, FR, Len(s) + 1) /\ LiveIn(t, FR, Len(s) + 1) = LiveIn(s, FR, BFR)
    BY <1>1, <1>2, NewChoice DEF WithCatch
  <1> HIDE DEF t
  <1>4. PICK g : EnterGoal(log, t, Len(stack) + 1, g, FR, ret)
    BY DEF UserCall, t
  <1> QED
    BY <1>1, <1>3, <1>4, Entered

LEMMA I_CATCH_Inv ==
  ASSUME IInv, I_CATCH
  PROVE  IInv'
  <1>1. mode = "run" /\ UserCall(WithCatch(stack), Len(stack) + 1, stack[FR].goal[2], FR, PC + 1)
        /\ inside' = inside + 1
    BY DEF I_CATCH, Is
  <1>2. Whole(stack, FR, BFR)
    BY <1>1, Running
  <1> QED
    BY <1>1, <1>2, CatchCalled

LEMMA I_CALLCLEANUP_Inv ==
  ASSUME IInv, I_CALLCLEANUP
  PROVE  IInv'
  <1> DEFINE s == Flagged(FR, "FR_CLEANUP")
  <1>1. mode = "run" /\ UserCall(WithCatch(s), Len(stack) + 1, stack[FR].goal[2], FR, PC + 1)
        /\ inside' = inside + 1
    BY DEF I_CALLCLEANUP, Is
  <1>2. Whole(stack, FR, BFR) /\ IsF(stack, FR) /\ FR \in 1..Len(stack)
    BY <1>1, Running DEF IsF
  <1>a. s = FlaggedIn(stack, FR, "FR_CLEANUP")
    BY DEF Flagged, FlaggedIn
  <1> HIDE DEF s
  <1>3. Whole(s, FR, BFR) /\ LiveIn(s, FR, BFR) = LiveIn(stack, FR, BFR) /\ Len(s) = Len(stack)
    BY <1>2, <1>a, WholeFlag
  <1> QED
    BY <1>1, <1>3, CatchCalled

LEMMA I_EXITCLEANUP_Inv ==
  ASSUME IInv, I_EXITCLEANUP
  PROVE  IInv'
  <1>1. mode = "run" /\ inside' = inside
    BY DEF I_EXITCLEANUP, Is, counts
  <1>2. /\ Whole(stack, FR, BFR) /\ Good(stack, FR, BFR) /\ IsF(stack, FR) /\ FR \in 1..Len(stack)
    BY <1>1, Running DEF IsF
  <1>3. CASE Deterministic
    <2> DEFINE s == Flagged(FR, "FR_CATCHED")  b == stack[BFR].parent
    <2>1. Continue(s, b)
      BY <1>3 DEF I_EXITCLEANUP
    <2>2. stack[BFR].frame = FR /\ BFR # 1
      BY <1>2, <1>3 DEF Deterministic, Whole, Cells
    <2>3. /\ Good(stack, FR, b) /\ LiveIn(stack, FR, b) = LiveIn(stack, FR, BFR)
          /\ Chain(stack)[BFR] = {BFR} \cup Chain(stack)[b]
      BY <1>2, <2>2, OwnChoice
    <2>4. Whole(stack, FR, b)
      BY <1>2, <2>3, WholeOther
    <2> HIDE DEF b
    <2>a. s = FlaggedIn(stack, FR, "FR_CATCHED")
      BY DEF Flagged, FlaggedIn
    <2> HIDE DEF s
    <2>5. Whole(s, FR, b) /\ LiveIn(s, FR, b) = LiveIn(stack, FR, b)
      BY <1>2, <2>4, <2>a, WholeFlag
    <2> QED
      BY <1>1, <2>1, <2>3, <2>5, Continued
  <1>4. CASE ~Deterministic
    <2>1. Continue(stack, BFR)
      BY <1>4 DEF I_EXITCLEANUP
    <2> QED
      BY <1>1, <1>2, <2>1, Continued
  <1> QED
    BY <1>3, <1>4

(* The frame that catches is one that the exception passes. *)
LEMMA Caught ==
  ASSUME IInv, B_THROW
  PROVE  /\ catcher' \in Chain(stack)[FR]
         /\ catcher' # 2 => Catches(catcher') /\ stack' = FlaggedIn(stack, catcher', "FR_CATCHED")
         /\ catcher' = 2 => stack' = stack
         /\ UNCHANGED <<FR, BFR, inside, marked, cleaned>> /\ mode' = "unwind" /\ mode = "run"
  <1> DEFINE cs == {f \in FrameChain(FR) : Catches(f)}
             c  == IF cs = {} THEN TopFR ELSE CHOOSE f \in cs : \A g \in cs : g <= f
  <1>1. catcher' = c /\ stack' = IF c = TopFR THEN stack ELSE Flagged(c, "FR_CATCHED")
    BY DEF B_THROW
  <1>2. UNCHANGED <<FR, BFR, inside, marked, cleaned>> /\ mode' = "unwind" /\ mode = "run"
    BY DEF B_THROW, regs, counts, Is
  <1>3. Good(stack, FR, BFR) /\ FR \in 2..Len(stack) /\ Len(stack) \in Nat
    BY <1>2, Running
  <1>4. 2 \in Chain(stack)[FR] /\ \A f \in Chain(stack)[FR] : f \in 2..FR
    BY <1>3, GoodFacts
  <1>5. CASE cs = {}
    BY <1>1, <1>2, <1>4, <1>5 DEF TopFR
  <1>6. CASE cs # {}
    <2>1. cs \in SUBSET Nat /\ (\A f \in cs : f <= FR) /\ FR \in Nat
      BY <1>3, <1>4 DEF FrameChain
    <2>2. \E f \in cs : \A g \in cs : g <= f
      <3> HIDE DEF cs
      <3> QED
        BY <1>6, <2>1, NatMost
    <2>3. c \in cs
      <3> HIDE DEF cs
      <3> QED
        BY <1>6, <2>2
    <2>4. c \in Chain(stack)[FR] /\ Catches(c)
      BY <2>3 DEF FrameChain
    <2> HIDE DEF c
    <2> QED
      BY <1>1, <1>2, <2>4 DEF Flagged, FlaggedIn, TopFR
  <1> QED
    BY <1>5, <1>6

LEMMA B_THROW_Inv ==
  ASSUME IInv, B_THROW
  PROVE  IInv'
  <1>1. /\ catcher' \in Chain(stack)[FR]
        /\ catcher' # 2 => Catches(catcher') /\ stack' = FlaggedIn(stack, catcher', "FR_CATCHED")
        /\ catcher' = 2 => stack' = stack
        /\ FR' = FR /\ BFR' = BFR /\ inside' = inside /\ mode' = "unwind" /\ mode = "run"
    BY Caught
  <1>2. /\ Whole(stack, FR, BFR) /\ Good(stack, FR, BFR) /\ FR \in 2..Len(stack) /\ Len(stack) \in Nat /\ FR # 2
        /\ inside = Cardinality(LiveIn(stack, FR, BFR))
    BY <1>1, Running
  <1>3. catcher' \in 1..Len(stack) /\ IsF(stack, catcher')
    BY <1>1, <1>2, GoodFacts DEF IsF
  <1>4. /\ Whole(stack', FR, BFR) /\ LiveIn(stack', FR, BFR) = LiveIn(stack, FR, BFR)
        /\ Chain(stack')[FR] = Chain(stack)[FR]
    <2>1. CASE catcher' = 2
      BY <1>1, <1>2, <2>1
    <2>2. CASE catcher' # 2
      <3> DEFINE c == catcher'  u == FlaggedIn(stack, c, "FR_CATCHED")
      <3>1. stack' = u
        BY <1>1, <2>2
      <3>2. c \in 1..Len(stack) /\ IsF(stack, c)
        BY <1>3
      <3> HIDE DEF c
      <3>3. u = FlaggedIn(stack, c, "FR_CATCHED")
        OBVIOUS
      <3> HIDE DEF u
      <3>4. /\ Whole(u, FR, BFR) /\ LiveIn(u, FR, BFR) = LiveIn(stack, FR, BFR)
            /\ \A g \in 0..Len(stack) : Chain(u)[g] = Chain(stack)[g]
        BY <1>2, <3>2, <3>3, WholeFlag
      <3> QED
        BY <1>2, <3>1, <3>4
    <2> QED
      BY <2>1, <2>2
  <1> QED
    BY <1>1, <1>2, <1>4 DEF IInv, Modes

(* The stack and the registers after a frame went by exception *)
LEMMA Unwound ==
  ASSUME IInv, Unwind
  PROVE  LET e == Oldest(FR)
             p == stack[FR].parent
             t == SubSeq(stack, 1, FR - 1)
         IN  /\ FR' = p /\ BFR' = e /\ stack' = t /\ mode' = "unwind" /\ catcher' = catcher
             /\ LeaveFrames(DiscardedAfter(FR, FR) \cup {FR})
             /\ DiscardedAfter(FR, FR) \cup {FR} = LiveIn(stack, FR, BFR) \ LiveIn(t, p, e)
             /\ LiveIn(t, p, e) \subseteq LiveIn(stack, FR, BFR)
             /\ Whole(t, p, e) /\ Whole(stack, FR, e)
             /\ (p = 2 => e = 1) /\ catcher \in Chain(t)[p]
             /\ FR \in 3..Len(stack) /\ Len(t) = FR - 1 /\ \A a \in 1..(FR - 1) : t[a] = stack[a]
             /\ \A g \in 0..(FR - 1) : Chain(t)[g] = Chain(stack)[g]
             /\ FR \notin LiveIn(t, p, e) /\ e <= FR
             /\ Chain(stack)[e] = {d \in Chain(stack)[BFR] : d <= e}
  <1> DEFINE e == Oldest(FR)
             p == stack[FR].parent
             t == SubSeq(stack, 1, FR - 1)
  <1>1. mode = "unwind" /\ FR > catcher /\ LeaveFrames(DiscardedAfter(FR, FR) \cup {FR})
        /\ BFR' = (IF BFR > FR THEN e ELSE BFR) /\ FR' = p /\ stack' = t /\ mode' = "unwind" /\ catcher' = catcher
    BY DEF Unwind, UpTo, keep
  <1>2. /\ Good(stack, FR, BFR) /\ FR \in 2..Len(stack) /\ Len(stack) \in Nat /\ BFR \in 1..Len(stack)
    BY <1>1, Running
  <1>3. catcher \in Chain(stack)[FR]
    BY <1>1 DEF IInv, Modes
  <1>4. FR # 2 /\ catcher # FR
    <2>1. catcher \in 2..FR
      BY <1>2, <1>3, GoodFacts
    <2> QED
      BY <1>1, <1>2, <2>1
  <1>5. /\ Whole(stack, FR, e) /\ e <= FR /\ e \in 1..BFR
        /\ LiveIn(stack, FR, e) \subseteq LiveIn(stack, FR, BFR)
        /\ DiscardedAfter(FR, FR) = LiveIn(stack, FR, BFR) \ LiveIn(stack, FR, e)
        /\ (BFR <= FR => e = BFR)
        /\ Chain(stack)[e] = {d \in Chain(stack)[BFR] : d <= e}
    BY <1>1, CutToFrame
  <1>6. BFR' = e
    BY <1>1, <1>2, <1>5
  <1>7. e \in Chain(stack)[BFR] /\ (e = 1 \/ e > 3)
    <2>1. e \in Chain(stack)[BFR]
      BY <1>2, OldestIs
    <2> HIDE DEF e
    <2> QED
      BY <1>2, <2>1, GoodFacts
  <1> HIDE DEF e
  <1>8. /\ Whole(t, p, e) /\ LiveIn(t, p, e) = LiveIn(stack, FR, e) \ {FR} /\ FR \in LiveIn(stack, FR, e)
        /\ Len(t) = FR - 1 /\ FR \in 3..Len(stack) /\ \A a \in 1..(FR - 1) : t[a] = stack[a]
        /\ p \in 2..(FR - 1) /\ (p = 2 <=> FR = 3)
        /\ Chain(stack)[FR] = {FR} \cup Chain(stack)[p]
        /\ \A g \in 0..(FR - 1) : Chain(t)[g] = Chain(stack)[g]
    BY <1>4, <1>5, WholeLeave
  <1>9. p = 2 => e = 1
    BY <1>5, <1>7, <1>8
  <1>10. catcher \in Chain(t)[p]
    <2>1. p \in 0..(FR - 1)
      BY <1>8
    <2>2. Chain(t)[p] = Chain(stack)[p]
      BY <1>8, <2>1
    <2> HIDE DEF p, t
    <2> QED
      BY <1>3, <1>4, <1>8, <2>2
  <1>11. DiscardedAfter(FR, FR) \cup {FR} = LiveIn(stack, FR, BFR) \ LiveIn(t, p, e)
         /\ LiveIn(t, p, e) \subseteq LiveIn(stack, FR, BFR) /\ FR \notin LiveIn(t, p, e)
    <2> HIDE DEF p, t
    <2> QED
      BY <1>5, <1>8
  <1> HIDE DEF p, t
  <1> QED
    BY <1>1, <1>5, <1>6, <1>8, <1>9, <1>10, <1>11 DEF e, p, t

LEMMA Unwind_Inv ==
  ASSUME IInv, Unwind
  PROVE  IInv'
  <1> DEFINE e == Oldest(FR)
             p == stack[FR].parent
             t == SubSeq(stack, 1, FR - 1)
             fs == DiscardedAfter(FR, FR) \cup {FR}
  <1>1. /\ FR' = p /\ BFR' = e /\ stack' = t /\ mode' = "unwind" /\ catcher' = catcher
        /\ LeaveFrames(fs)
        /\ fs = LiveIn(stack, FR, BFR) \ LiveIn(t, p, e)
        /\ LiveIn(t, p, e) \subseteq LiveIn(stack, FR, BFR)
        /\ Whole(t, p, e) /\ (p = 2 => e = 1) /\ catcher \in Chain(t)[p]
    BY Unwound
  <1>2. mode # "closed"
    BY DEF Unwind
  <1> HIDE DEF e, p, t, fs
  <1>3. inside' = inside - Cardinality(fs)
    BY <1>1 DEF LeaveFrames
  <1>4. inside' = Cardinality(LiveIn(t, p, e))
    BY <1>1, <1>2, <1>3, LeftBehind
  <1> QED
    BY <1>1, <1>4 DEF IInv, Modes

LEMMA Recovered ==
  ASSUME IInv, Recover
  PROVE  LET e == Oldest(FR)
             t == SubSeq(stack, 1, FR)
         IN  /\ \E g : EnterGoal(log, t, e, g, FR, 3)
             /\ DiscardedAfter(FR, FR) = LiveIn(stack, FR, BFR) \ LiveIn(t, FR, e)
             /\ LiveIn(t, FR, e) \subseteq LiveIn(stack, FR, BFR)
             /\ Whole(t, FR, e) /\ FR # 2 /\ FR = catcher
             /\ Len(t) = FR /\ \A a \in 1..FR : t[a] = stack[a]
             /\ \A g \in 0..FR : Chain(t)[g] = Chain(stack)[g]
             /\ FR \in 3..Len(stack) /\ e <= FR
             /\ Chain(stack)[e] = {d \in Chain(stack)[BFR] : d <= e}
  <1> DEFINE e == Oldest(FR)
             t == SubSeq(stack, 1, FR)
  <1>1. mode = "unwind" /\ FR = catcher /\ FR # 2
        /\ UserCall(UpTo(FR + 1), IF BFR > FR THEN e ELSE BFR, stack[FR].goal[4], FR, 3)
    BY DEF Recover, TopFR
  <1>2. FR \in 2..Len(stack) /\ Len(stack) \in Nat /\ BFR \in 1..Len(stack)
    BY <1>1, Running
  <1>3. /\ Whole(stack, FR, e) /\ e <= FR /\ e \in 1..BFR
        /\ LiveIn(stack, FR, e) \subseteq LiveIn(stack, FR, BFR)
        /\ DiscardedAfter(FR, FR) = LiveIn(stack, FR, BFR) \ LiveIn(stack, FR, e)
        /\ (BFR <= FR => e = BFR)
        /\ Chain(stack)[e] = {d \in Chain(stack)[BFR] : d <= e}
    BY <1>1, CutToFrame
  <1>4. PICK g : EnterGoal(log, t, e, g, FR, 3)
    <2>1. UpTo(FR + 1) = t
      <3>1. (FR + 1) - 1 = FR
        BY <1>2
      <3> QED
        BY <3>1 DEF UpTo
    <2>2. (IF BFR > FR THEN e ELSE BFR) = e
      BY <1>2, <1>3
    <2> HIDE DEF t, e
    <2> QED
      BY <1>1, <2>1, <2>2 DEF UserCall
  <1> HIDE DEF e
  <1>5. /\ Whole(t, FR, e) /\ LiveIn(t, FR, e) = LiveIn(stack, FR, e)
        /\ Len(t) = FR /\ \A a \in 1..FR : t[a] = stack[a]
        /\ \A x \in 0..FR : Chain(t)[x] = Chain(stack)[x]
    BY <1>2, <1>3, WholeUpTo
  <1> HIDE DEF t
  <1> QED
    BY <1>1, <1>2, <1>3, <1>4, <1>5 DEF e, t

LEMMA Recover_Inv ==
  ASSUME IInv, Recover
  PROVE  IInv'
  <1> DEFINE e == Oldest(FR)
             t == SubSeq(stack, 1, FR)
             fs == DiscardedAfter(FR, FR)
  <1>1. /\ \E g : EnterGoal(log, t, e, g, FR, 3)
        /\ fs = LiveIn(stack, FR, BFR) \ LiveIn(t, FR, e)
        /\ LiveIn(t, FR, e) \subseteq LiveIn(stack, FR, BFR)
        /\ Whole(t, FR, e) /\ FR # 2
    BY Recovered
  <1>2. mode # "closed" /\ inside' = inside - Cardinality(fs) + 1
    BY DEF Recover
  <1> HIDE DEF e, t, fs
  <1>3. inside - Cardinality(fs) = Cardinality(LiveIn(t, FR, e))
    BY <1>1, <1>2, FewerLive
  <1>4. inside' = Cardinality(LiveIn(t, FR, e)) + 1
    BY <1>2, <1>3
  <1>5. PICK g : EnterGoal(log, t, e, g, FR, 3)
    BY <1>1
  <1> QED
    BY <1>1, <1>4, <1>5, Entered

LEMMA Uncaught_Inv ==
  ASSUME IInv, Uncaught
  PROVE  IInv'
  <1>1. mode = "unwind" /\ FR = 2 /\ mode' = "done" /\ stack' = stack /\ FR' = FR /\ BFR' = BFR /\ inside' = inside
    BY DEF Uncaught, regs, counts, TopFR
  <1>2. BFR = 1 /\ Whole(stack, FR, BFR) /\ inside = Cardinality(LiveIn(stack, FR, BFR))
    BY <1>1 DEF IInv, Modes
  <1> QED
    BY <1>1, <1>2 DEF IInv, Modes

(* The machine fails back to its newest choice point. *)
LEMMA FailedBack ==
  ASSUME IInv, mode = "fail", BFR # 1
  PROVE  LET g == stack[BFR].frame
             p == stack[BFR].parent
             t == SubSeq(stack, 1, BFR - 1)
         IN  /\ UpTo(BFR) = t
             /\ Whole(t, g, p) /\ LiveIn(t, g, p) \subseteq LiveIn(stack, FR, BFR)
             /\ Leaving = LiveIn(stack, FR, BFR) \ LiveIn(t, g, p)
             /\ g \in 3..(BFR - 1) /\ p \in 1..(BFR - 1) /\ IsF(t, g) /\ g \in LiveIn(t, g, p)
             /\ IsC(stack, BFR)
             /\ Len(t) = BFR - 1 /\ BFR \in 1..Len(stack) /\ Len(stack) \in Nat
             /\ \A a \in 1..(BFR - 1) : t[a] = stack[a]
             /\ Chain(stack)[BFR] = {BFR} \cup Chain(stack)[p]
             /\ \A a \in 0..(BFR - 1) : Chain(t)[a] = Chain(stack)[a]
  <1>1. Whole(stack, FR, BFR)
    BY Running
  <1>2. Leaving = {f \in Chain(stack)[FR] : f > BFR} \ {2}
    BY DEF Leaving, FrameChain, TopFR
  <1> QED
    BY <1>1, <1>2, WholeBack DEF UpTo

LEMMA BacktrackJump_Inv ==
  ASSUME IInv, BacktrackJump
  PROVE  IInv'
  <1> DEFINE g == stack[BFR].frame
             p == stack[BFR].parent
             t == SubSeq(stack, 1, BFR - 1)
  <1>1. mode = "fail" /\ stack[BFR].kind = "CHP_JUMP" /\ LeaveFrames(Leaving)
        /\ FR' = g /\ BFR' = p /\ stack' = UpTo(BFR) /\ mode' = "run"
    BY DEF BacktrackJump
  <1>2. BFR # 1
    BY <1>1, Running DEF Whole, Cells
  <1>3. /\ UpTo(BFR) = t
        /\ Whole(t, g, p) /\ LiveIn(t, g, p) \subseteq LiveIn(stack, FR, BFR)
        /\ Leaving = LiveIn(stack, FR, BFR) \ LiveIn(t, g, p)
        /\ g \in 3..(BFR - 1)
    BY <1>1, <1>2, FailedBack
  <1> HIDE DEF g, p, t
  <1>4. inside' = inside - Cardinality(Leaving)
    BY <1>1 DEF LeaveFrames
  <1>5. inside' = Cardinality(LiveIn(t, g, p))
    BY <1>1, <1>3, <1>4, LeftBehind
  <1>6. g # 2
    BY <1>3
  <1> QED
    BY <1>1, <1>3, <1>5, <1>6, RunsOn

(* The stack after the frame f of the newest choice point got another clause *)
LEMMA NextClause ==
  ASSUME IInv, BacktrackClause
  PROVE  LET f == stack[BFR].frame
             p == stack[BFR].parent
         IN  /\ f = BFR - 1 /\ f # 2 /\ f \in 3..Len(stack) /\ BFR \in 4..Len(stack) /\ p \in 1..f
             /\ FR' = f /\ PC' = 1 /\ mode' = "run" /\ mode = "fail"
             /\ Whole(stack', f, BFR')
             /\ LiveIn(stack', f, BFR') \subseteq LiveIn(stack, FR, BFR)
             /\ Leaving = LiveIn(stack, FR, BFR) \ LiveIn(stack', f, BFR')
             /\ LeaveFrames(Leaving)
             /\ Len(stack') \in Nat /\ Len(stack') >= f
             /\ \A a \in 1..(f - 1) : stack'[a] = stack[a]
             /\ stack'[f].flags = stack[f].flags /\ stack'[f].goal = stack[f].goal
             /\ stack'[f].programPointer = stack[f].programPointer /\ stack'[f].parent = stack[f].parent
             /\ stack'[f].kind = "frame"
             /\ \A a \in 1..Len(stack') : a > f =>
                  stack'[a].kind = "CHP_CLAUSE" /\ stack'[a].frame = f /\ a = f + 1
             /\ \A g \in 0..f : Chain(stack')[g] = Chain(stack)[g]
             /\ Chain(stack)[BFR] = {BFR} \cup Chain(stack)[p]
             /\ Chain(stack')[BFR'] = Chain(stack)[p] \/ Chain(stack')[BFR'] = {f + 1} \cup Chain(stack)[p]
  <1> DEFINE f == stack[BFR].frame
             p == stack[BFR].parent
             t == SubSeq(stack, 1, BFR - 1)
             ch == stack[BFR]
             cs == Clauses(stack[f].goal)
             fr == [stack[f] EXCEPT !.clause = cs[ch.next],
                                    !.variables = [v \in 1..cs[ch.next].variables |-> 0]]
             low == SubSeq(stack, 1, f - 1)
             q == Choice("CHP_CLAUSE", f, p, ch.next + 1)
             u == Append(low, fr)
  <1>1. mode = "fail" /\ stack[BFR].kind = "CHP_CLAUSE" /\ LeaveFrames(Leaving)
        /\ FR' = f /\ PC' = 1 /\ mode' = "run"
        /\ IF ch.next < Len(cs)
           THEN BFR' = f + 1 /\ stack' = low \o <<fr, q>>
           ELSE BFR' = p /\ stack' = u
    BY DEF BacktrackClause, UpTo
  <1>2. BFR # 1 /\ IsSeq(stack) /\ Cells(stack) /\ BFR \in 1..Len(stack)
    BY <1>1, Running DEF Whole, Cells
  <1>3. /\ Whole(t, f, p) /\ LiveIn(t, f, p) \subseteq LiveIn(stack, FR, BFR)
        /\ Leaving = LiveIn(stack, FR, BFR) \ LiveIn(t, f, p)
        /\ f \in 3..(BFR - 1) /\ p \in 1..(BFR - 1) /\ IsF(t, f)
        /\ Len(t) = BFR - 1 /\ BFR \in 1..Len(stack) /\ Len(stack) \in Nat
        /\ (\A a \in 1..(BFR - 1) : t[a] = stack[a])
        /\ Chain(stack)[BFR] = {BFR} \cup Chain(stack)[p]
        /\ \A a \in 0..(BFR - 1) : Chain(t)[a] = Chain(stack)[a]
    BY <1>1, <1>2, FailedBack
  <1>4. f = BFR - 1
    BY <1>1, <1>2 DEF Cells
  <1>5. f \in 3..Len(stack) /\ f \in Nat /\ f - 1 \in Nat /\ f - 1 <= Len(stack) /\ f # 2
        /\ BFR \in 4..Len(stack) /\ p \in 1..f /\ Len(t) = f
    BY <1>3, <1>4
  <1>6. stack[f] = t[f] /\ DOMAIN stack[f] = FrameFields /\ stack[f].kind = "frame"
    <2>1. f \in 1..(BFR - 1) /\ f \in 1..Len(t)
      BY <1>3, <1>4, <1>5
    <2>2. stack[f] = t[f]
      BY <1>3, <2>1
    <2>3. t[f].kind = "frame" /\ DOMAIN t[f] = FrameFields
      <3> HIDE DEF t, f
      <3> QED
        BY <1>3, <2>1 DEF IsF, Whole, Cells
    <2> QED
      BY <2>2, <2>3
  <1>7. DOMAIN fr = FrameFields /\ fr.kind = "frame" /\ fr.parent = stack[f].parent /\ fr.flags = stack[f].flags
        /\ fr.goal = stack[f].goal /\ fr.programPointer = stack[f].programPointer
        /\ fr.variables = [v \in 1..cs[ch.next].variables |-> 0]
    BY <1>6 DEF FrameFields
  <1>8. \A v \in DOMAIN fr.variables : fr.variables[v] = 0
    BY <1>7
  <1> HIDE DEF fr
  <1>9. IsSeq(low) /\ Len(low) = f - 1 /\ \A a \in 1..(f - 1) : low[a] = stack[a]
    <2> HIDE DEF f
    <2> QED
      BY <1>2, <1>5, Shortened
  <1> HIDE DEF low
  <1>10. IsSeq(u) /\ Len(u) = f /\ (\A a \in 1..(f - 1) : u[a] = stack[a]) /\ u[f] = fr
    <2>1. IsSeq(u) /\ Len(u) = Len(low) + 1 /\ (\A a \in 1..Len(low) : u[a] = low[a]) /\ u[Len(low) + 1] = fr
      BY <1>9, Appended
    <2> HIDE DEF u, f
    <2> QED
      BY <1>5, <1>9, <2>1
  <1>11. low \o <<fr, q>> = Append(u, q)
    <2> HIDE DEF q, f
    <2> QED
      BY <1>9, Joined
  <1> HIDE DEF u
  <1>12. /\ Whole(u, f, p) /\ LiveIn(u, f, p) = LiveIn(t, f, p)
         /\ \A g \in 0..f : Chain(u)[g] = Chain(stack)[g]
    <2>1. \A a \in 1..Len(t) : a # f => u[a] = t[a]
      BY <1>3, <1>4, <1>5, <1>10
    <2>2. /\ Len(u) = Len(t) /\ f \in 1..Len(t) /\ IsF(t, f) /\ IsSeq(u)
          /\ DOMAIN u[f] = FrameFields /\ u[f].kind = t[f].kind /\ u[f].parent = t[f].parent
      <3>1. Len(u) = Len(t) /\ IsF(t, f) /\ IsSeq(u)
        BY <1>3, <1>5, <1>10
      <3>2. f \in 1..Len(t)
        <4> HIDE DEF t, f
        <4> QED
          BY <1>5
      <3>3. t[f].kind = "frame"
        <4> HIDE DEF t, f
        <4> QED
          BY <3>1 DEF IsF
      <3>4. t[f].parent = stack[f].parent
        BY <1>6
      <3> HIDE DEF t, f
      <3>5. DOMAIN u[f] = FrameFields /\ u[f].kind = "frame" /\ u[f].parent = stack[f].parent
        BY <1>7, <1>10
      <3> QED
        BY <3>1, <3>2, <3>3, <3>4, <3>5
    <2>3. \A w \in DOMAIN u[f].variables : u[f].variables[w] \in Nat /\ ~(u[f].variables[w] # 0)
      BY <1>8, <1>10
    <2>4. \A w \in DOMAIN u[f].variables :
             \/ w \in DOMAIN t[f].variables /\ u[f].variables[w] = t[f].variables[w]
             \/ u[f].variables[w] \in Nat /\ (u[f].variables[w] # 0 => u[f].variables[w] >= p)
      BY <2>3
    <2>5. /\ Whole(u, f, p) /\ LiveIn(u, f, p) = LiveIn(t, f, p)
          /\ \A g \in 0..Len(t) : Chain(u)[g] = Chain(t)[g]
      <3> HIDE DEF t, f, p
      <3> QED
        BY <1>3, <2>1, <2>2, <2>4, WholeChange
    <2>6. ASSUME NEW g \in 0..f PROVE Chain(u)[g] = Chain(stack)[g]
      <3>1. g \in 0..Len(t) /\ g \in 0..(BFR - 1)
        BY <1>4, <1>5
      <3> HIDE DEF t
      <3> QED
        BY <1>3, <2>5, <3>1
    <2> QED
      BY <2>5, <2>6
  <1>13. CASE ch.next < Len(cs)
    <2> DEFINE w == Append(u, q)
    <2>1. BFR' = f + 1 /\ stack' = w
      BY <1>1, <1>11, <1>13
    <2>2. IsSeq(w) /\ Len(w) = Len(u) + 1 /\ (\A a \in 1..Len(u) : w[a] = u[a]) /\ w[Len(u) + 1] = q
      <3> HIDE DEF q
      <3> QED
        BY <1>10, Appended
    <2>3. DOMAIN q = ChoiceFields /\ q.kind = "CHP_CLAUSE" /\ q.frame = f /\ q.parent = p
      BY DEF Choice, ChoiceFields
    <2> HIDE DEF w, q, cs, ch, t, p, f
    <2>4. q.kind # "frame" /\ (q.kind = "CHP_CLAUSE" => f = Len(u)) /\ w[Len(w)] = q
      BY <1>10, <2>2, <2>3
    <2>5. /\ Whole(w, f, Len(w)) /\ LiveIn(w, f, Len(w)) = LiveIn(u, f, p)
          /\ Chain(w)[Len(w)] = {Len(w)} \cup Chain(u)[p]
          /\ \A g \in 0..Len(u) : Chain(w)[g] = Chain(u)[g]
      <3>1. Whole(u, f, p) /\ f # 2
        BY <1>5, <1>12
      <3>2. IsSeq(w) /\ Len(w) = Len(u) + 1 /\ \A a \in 1..Len(u) : w[a] = u[a]
        BY <2>2
      <3>3. w[Len(w)] = q
        BY <2>4
      <3>4. DOMAIN q = ChoiceFields /\ q.kind # "frame" /\ q.frame = f /\ q.parent = p
        BY <2>3, <2>4
      <3>5. q.kind = "CHP_CLAUSE" => f = Len(u)
        BY <2>4
      <3> QED
        BY <3>1, <3>2, <3>3, <3>4, <3>5, WholeChoice
    <2>6. Len(w) = f + 1 /\ Len(w) \in Nat /\ Len(w) >= f
      BY <1>5, <1>10, <2>2
    <2>7. \A a \in 1..(f - 1) : stack'[a] = stack[a]
      BY <1>5, <1>10, <2>1, <2>2
    <2>8. stack'[f] = fr
      BY <1>5, <1>10, <2>1, <2>2
    <2>9. \A a \in 1..Len(stack') : a > f => a = f + 1 /\ stack'[a] = q
      BY <1>5, <1>10, <2>1, <2>2, <2>6
    <2>10. \A g \in 0..f : Chain(stack')[g] = Chain(stack)[g]
      BY <1>10, <1>12, <2>1, <2>5
    <2>11. Chain(stack')[BFR'] = {f + 1} \cup Chain(stack)[p]
      <3>1. p \in 0..f
        BY <1>5
      <3> QED
        BY <1>12, <2>1, <2>5, <2>6, <3>1
    <2>12. Whole(stack', f, BFR') /\ LiveIn(stack', f, BFR') = LiveIn(t, f, p)
      BY <1>12, <2>1, <2>5, <2>6
    <2> QED
      BY <1>1, <1>3, <1>4, <1>5, <1>7, <2>1, <2>3, <2>6, <2>7, <2>8, <2>9, <2>10, <2>11, <2>12 DEF f, p
  <1>14. CASE ~(ch.next < Len(cs))
    <2>1. BFR' = p /\ stack' = u
      BY <1>1, <1>14
    <2> HIDE DEF q, cs, ch, t, p, f
    <2>2. Len(u) \in Nat /\ Len(u) >= f /\ \A a \in 1..Len(u) : ~(a > f)
      BY <1>5, <1>10
    <2>3. p \in 0..f
      BY <1>5
    <2> QED
      BY <1>1, <1>3, <1>4, <1>5, <1>7, <1>10, <1>12, <2>1, <2>2, <2>3 DEF f, p
  <1> QED
    BY <1>13, <1>14

LEMMA BacktrackClause_Inv ==
  ASSUME IInv, BacktrackClause
  PROVE  IInv'
  <1>1. /\ FR' = stack[BFR].frame /\ FR' # 2 /\ mode' = "run" /\ mode = "fail"
        /\ Whole(stack', FR', BFR')
        /\ LiveIn(stack', FR', BFR') \subseteq LiveIn(stack, FR, BFR)
        /\ Leaving = LiveIn(stack, FR, BFR) \ LiveIn(stack', FR', BFR')
        /\ LeaveFrames(Leaving)
    BY NextClause
  <1>2. inside' = inside - Cardinality(Leaving)
    BY <1>1 DEF LeaveFrames
  <1>3. inside' = Cardinality(LiveIn(stack', FR', BFR'))
    BY <1>1, <1>2, LeftBehind
  <1> QED
    BY <1>1, <1>3, RunsOn

LEMMA CatchFailed ==
  ASSUME IInv, BacktrackCatch
  PROVE  LET g == stack[BFR].frame
             p == stack[BFR].parent
             t == SubSeq(stack, 1, BFR - 1)
         IN  /\ FR' = g /\ BFR' = p /\ mode' = "fail" /\ mode = "fail" /\ BFR # 1
             /\ stack[BFR].kind = "CHP_CATCH" /\ g \in 3..(BFR - 1)
             /\ stack' = FlaggedIn(t, g, "FR_CATCHED")
             /\ Whole(stack', g, p) /\ LiveIn(stack', g, p) = LiveIn(t, g, p)
             /\ \A a \in 0..(BFR - 1) : Chain(stack')[a] = Chain(stack)[a]
             /\ \A a \in 1..(BFR - 1) : a # g => stack'[a] = stack[a]
             /\ stack'[g].flags = stack[g].flags \cup {"FR_CATCHED"} /\ stack'[g].goal = stack[g].goal
             /\ stack'[g].programPointer = stack[g].programPointer /\ stack'[g].clause = stack[g].clause
             /\ stack'[g].parent = stack[g].parent /\ stack'[g].kind = "frame"
             /\ Len(stack') = BFR - 1
  <1> DEFINE g == stack[BFR].frame
             p == stack[BFR].parent
             t == SubSeq(stack, 1, BFR - 1)
  <1>1. mode = "fail" /\ stack[BFR].kind = "CHP_CATCH" /\ FR' = g /\ BFR' = p /\ mode' = "fail"
        /\ stack' = FlaggedIn(UpTo(BFR), g, "FR_CATCHED")
    BY DEF BacktrackCatch, FlaggedIn
  <1>2. BFR # 1
    BY <1>1, Running DEF Whole, Cells
  <1>3. /\ UpTo(BFR) = t
        /\ Whole(t, g, p) /\ g \in 3..(BFR - 1) /\ IsF(t, g)
        /\ Len(t) = BFR - 1 /\ BFR \in 1..Len(stack) /\ Len(stack) \in Nat
        /\ (\A a \in 1..(BFR - 1) : t[a] = stack[a])
        /\ \A a \in 0..(BFR - 1) : Chain(t)[a] = Chain(stack)[a]
    BY <1>1, <1>2, FailedBack
  <1>4. stack' = FlaggedIn(t, g, "FR_CATCHED")
    BY <1>1, <1>3
  <1> HIDE DEF g, p, t
  <1>5. g \in 1..Len(t) /\ g \in 1..(BFR - 1)
    BY <1>3
  <1>6. /\ Whole(stack', g, p) /\ LiveIn(stack', g, p) = LiveIn(t, g, p) /\ Len(stack') = Len(t)
        /\ \A a \in 0..Len(t) : Chain(stack')[a] = Chain(t)[a]
        /\ \A a \in 1..Len(t) : a # g => stack'[a] = t[a]
        /\ stack'[g].flags = t[g].flags \cup {"FR_CATCHED"} /\ stack'[g].goal = t[g].goal
        /\ stack'[g].programPointer = t[g].programPointer /\ stack'[g].clause = t[g].clause
        /\ stack'[g].parent = t[g].parent /\ stack'[g].kind = t[g].kind
    BY <1>3, <1>4, <1>5, WholeFlag
  <1>7. t[g] = stack[g] /\ t[g].kind = "frame"
    BY <1>3, <1>5 DEF IsF
  <1>8. \A a \in 0..(BFR - 1) : Chain(stack')[a] = Chain(stack)[a]
    BY <1>3, <1>6
  <1>9. \A a \in 1..(BFR - 1) : a # g => stack'[a] = stack[a]
    BY <1>3, <1>6
  <1> QED
    BY <1>1, <1>2, <1>3, <1>4, <1>6, <1>7, <1>8, <1>9 DEF g, p, t

LEMMA BacktrackCatch_Inv ==
  ASSUME IInv, BacktrackCatch
  PROVE  IInv'
  <1> DEFINE g == stack[BFR].frame
             p == stack[BFR].parent
             t == SubSeq(stack, 1, BFR - 1)
  <1>1. /\ FR' = g /\ BFR' = p /\ mode' = "fail" /\ mode = "fail" /\ BFR # 1 /\ g \in 3..(BFR - 1)
        /\ Whole(stack', g, p) /\ LiveIn(stack', g, p) = LiveIn(t, g, p)
    BY CatchFailed
  <1>2. /\ LiveIn(t, g, p) \subseteq LiveIn(stack, FR, BFR)
        /\ Leaving = LiveIn(stack, FR, BFR) \ LiveIn(t, g, p)
    BY <1>1, FailedBack
  <1> HIDE DEF g, p, t
  <1>3. inside' = inside - Cardinality(Leaving)
    BY DEF BacktrackCatch
  <1>4. inside' = Cardinality(LiveIn(t, g, p))
    BY <1>1, <1>2, <1>3, LeftBehind
  <1>5. g # 2
    BY <1>1
  <1> QED
    BY <1>1, <1>4, <1>5, RunsOn

(* Only the query is left. *)
LEMMA AtTheQuery ==
  ASSUME NEW s, NEW fr, Whole(s, fr, 1)
  PROVE  /\ Whole(s, 2, 1) /\ LiveIn(s, 2, 1) = {}
         /\ LiveIn(s, fr, 1) = {f \in Chain(s)[fr] : f > 1} \ {2}
  <1>1. Good(s, fr, 1)
    BY DEF Whole
  <1>2. FramesOf(s, 1) = {2} /\ Chain(s)[2] = {2} /\ Chain(s)[1] = {1} /\ Len(s) >= 2 /\ Len(s) \in Nat
        /\ \A f \in Chain(s)[fr] : f \in 2..fr /\ f \in 2..Len(s)
    BY <1>1, GoodFacts
  <1>3. IsF(s, 2)
    BY <1>1 DEF Good, Linked
  <1>4. \A c \in Chain(s)[1] : Keeps(s, c, 2)
    BY <1>2 DEF Keeps
  <1>5. Good(s, 2, 1)
    BY <1>1, <1>3, <1>4, OtherFrame
  <1>6. UNION {FramesOf(s, c) : c \in Chain(s)[1]} = {2}
    BY <1>2
  <1>7. LiveIn(s, 2, 1) = {} /\ LiveIn(s, fr, 1) = Chain(s)[fr] \ {2}
    BY <1>2, <1>6 DEF LiveIn
  <1>8. \A f \in Chain(s)[fr] : f > 1
    BY <1>2
  <1> QED
    BY <1>5, <1>7, <1>8, WholeOther

LEMMA BacktrackTop_Inv ==
  ASSUME IInv, BacktrackTop
  PROVE  IInv'
  <1> DEFINE t == SubSeq(stack, 1, 2)
  <1>1. mode = "fail" /\ BFR = 1 /\ BFR' = 1 /\ FR' = 2 /\ mode' = "done" /\ stack' = t
        /\ inside' = inside - Cardinality(Leaving)
    BY DEF BacktrackTop, Top, TopFR, QueryFR, UpTo, LeaveFrames
  <1>2. Whole(stack, FR, BFR)
    BY <1>1, Running
  <1>3. Whole(stack, 2, 1) /\ LiveIn(stack, 2, 1) = {} /\ Leaving = LiveIn(stack, FR, BFR) \ {}
    BY <1>1, <1>2, AtTheQuery DEF Leaving, FrameChain, TopFR
  <1>4. Len(stack) >= 2 /\ Len(stack) \in Nat
    BY <1>2, GoodFacts DEF Whole
  <1>5. Whole(t, 2, 1) /\ LiveIn(t, 2, 1) = {}
    BY <1>3, <1>4, WholeUpTo
  <1> HIDE DEF t
  <1>6. inside' = Cardinality({})
    BY <1>1, <1>3, LeftBehind
  <1> QED
    BY <1>1, <1>5, <1>6 DEF IInv, Modes

(* The two cells of a query *)
LEMMA QueryCells ==
  ASSUME NEW t, t = <<Choice("CHP_TOP", TopFR, 0, 0), Frame(<<"query">>, NoClause, 0, 0)>>
  PROVE  Whole(t, 2, 1) /\ LiveIn(t, 2, 1) = {} /\ Len(t) = 2
  <1>1. Len(t) = 2
    OBVIOUS
  <1>2. t[1].kind = "CHP_TOP" /\ t[1].frame = 2 /\ t[1].parent = 0 /\ DOMAIN t[1] = ChoiceFields
    BY DEF Choice, ChoiceFields, TopFR
  <1>3. t[2].kind = "frame" /\ t[2].parent = 0 /\ DOMAIN t[2] = FrameFields /\ t[2].variables = [v \in 1..0 |-> 0]
    BY DEF Frame, FrameFields, NoClause
  <1>4. IsSeq(t)
    <2>1. t = [a \in 1..2 |-> t[a]]
      OBVIOUS
    <2> QED
      BY <1>1, <2>1 DEF IsSeq
  <1> HIDE DEF Choice, Frame
  <1>5. \A a \in 1..Len(t) : a = 1 \/ a = 2
    BY <1>1
  <1>6. Older(t)
    <2>1. t[1].parent \in 0..(1 - 1) /\ t[2].parent \in 0..(2 - 1)
      BY <1>2, <1>3
    <2> QED
      BY <1>1, <1>5, <2>1 DEF Older
  <1>7. Chain(t)[0] = {} /\ Chain(t)[1] = {1} /\ Chain(t)[2] = {2}
    <2>1. 1 \in 1..Len(t) /\ 2 \in 1..Len(t)
      BY <1>1
    <2> QED
      BY <1>2, <1>3, <1>6, <2>1, ChainStep
  <1>8. IsC(t, 1) /\ IsF(t, 2) /\ ~IsC(t, 2)
    BY <1>1, <1>2, <1>3 DEF IsF, IsC
  <1>9. Linked(t)
    <2>1. \A a \in 1..Len(t) : t[a].parent = 0
      BY <1>2, <1>3, <1>5
    <2>2. \A a \in 1..Len(t) : IsC(t, a) => a = 1
      BY <1>5, <1>8
    <2>3. ~(Len(t) >= 3) /\ Len(t) >= 2 /\ 3..Len(t) = {}
      BY <1>1
    <2> QED
      BY <1>2, <1>3, <1>6, <1>8, <2>1, <2>2, <2>3 DEF Linked
  <1>10. FramesOf(t, 1) = {2}
    BY <1>2, <1>7 DEF FramesOf
  <1>11. Good(t, 2, 1)
    <2>1. \A c \in Chain(t)[1] : c = 1
      BY <1>7
    <2>2. Keeps(t, 1, 2)
      BY <1>7 DEF Keeps
    <2>3. \A x \in 1..Len(t) : IsC(t, x) => x = 1
      BY <1>5, <1>8
    <2> QED
      BY <1>8, <1>9, <2>1, <2>2, <2>3 DEF Good
  <1>12. Cells(t)
    <2>1. \A a \in 1..Len(t) : DOMAIN t[a] = IF t[a].kind = "frame" THEN FrameFields ELSE ChoiceFields
      BY <1>2, <1>3, <1>5
    <2>2. \A a \in 1..Len(t) : t[a].kind # "CHP_CLAUSE"
      BY <1>2, <1>3, <1>5
    <2> QED
      BY <1>2, <1>4, <2>1, <2>2 DEF Cells
  <1>13. Vars(t, 1)
    <2>1. \A f \in 1..Len(t) : IsF(t, f) => DOMAIN t[f].variables = {}
      <3>1. \A f \in 1..Len(t) : IsF(t, f) => f = 2
        BY <1>2, <1>5 DEF IsF
      <3>2. DOMAIN t[2].variables = {}
        BY <1>3
      <3> QED
        BY <3>1, <3>2
    <2> QED
      BY <2>1 DEF Vars
  <1>14. LiveIn(t, 2, 1) = {}
    BY <1>7, <1>10 DEF LiveIn
  <1> QED
    BY <1>1, <1>11, <1>12, <1>13, <1>14 DEF Whole

LEMMA OpenQuery_Inv ==
  ASSUME IInv, OpenQuery
  PROVE  IInv'
  <1> DEFINE t == <<Choice("CHP_TOP", TopFR, 0, 0), Frame(<<"query">>, NoClause, 0, 0)>>
  <1>1. Whole(t, 2, 1) /\ LiveIn(t, 2, 1) = {} /\ Len(t) = 2
    BY QueryCells
  <1>2. mode = "closed" /\ EnterGoal(<<>>, t, 1, Goal, 2, 0) /\ inside' = inside + 1
    BY DEF OpenQuery, Top, TopFR
  <1> HIDE DEF t
  <1>3. inside = 0
    BY <1>2 DEF IInv
  <1>4. inside' = Cardinality(LiveIn(t, 2, 1)) + 1
    BY <1>1, <1>2, <1>3, FS_EmptySet
  <1> QED
    BY <1>1, <1>2, <1>4, Entered

(* The frame of the goal of a query that has more solutions *)
LEMMA AtTheGoal ==
  ASSUME IInv, mode = "solution"
  PROVE  /\ FR = 2 /\ BFR # 1 /\ Whole(stack, 3, BFR) /\ LiveIn(stack, 3, BFR) = LiveIn(stack, FR, BFR)
         /\ Chain(stack)[3] = {3, 2} /\ 3 \in LiveIn(stack, FR, BFR)
  <1>1. FR = 2 /\ BFR # 1 /\ Whole(stack, 2, BFR)
    BY DEF IInv, Modes
  <1>2. /\ Good(stack, 3, BFR) /\ LiveIn(stack, 3, BFR) = LiveIn(stack, 2, BFR)
        /\ Chain(stack)[3] = {3, 2} /\ 3 \in LiveIn(stack, 2, BFR)
    BY <1>1, QueryFrame DEF Whole
  <1>3. Whole(stack, 3, BFR)
    BY <1>1, <1>2, WholeOther
  <1> QED
    BY <1>1, <1>2, <1>3

LEMMA NextSolution_Inv ==
  ASSUME IInv, NextSolution
  PROVE  IInv'
  <1>1. mode = "solution" /\ mode' = "fail" /\ FR' = 3 /\ stack' = stack /\ BFR' = BFR /\ inside' = inside
    BY DEF NextSolution, QueryFR, counts
  <1>2. Whole(stack, 3, BFR) /\ LiveIn(stack, 3, BFR) = LiveIn(stack, FR, BFR)
        /\ inside = Cardinality(LiveIn(stack, FR, BFR))
    BY <1>1, AtTheGoal DEF IInv
  <1> QED
    BY <1>1, <1>2, RunsOn

(* The frames that the end of a query leaves *)
LEMMA QueryClosed ==
  ASSUME IInv, CloseQuery
  PROVE  LET fs == IF mode = "solution" THEN DiscardedAfter(QueryFR, QueryFR) \cup {QueryFR} ELSE {}
         IN  fs = LiveIn(stack, FR, BFR)
  <1>1. mode \in {"solution", "last", "done"}
    BY DEF CloseQuery
  <1>2. CASE mode = "solution"
    <2>1. /\ FR = 2 /\ BFR # 1 /\ Whole(stack, 3, BFR) /\ LiveIn(stack, 3, BFR) = LiveIn(stack, FR, BFR)
          /\ Chain(stack)[3] = {3, 2} /\ 3 \in LiveIn(stack, FR, BFR)
      BY <1>2, AtTheGoal
    <2>2. /\ 1 \in Chain(stack)[BFR] /\ stack[1].frame = 2
          /\ (\A c \in Chain(stack)[BFR] : c \in 1..BFR /\ (c = 1 \/ c > 3)) /\ BFR \in 1..Len(stack)
      <3>1. Good(stack, 3, BFR)
        BY <2>1 DEF Whole
      <3>2. stack[1].frame = 2
        BY <3>1 DEF Good, Linked
      <3> QED
        BY <3>1, <3>2, GoodFacts
    <2>3. \A c \in Chain(stack)[BFR] : (c <= 3 => c <= 1) /\ (c > 3 => c > 3)
      BY <2>2
    <2>4. UNION {DiscardedIn(stack, c, 3) : c \in {d \in Chain(stack)[BFR] : d > 3}}
            = LiveIn(stack, 3, BFR) \ LiveIn(stack, 3, 1)
      <3>1. Good(stack, 3, BFR) /\ 3 \in Nat /\ 1 <= 3 /\ 3 >= 3 /\ 3 >= stack[1].frame
        BY <2>1, <2>2 DEF Whole
      <3>2. \A c \in Chain(stack)[BFR] : c <= 3 => c <= 1
        BY <2>3
      <3>3. \A c \in Chain(stack)[BFR] : c > 3 => c > 3
        OBVIOUS
      <3> QED
        BY <2>2, <3>1, <3>2, <3>3, CutLeaves
    <2>5. DiscardedAfter(3, 3) = UNION {DiscardedIn(stack, c, 3) : c \in {d \in Chain(stack)[BFR] : d > 3}}
      BY DEF DiscardedAfter, Discarded, DiscardedIn, Newer, ChoiceChain, FrameChain, FramesOf
    <2>6. LiveIn(stack, 3, 1) = {3}
      <3>1. Good(stack, 3, 1)
        BY <2>1, <2>2, FewerChoices DEF Whole
      <3>2. FramesOf(stack, 1) = {2} /\ Chain(stack)[1] = {1}
        BY <3>1, GoodFacts
      <3>3. UNION {FramesOf(stack, c) : c \in Chain(stack)[1]} = {2}
        BY <3>2
      <3> QED
        BY <2>1, <3>3 DEF LiveIn
    <2> QED
      BY <1>2, <2>1, <2>4, <2>5, <2>6 DEF QueryFR
  <1>3. CASE mode # "solution"
    <2>1. FR = 2 /\ BFR = 1 /\ Whole(stack, 2, 1)
      BY <1>1, <1>3 DEF IInv, Modes
    <2> QED
      BY <1>3, <2>1, AtTheQuery
  <1> QED
    BY <1>2, <1>3

LEMMA CloseQuery_Inv ==
  ASSUME IInv, CloseQuery
  PROVE  IInv'
  <1>1. inside' = inside - Cardinality(LiveIn(stack, FR, BFR)) /\ mode # "closed"
        /\ mode' = "closed" /\ stack' = <<>> /\ FR' = 0 /\ BFR' = 0
    BY QueryClosed DEF CloseQuery
  <1>2. inside = Cardinality(LiveIn(stack, FR, BFR)) /\ inside \in Nat
    BY <1>1, Running
  <1>3. inside' = 0
    BY <1>1, <1>2
  <1> QED
    BY <1>1, <1>3 DEF IInv, Modes

(* Every step keeps the invariant of a machine that finds the choice points *)
(* it looks for.                                                             *)
LEMMA InvNext ==
  ASSUME IInv, ChoicesKnown, [Next]_vars
  PROVE  IInv'
  <1>1. ASSUME I_CALL \/ I_USERCALL0 PROVE IInv'
    BY <1>1, I_CALL_Inv
  <1>2. ASSUME I_DEPART PROVE IInv'
    BY <1>2, I_DEPART_Inv
  <1>3. ASSUME I_EXIT \/ I_EXITQUERY \/ I_EXITCATCH PROVE IInv'
    BY <1>3, I_EXIT_Inv, I_EXITQUERY_Inv, I_EXITCATCH_Inv
  <1>4. ASSUME I_CUT \/ C_CUT \/ C_LCUT \/ C_LSCUT PROVE IInv'
    BY <1>4, I_CUT_Inv, C_CUT_Inv, C_LCUT_Inv, C_LSCUT_Inv
  <1>5. ASSUME C_JMP \/ Nothing \/ C_FAIL PROVE IInv'
    BY <1>5, NothingInv
  <1>6. ASSUME C_OR \/ C_IFTHENELSE \/ C_SOFTIF \/ C_IFTHEN PROVE IInv'
    BY <1>6, C_OR_Inv, C_IFTHENELSE_Inv, C_IFTHEN_Inv
  <1>7. ASSUME C_SOFTCUT PROVE IInv'
    BY <1>7, C_SOFTCUT_Inv
  <1>8. ASSUME I_CATCH \/ I_CALLCLEANUP \/ I_EXITCLEANUP PROVE IInv'
    BY <1>8, I_CATCH_Inv, I_CALLCLEANUP_Inv, I_EXITCLEANUP_Inv
  <1>9. ASSUME B_THROW \/ Unwind \/ Recover \/ Uncaught PROVE IInv'
    BY <1>9, B_THROW_Inv, Unwind_Inv, Recover_Inv, Uncaught_Inv
  <1>10. ASSUME BacktrackJump \/ BacktrackClause \/ BacktrackCatch \/ BacktrackTop PROVE IInv'
    BY <1>10, BacktrackJump_Inv, BacktrackClause_Inv, BacktrackCatch_Inv, BacktrackTop_Inv
  <1>11. ASSUME OpenQuery \/ NextSolution \/ CloseQuery PROVE IInv'
    BY <1>11, OpenQuery_Inv, NextSolution_Inv, CloseQuery_Inv
  <1>12. CASE UNCHANGED vars
    BY <1>12 DEF vars, regs, counts, IInv, Modes
  <1> QED
    BY <1>1, <1>2, <1>3, <1>4, <1>5, <1>6, <1>7, <1>8, <1>9, <1>10, <1>11, <1>12 DEF Next, Machine

-----------------------------------------------------------------------------
(* What the invariant gives *)

LEMMA NoChains ==
  ASSUME stack = <<>>
  PROVE  Chain(stack)[0] = {}
  <1>1. Older(stack)
    BY DEF Older
  <1> QED
    BY <1>1, ChainStep

LEMMA InvFrames ==
  ASSUME IInv
  PROVE  FramesLeftOnce
  <1>1. CASE mode = "closed"
    <2>1. Chain(stack)[FR] = {} /\ Chain(stack)[BFR] = {} /\ inside = 0
      BY <1>1, NoChains DEF IInv
    <2>2. Live = {}
      BY <2>1 DEF Live, FrameChain, ChoiceChain
    <2> QED
      BY <2>1, <2>2, FS_EmptySet DEF FramesLeftOnce, ChoiceChain
  <1>2. CASE mode # "closed"
    <2>1. Good(stack, FR, BFR) /\ inside = Cardinality(LiveIn(stack, FR, BFR))
      BY <1>2, Running
    <2>2. Live = LiveIn(stack, FR, BFR)
      BY DEF Live, LiveIn, FrameChain, ChoiceChain, FramesOf, TopFR
    <2>3. ASSUME NEW c \in ChoiceChain(BFR), NEW d \in ChoiceChain(BFR), c # d
          PROVE  Discarded(c, 0) \cap Discarded(d, 0) = {}
      <3>1. Discarded(c, 0) = DiscardedIn(stack, c, 0) /\ Discarded(d, 0) = DiscardedIn(stack, d, 0)
        BY DEF Discarded, DiscardedIn, FrameChain, FramesOf
      <3>2. c \in Chain(stack)[BFR] /\ d \in Chain(stack)[BFR]
        BY DEF ChoiceChain
      <3>3. c < d \/ d < c
        <4>1. c \in 1..BFR /\ d \in 1..BFR /\ BFR \in 1..Len(stack)
          BY <2>1, <3>2, GoodFacts
        <4> QED
          BY <2>3, <4>1
      <3>4. DiscardedIn(stack, c, 0) \cap DiscardedIn(stack, d, 0) = {}
        BY <2>1, <3>2, <3>3, CutApart
      <3> QED
        BY <3>1, <3>4
    <2> QED
      BY <2>1, <2>2, <2>3 DEF FramesLeftOnce
  <1> QED
    BY <1>1, <1>2

LEMMA InvType ==
  ASSUME IInv
  PROVE  TypeOK
  <1>1. CASE mode = "closed"
    BY <1>1 DEF IInv, Modes, TypeOK
  <1>2. CASE mode # "closed"
    <2>1. Linked(stack) /\ IsF(stack, FR) /\ IsC(stack, BFR) /\ IsSeq(stack)
      BY <1>2, Running DEF Good
    <2>2. DOMAIN stack = 1..Len(stack)
      BY <2>1 DEF IsSeq
    <2>3. \A a \in DOMAIN stack : stack[a].parent \in 0..(a - 1) /\ a \in Nat
      BY <2>1, <2>2 DEF Linked, Older
    <2>4. \A a : (IsFrame(a) <=> IsF(stack, a)) /\ (IsChoice(a) <=> IsC(stack, a))
      BY <2>2 DEF IsFrame, IsChoice, IsF, IsC
    <2>5. \A a \in DOMAIN stack :
            /\ stack[a].parent < a
            /\ stack[a].parent = 0 \/ (IsFrame(a) <=> IsFrame(stack[a].parent))
            /\ IsChoice(a) => IsFrame(stack[a].frame) /\ (stack[a].frame < a \/ a = Top)
      <3> SUFFICES ASSUME NEW a \in DOMAIN stack
                   PROVE  /\ stack[a].parent < a
                          /\ stack[a].parent = 0 \/ (IsFrame(a) <=> IsFrame(stack[a].parent))
                          /\ IsChoice(a) => IsFrame(stack[a].frame) /\ (stack[a].frame < a \/ a = Top)
        OBVIOUS
      <3>1. stack[a].parent < a
        BY <2>3
      <3>2. stack[a].parent = 0 \/ (IsFrame(a) <=> IsFrame(stack[a].parent))
        BY <2>1, <2>2, <2>4 DEF Linked
      <3>3. IsChoice(a) => IsFrame(stack[a].frame) /\ (stack[a].frame < a \/ a = Top)
        BY <2>1, <2>2, <2>4 DEF Linked, Top
      <3> QED
        BY <3>1, <3>2, <3>3
    <2>6. IsFrame(FR) /\ IsChoice(BFR)
      BY <2>1, <2>4
    <2> QED
      BY <2>5, <2>6 DEF IInv, Modes, TypeOK
  <1> QED
    BY <1>1, <1>2

(* The inductive invariant: while the machine runs its stack has the shape   *)
(* that the comparison of addresses takes for granted, and the references    *)
(* of the predicates count the frames in use.                                *)
THEOREM InvHolds == Spec /\ []ChoicesKnown => []IInv
  <1>1. Init => IInv
    BY InvInit
  <1>2. IInv /\ ChoicesKnown /\ [Next]_vars => IInv'
    BY InvNext
  <1> QED
    BY <1>1, <1>2, PTL DEF Spec

(* leaveFrame(), discardFrame() and the last call give back the reference of *)
(* a frame exactly once: def->references counts the frames that somebody may *)
(* still return to or backtrack into, and no two choice points that a cut    *)
(* discards leave the same frame.                                            *)
THEOREM FramesHold == Spec /\ []ChoicesKnown => []FramesLeftOnce
  <1>1. IInv => FramesLeftOnce
    BY InvFrames
  <1> QED
    BY <1>1, InvHolds, PTL

(* FR and BFR are a frame and a choice point that are there, and the parent  *)
(* pointers lead from each cell to an older one of its kind, across last     *)
(* calls, cuts, exceptions and lTop falling back over what was there.        *)
THEOREM TypeCorrect == Spec /\ []ChoicesKnown => []TypeOK
  <1>1. IInv => TypeOK
    BY InvType
  <1> QED
    BY <1>1, InvHolds, PTL

-----------------------------------------------------------------------------
(* The cleanup handlers. *)

IsCleanup(s, f) == s[f].goal[1] = "cleanup"
ArmedIn(s, f)   == "FR_CLEANUP" \in s[f].flags /\ "FR_CATCHED" \notin s[f].flags
Ran(s, f)       == "FR_CLEANUP" \in s[f].flags /\ "FR_CATCHED" \in s[f].flags
AllArmed(s, L)  == {f \in L : ArmedIn(s, f)}

CallsCleanup(clause) ==
  /\ clause.codes[1][1] = "I_CALLCLEANUP"
  /\ clause.codes[2][1] = "I_EXITCLEANUP"
  /\ clause.codes[3][1] = "I_EXIT"

(* Only a frame of setup_call_cleanup/3 has a handler, its goal returns to    *)
(* I_EXITCLEANUP, and the only choice point of it is the one I_CALLCLEANUP    *)
(* makes, right above it.                                                     *)
HandlerFrame(s, f) ==
  /\ "FR_CLEANUP" \in s[f].flags => IsCleanup(s, f)
  /\ IsCleanup(s, f) => CallsCleanup(s[f].clause)
  /\ s[f].parent # 0 /\ IsCleanup(s, s[f].parent) => s[f].programPointer = 2
HandlerChoice(s, c) ==
  IsCleanup(s, s[c].frame) => s[c].kind = "CHP_CATCH" /\ c = s[c].frame + 1

Handlers(s) ==
  /\ \A f \in 1..Len(s) : IsF(s, f) => HandlerFrame(s, f)
  /\ \A c \in 1..Len(s) : IsC(s, c) => HandlerChoice(s, c)

(* A handler that is armed has its choice point, and nothing is above one that ran. *)
GuardedAt(s, f, b) ==
  /\ ArmedIn(s, f) => f + 1 \in Chain(s)[b] /\ s[f + 1].frame = f
  /\ \A g \in Chain(s)[f] : g # f => ~Ran(s, g)
Guarded(s, fr, b) == \A f \in LiveIn(s, fr, b) : GuardedAt(s, f, b)

Safe(s, fr, b) == Handlers(s) /\ Guarded(s, fr, b)

CInv ==
  /\ marked \in Int /\ cleaned \in Int
  /\ mode = "closed" => marked = cleaned
  /\ mode # "closed" =>
       /\ Safe(stack, FR, BFR)
       /\ marked - cleaned = Cardinality(AllArmed(stack, LiveIn(stack, FR, BFR)))
  /\ mode = "run" /\ IsCleanup(stack, FR) =>
       PC \in 1..3 /\ (PC = 1 => stack[FR].flags = {} /\ Len(stack) = FR)
  /\ mode = "unwind" /\ catcher # 2 => stack[catcher].goal[1] = "catch"

(* t has the goals of s up to m; more flags and other clauses where no handler is. *)
AlikeFrame(s, t, a) ==
  /\ t[a].goal = s[a].goal /\ t[a].parent = s[a].parent /\ t[a].programPointer = s[a].programPointer
  /\ t[a].clause = s[a].clause \/ ~IsCleanup(s, a)
  /\ "FR_CLEANUP" \in t[a].flags => "FR_CLEANUP" \in s[a].flags \/ IsCleanup(s, a)
Alike(s, t, m) ==
  \A a \in 1..m : /\ t[a].kind = s[a].kind
                  /\ IsF(s, a) => AlikeFrame(s, t, a)
                  /\ IsC(s, a) => t[a].frame = s[a].frame

LEMMA HandlersKept ==
  ASSUME NEW s, Linked(s), Handlers(s), NEW t, NEW m \in Nat, m >= 2, m <= Len(s), m <= Len(t), Len(t) \in Nat,
         Alike(s, t, m),
         \A a \in 1..Len(t) : a > m => (IsF(t, a) => HandlerFrame(t, a)) /\ (IsC(t, a) => HandlerChoice(t, a))
  PROVE  Handlers(t)
  <1>1. Older(s) /\ Len(s) \in Nat /\ s[1].frame = 2
    BY DEF Linked, Older
  <1>2. \A a \in 1..m : IsF(s, a) => (IsCleanup(t, a) <=> IsCleanup(s, a))
    BY DEF Alike, AlikeFrame, IsCleanup
  <1>3. ASSUME NEW a \in 1..Len(t), IsF(t, a) PROVE HandlerFrame(t, a)
    <2>1. CASE a > m
      BY <1>3, <2>1
    <2>2. CASE ~(a > m)
      <3>1. a \in 1..m /\ a \in 1..Len(s)
        BY <1>1, <2>2
      <3>2. IsF(s, a) /\ AlikeFrame(s, t, a) /\ HandlerFrame(s, a)
        BY <1>3, <3>1 DEF Alike, IsF, Handlers
      <3>3. s[a].parent # 0 => s[a].parent \in 1..m /\ IsF(s, s[a].parent)
        <4>1. s[a].parent \in 0..(a - 1)
          BY <1>1, <3>1 DEF Older
        <4>2. s[a].parent # 0 => IsF(s, s[a].parent)
          BY <3>1, <3>2 DEF Linked
        <4> QED
          BY <3>1, <4>1, <4>2
      <3>4. s[a].parent # 0 => (IsCleanup(t, s[a].parent) <=> IsCleanup(s, s[a].parent))
        BY <1>2, <3>3
      <3>5. IsCleanup(t, a) <=> IsCleanup(s, a)
        BY <1>2, <3>1, <3>2
      <3> QED
        BY <3>2, <3>4, <3>5 DEF HandlerFrame, AlikeFrame
    <2> QED
      BY <2>1, <2>2
  <1>4. ASSUME NEW a \in 1..Len(t), IsC(t, a) PROVE HandlerChoice(t, a)
    <2>1. CASE a > m
      BY <1>4, <2>1
    <2>2. CASE ~(a > m)
      <3>1. a \in 1..m /\ a \in 1..Len(s)
        BY <1>1, <2>2
      <3>2. IsC(s, a) /\ t[a].frame = s[a].frame /\ t[a].kind = s[a].kind /\ HandlerChoice(s, a)
        BY <1>4, <3>1 DEF Alike, IsC, Handlers
      <3>3. s[a].frame \in 1..m /\ IsF(s, s[a].frame)
        <4>1. IsF(s, s[a].frame) /\ (s[a].frame < a \/ a = 1)
          BY <3>1, <3>2 DEF Linked
        <4>2. s[a].frame \in 1..Len(s)
          BY <4>1 DEF IsF
        <4> QED
          BY <1>1, <3>1, <4>1, <4>2
      <3>4. IsCleanup(t, s[a].frame) <=> IsCleanup(s, s[a].frame)
        BY <1>2, <3>3
      <3> QED
        BY <3>2, <3>4 DEF HandlerChoice
    <2> QED
      BY <2>1, <2>2
  <1> QED
    BY <1>3, <1>4 DEF Handlers

(* What keeps the handlers safe: the frames that stay keep their choice point, *)
(* and no handler runs below them.                                             *)
LEMMA GuardKept ==
  ASSUME NEW s, NEW fr, NEW b, Guarded(s, fr, b), NEW t, NEW g, NEW c,
         \A f \in LiveIn(t, g, c) :
           \/ /\ f \in LiveIn(s, fr, b) /\ Chain(t)[f] = Chain(s)[f]
              /\ ArmedIn(t, f) => ArmedIn(s, f)
              /\ ArmedIn(t, f) /\ f + 1 \in Chain(s)[b] /\ s[f + 1].frame = f =>
                   f + 1 \in Chain(t)[c] /\ t[f + 1].frame = f
              /\ \A h \in Chain(s)[f] : h # f /\ Ran(t, h) => Ran(s, h)
           \/ GuardedAt(t, f, c)
  PROVE  Guarded(t, g, c)
  <1> SUFFICES ASSUME NEW f \in LiveIn(t, g, c), ~GuardedAt(t, f, c) PROVE FALSE
    BY DEF Guarded
  <1>1. /\ f \in LiveIn(s, fr, b) /\ Chain(t)[f] = Chain(s)[f]
        /\ ArmedIn(t, f) => ArmedIn(s, f)
        /\ ArmedIn(t, f) /\ f + 1 \in Chain(s)[b] /\ s[f + 1].frame = f =>
             f + 1 \in Chain(t)[c] /\ t[f + 1].frame = f
        /\ \A h \in Chain(s)[f] : h # f /\ Ran(t, h) => Ran(s, h)
    OBVIOUS
  <1>2. GuardedAt(s, f, b)
    BY <1>1 DEF Guarded
  <1>3. GuardedAt(t, f, c)
    BY <1>1, <1>2 DEF GuardedAt
  <1> QED
    BY <1>3

(* Fewer cells and fewer frames in use, those of them that are armed with *)
(* their choice points                                                    *)
LEMMA SafeShrink ==
  ASSUME NEW s, NEW fr, NEW b, Good(s, fr, b), Safe(s, fr, b),
         NEW t, NEW g, NEW e, Good(t, g, e), NEW m, m = Len(t), m <= Len(s),
         \A a \in 1..m : t[a] = s[a],
         \A h \in 0..m : Chain(t)[h] = Chain(s)[h],
         LiveIn(t, g, e) \subseteq LiveIn(s, fr, b),
         \A f \in LiveIn(t, g, e) :
           ArmedIn(s, f) /\ f + 1 \in Chain(s)[b] /\ s[f + 1].frame = f => f + 1 \in Chain(s)[e]
  PROVE  /\ Safe(t, g, e)
         /\ AllArmed(t, LiveIn(t, g, e)) = AllArmed(s, LiveIn(t, g, e))
         /\ \A f \in 1..m : /\ ArmedIn(t, f) <=> ArmedIn(s, f)
                            /\ Ran(t, f) <=> Ran(s, f)
                            /\ IsCleanup(t, f) <=> IsCleanup(s, f)
  <1>1. m \in Nat /\ m >= 2 /\ Len(s) \in Nat /\ e \in 1..m /\ LiveIn(t, g, e) \subseteq 3..m
    BY GoodFacts
  <1>2. \A f \in 1..m : /\ ArmedIn(t, f) <=> ArmedIn(s, f)
                        /\ Ran(t, f) <=> Ran(s, f)
                        /\ IsCleanup(t, f) <=> IsCleanup(s, f)
    BY DEF ArmedIn, Ran, IsCleanup
  <1>3. Handlers(t)
    <2>1. Alike(s, t, m)
      BY <1>1 DEF Alike, AlikeFrame
    <2>2. Linked(s) /\ Handlers(s)
      BY DEF Good, Safe
    <2>3. \A a \in 1..Len(t) : ~(a > m)
      BY <1>1
    <2> QED
      BY <1>1, <2>1, <2>2, <2>3, HandlersKept
  <1>4. ASSUME NEW f \in LiveIn(t, g, e)
        PROVE  /\ f \in LiveIn(s, fr, b) /\ Chain(t)[f] = Chain(s)[f]
               /\ ArmedIn(t, f) => ArmedIn(s, f)
               /\ ArmedIn(t, f) /\ f + 1 \in Chain(s)[b] /\ s[f + 1].frame = f =>
                    f + 1 \in Chain(t)[e] /\ t[f + 1].frame = f
               /\ \A h \in Chain(s)[f] : h # f /\ Ran(t, h) => Ran(s, h)
    <2>1. f \in 1..m /\ f \in 0..m /\ e \in 0..m
      BY <1>1
    <2>2. Chain(t)[f] = Chain(s)[f] /\ Chain(t)[e] = Chain(s)[e]
      BY <2>1
    <2>3. ArmedIn(t, f) <=> ArmedIn(s, f)
      BY <1>2, <2>1
    <2>4. Chain(s)[f] \subseteq 1..f
      <3>1. Older(s) /\ f \in 0..Len(s)
        BY <1>1, <2>1 DEF Good, Linked
      <3> QED
        BY <3>1, ChainShape
    <2>5. \A h \in Chain(s)[f] : h \in 1..m
      BY <1>1, <2>1, <2>4
    <2>6. Chain(t)[e] \subseteq 1..m
      BY <1>1, GoodFacts DEF IsC
    <2>7. f + 1 \in Chain(s)[e] => f + 1 \in 1..m /\ f + 1 \in Chain(t)[e]
      BY <2>2, <2>6
    <2>8. ArmedIn(t, f) /\ f + 1 \in Chain(s)[b] /\ s[f + 1].frame = f =>
            f + 1 \in Chain(t)[e] /\ t[f + 1].frame = f
      BY <2>3, <2>7
    <2>9. f \in LiveIn(s, fr, b)
      OBVIOUS
    <2>10. \A h \in Chain(s)[f] : h # f /\ Ran(t, h) => Ran(s, h)
      BY <1>2, <2>5
    <2> QED
      BY <2>2, <2>3, <2>8, <2>9, <2>10
  <1>5. Guarded(t, g, e)
    BY <1>4, GuardKept DEF Safe
  <1>6. AllArmed(t, LiveIn(t, g, e)) = AllArmed(s, LiveIn(t, g, e))
    <2>1. \A f \in LiveIn(t, g, e) : ArmedIn(t, f) <=> ArmedIn(s, f)
      BY <1>1, <1>2
    <2> QED
      BY <2>1 DEF AllArmed
  <1> QED
    BY <1>2, <1>3, <1>5, <1>6 DEF Safe

(* A cell changes that has no handler, or gets no other flags. *)
LEMMA SafeChange ==
  ASSUME NEW s, NEW fr, NEW b, Good(s, fr, b), Safe(s, fr, b), NEW x \in 1..Len(s), IsF(s, x),
         NEW t, Good(t, fr, b), Len(t) = Len(s), LiveIn(t, fr, b) = LiveIn(s, fr, b),
         \A h \in 0..Len(s) : Chain(t)[h] = Chain(s)[h],
         \A a \in 1..Len(s) : a # x => t[a] = s[a],
         t[x].kind = s[x].kind, AlikeFrame(s, t, x), ArmedIn(t, x) <=> ArmedIn(s, x), Ran(t, x) => Ran(s, x)
  PROVE  Safe(t, fr, b) /\ AllArmed(t, LiveIn(t, fr, b)) = AllArmed(s, LiveIn(s, fr, b))
  <1>1. Len(s) \in Nat /\ Len(s) >= 2 /\ b \in 1..Len(s) /\ LiveIn(s, fr, b) \subseteq 3..Len(s)
    BY GoodFacts
  <1>2. \A a \in 1..Len(s) : (ArmedIn(t, a) <=> ArmedIn(s, a)) /\ (Ran(t, a) => Ran(s, a))
    BY DEF ArmedIn, Ran
  <1>3. Handlers(t)
    <2>1. Alike(s, t, Len(s))
      <3>1. ASSUME NEW a \in 1..Len(s)
            PROVE  /\ t[a].kind = s[a].kind
                   /\ IsF(s, a) => AlikeFrame(s, t, a)
                   /\ IsC(s, a) => t[a].frame = s[a].frame
        <4>1. CASE a = x
          BY <4>1 DEF IsF, IsC
        <4>2. CASE a # x
          BY <4>2 DEF AlikeFrame
        <4> QED
          BY <4>1, <4>2
      <3> QED
        BY <3>1 DEF Alike
    <2>2. Linked(s) /\ Handlers(s)
      BY DEF Good, Safe
    <2>3. \A a \in 1..Len(t) : ~(a > Len(s))
      BY <1>1
    <2> QED
      BY <1>1, <2>1, <2>2, <2>3, HandlersKept
  <1>4. ASSUME NEW f \in LiveIn(t, fr, b)
        PROVE  /\ f \in LiveIn(s, fr, b) /\ Chain(t)[f] = Chain(s)[f]
               /\ ArmedIn(t, f) => ArmedIn(s, f)
               /\ ArmedIn(t, f) /\ f + 1 \in Chain(s)[b] /\ s[f + 1].frame = f =>
                    f + 1 \in Chain(t)[b] /\ t[f + 1].frame = f
               /\ \A h \in Chain(s)[f] : h # f /\ Ran(t, h) => Ran(s, h)
    <2>1. f \in 1..Len(s) /\ f \in 0..Len(s) /\ b \in 0..Len(s)
      BY <1>1
    <2>2. Chain(t)[f] = Chain(s)[f] /\ Chain(t)[b] = Chain(s)[b]
      BY <2>1
    <2>3. \A h \in Chain(s)[f] : h \in 1..Len(s)
      <3>1. Older(s)
        BY DEF Good, Linked
      <3> QED
        BY <1>1, <2>1, <3>1, ChainShape
    <2>4. f + 1 \in Chain(s)[b] => f + 1 # x /\ f + 1 \in 1..Len(s)
      BY GoodFacts DEF IsC, IsF
    <2> QED
      BY <1>2, <2>1, <2>2, <2>3, <2>4
  <1>5. Guarded(t, fr, b)
    BY <1>4, GuardKept DEF Safe
  <1>6. AllArmed(t, LiveIn(t, fr, b)) = AllArmed(s, LiveIn(s, fr, b))
    <2>1. \A f \in LiveIn(s, fr, b) : ArmedIn(t, f) <=> ArmedIn(s, f)
      BY <1>1, <1>2
    <2> QED
      BY <2>1 DEF AllArmed
  <1> QED
    BY <1>3, <1>5, <1>6 DEF Safe

(* A choice point is pushed that is not of a frame with a handler. *)
LEMMA SafeChoice ==
  ASSUME NEW s, NEW fr, NEW b, Good(s, fr, b), Safe(s, fr, b), ~IsCleanup(s, fr),
         NEW t, NEW n, n = Len(t), n = Len(s) + 1, \A a \in 1..Len(s) : t[a] = s[a],
         t[n].kind # "frame", t[n].frame = fr,
         LiveIn(t, fr, n) = LiveIn(s, fr, b), Chain(s)[b] \subseteq Chain(t)[n],
         \A h \in 0..Len(s) : Chain(t)[h] = Chain(s)[h]
  PROVE  Safe(t, fr, n) /\ AllArmed(t, LiveIn(t, fr, n)) = AllArmed(s, LiveIn(s, fr, b))
         /\ (IsCleanup(t, fr) <=> IsCleanup(s, fr))
  <1>1. Len(s) \in Nat /\ Len(s) >= 2 /\ b \in 1..Len(s) /\ LiveIn(s, fr, b) \subseteq 3..Len(s) /\ fr \in 2..Len(s)
    BY GoodFacts
  <1>2. \A a \in 1..Len(s) : (ArmedIn(t, a) <=> ArmedIn(s, a)) /\ (Ran(t, a) <=> Ran(s, a))
          /\ (IsCleanup(t, a) <=> IsCleanup(s, a))
    BY DEF ArmedIn, Ran, IsCleanup
  <1>3. Handlers(t)
    <2>1. Alike(s, t, Len(s))
      BY DEF Alike, AlikeFrame
    <2>2. Linked(s) /\ Handlers(s)
      BY DEF Good, Safe
    <2>3. \A a \in 1..Len(t) : a > Len(s) => a = n
      BY <1>1
    <2>4. ~IsF(t, n) /\ HandlerChoice(t, n)
      BY <1>1, <1>2 DEF IsF, HandlerChoice
    <2>5. Len(s) <= Len(t) /\ Len(t) \in Nat
      BY <1>1
    <2>6. \A a \in 1..Len(t) : a > Len(s) => (IsF(t, a) => HandlerFrame(t, a)) /\ (IsC(t, a) => HandlerChoice(t, a))
      BY <2>3, <2>4
    <2> DEFINE m == Len(s)
    <2>7. m \in Nat /\ m >= 2 /\ m <= Len(s) /\ m <= Len(t) /\ Len(t) \in Nat
      BY <1>1, <2>5
    <2>8. Alike(s, t, m) /\ \A a \in 1..Len(t) : a > m => (IsF(t, a) => HandlerFrame(t, a)) /\ (IsC(t, a) => HandlerChoice(t, a))
      BY <2>1, <2>6
    <2> HIDE DEF m
    <2> QED
      BY <2>2, <2>7, <2>8, HandlersKept
  <1>4. ASSUME NEW f \in LiveIn(t, fr, n)
        PROVE  /\ f \in LiveIn(s, fr, b) /\ Chain(t)[f] = Chain(s)[f]
               /\ ArmedIn(t, f) => ArmedIn(s, f)
               /\ ArmedIn(t, f) /\ f + 1 \in Chain(s)[b] /\ s[f + 1].frame = f =>
                    f + 1 \in Chain(t)[n] /\ t[f + 1].frame = f
               /\ \A h \in Chain(s)[f] : h # f /\ Ran(t, h) => Ran(s, h)
    <2>1. f \in 1..Len(s) /\ f \in 0..Len(s)
      BY <1>1
    <2>2. Chain(t)[f] = Chain(s)[f]
      BY <2>1
    <2>3. \A h \in Chain(s)[f] : h \in 1..Len(s)
      <3>1. Older(s)
        BY DEF Good, Linked
      <3> QED
        BY <1>1, <2>1, <3>1, ChainShape
    <2>4. f + 1 \in Chain(s)[b] => f + 1 \in 1..Len(s)
      BY GoodFacts DEF IsC
    <2> QED
      BY <1>2, <2>1, <2>2, <2>3, <2>4
  <1>5. Guarded(t, fr, n)
    BY <1>4, GuardKept DEF Safe
  <1>6. AllArmed(t, LiveIn(t, fr, n)) = AllArmed(s, LiveIn(s, fr, b))
    <2>1. \A f \in LiveIn(s, fr, b) : ArmedIn(t, f) <=> ArmedIn(s, f)
      BY <1>1, <1>2
    <2> QED
      BY <2>1 DEF AllArmed
  <1>7. IsCleanup(t, fr) <=> IsCleanup(s, fr)
    BY <1>1, <1>2
  <1> QED
    BY <1>3, <1>5, <1>6, <1>7 DEF Safe

LEMMA CleanupClauses ==
  ASSUME NEW goal, goal[1] = "cleanup"
  PROVE  /\ Clauses(goal) # <<>> /\ ~(Len(Clauses(goal)) > 1) /\ CallsCleanup(Clauses(goal)[1])
  <1> DEFINE two == << <<"I_CALLCLEANUP">>, <<"I_EXITCLEANUP">> >>
             last == <<"I_EXIT">>
             u == Append(two, last)
             cl == [codes |-> u, variables |-> 0]
  <1>1. Clauses(goal) = Fixed(two)
    BY DEF Clauses
  <1>2. Clauses(goal) = <<cl>>
    BY <1>1 DEF Fixed
  <1>3. IsSeq(two) /\ Len(two) = 2 /\ two[1] = <<"I_CALLCLEANUP">> /\ two[2] = <<"I_EXITCLEANUP">>
    BY DEF IsSeq
  <1>4. cl.codes = u /\ last[1] = "I_EXIT"
    OBVIOUS
  <1> HIDE DEF two, cl, last
  <1>5. u[1] = two[1] /\ u[2] = two[2] /\ u[3] = last
    <2>a. IsSeq(two)
      BY <1>3
    <2>1. (\A a \in 1..Len(two) : u[a] = two[a]) /\ u[Len(two) + 1] = last
      BY <2>a, Appended
    <2> HIDE DEF u
    <2> QED
      BY <1>3, <2>1
  <1> HIDE DEF u
  <1>6. CallsCleanup(cl)
    BY <1>3, <1>4, <1>5 DEF CallsCleanup
  <1> QED
    BY <1>2, <1>6

(* What EnterGoal puts in the frame *)
LEMMA EnterCell ==
  ASSUME NEW past, NEW base, IsSeq(base), NEW b, NEW goal, NEW fr, NEW ret,
         EnterGoal(past, base, b, goal, fr, ret)
  PROVE  LET n == Len(base) + 1
         IN  /\ stack'[n].kind = "frame" /\ stack'[n].goal = goal /\ stack'[n].flags = {}
             /\ stack'[n].parent = fr /\ stack'[n].programPointer = ret
             /\ IsCleanup(stack', n) => CallsCleanup(stack'[n].clause) /\ Len(stack') = n /\ mode' = "run"
  <1> DEFINE cs == Clauses(goal)
             clause == IF cs = <<>> THEN NoClause ELSE cs[1]
             n == Len(base) + 1
             r == Frame(goal, clause, fr, ret)
             q == Choice("CHP_CLAUSE", n, b, 2)
  <1>1. stack' = base \o <<r>> \o (IF Len(cs) > 1 THEN <<q>> ELSE <<>>)
        /\ mode' = IF cs = <<>> THEN "fail" ELSE "run"
    BY DEF EnterGoal
  <1>2. r.kind = "frame" /\ r.goal = goal /\ r.flags = {} /\ r.parent = fr /\ r.programPointer = ret /\ r.clause = clause
    BY DEF Frame
  <1>3. goal[1] = "cleanup" => cs # <<>> /\ ~(Len(cs) > 1) /\ CallsCleanup(clause)
    BY CleanupClauses
  <1> HIDE DEF r, q, clause, cs
  <1>4. Len(base) \in Nat
    BY DEF IsSeq
  <1> SUFFICES stack'[n] = r /\ (goal[1] = "cleanup" => Len(stack') = n)
    BY <1>1, <1>2, <1>3 DEF IsCleanup
  <1>5. CASE Len(cs) > 1
    <2>1. stack' = base \o <<r>> \o <<q>>
      BY <1>1, <1>5
    <2> DEFINE t == Append(base, r)
    <2>2. base \o <<r>> \o <<q>> = Append(t, q)
      BY Joined
    <2>3. IsSeq(t) /\ Len(t) = n /\ t[n] = r
      BY Appended
    <2> HIDE DEF t
    <2>4. n \in 1..Len(t)
      BY <1>4, <2>3
    <2>5. Append(t, q)[n] = r
      BY <2>3, <2>4, Appended
    <2>6. stack'[n] = r
      BY <2>1, <2>2, <2>5
    <2> QED
      BY <1>3, <1>5, <2>6
  <1>6. CASE ~(Len(cs) > 1)
    <2>1. stack' = base \o <<r>> \o <<>>
      BY <1>1, <1>6
    <2>2. stack' = Append(base, r)
      BY <2>1, Joined
    <2>3. stack'[n] = r /\ Len(stack') = n
      BY <1>4, <2>2, Appended
    <2> QED
      BY <2>3
  <1> QED
    BY <1>5, <1>6

(* Nothing that ran is above a frame that may be called from. *)
LEMMA NoneRan ==
  ASSUME NEW s, NEW fr, NEW b, Good(s, fr, b), Guarded(s, fr, b), ~Ran(s, fr)
  PROVE  \A g \in Chain(s)[fr] : ~Ran(s, g)
  <1>1. CASE fr = 2
    BY <1>1, GoodFacts
  <1>2. CASE fr # 2
    <2>1. fr \in LiveIn(s, fr, b)
      BY <1>2, GoodFacts DEF LiveIn
    <2> QED
      BY <2>1 DEF Guarded, GuardedAt
  <1> QED
    BY <1>1, <1>2

(* A goal is entered. *)
LEMMA SafeEnter ==
  ASSUME NEW past, NEW base, NEW b, NEW goal, NEW fr, NEW ret,
         Whole(base, fr, b), fr # 2 \/ Len(base) = 2,
         Safe(base, fr, b), ~Ran(base, fr), IsCleanup(base, fr) => ret = 2,
         EnterGoal(past, base, b, goal, fr, ret)
  PROVE  /\ Safe(stack', FR', BFR')
         /\ AllArmed(stack', LiveIn(stack', FR', BFR')) = AllArmed(base, LiveIn(base, fr, b))
         /\ mode' \in {"run", "fail"}
         /\ IsCleanup(stack', FR') => PC' = 1 /\ stack'[FR'].flags = {} /\ Len(stack') = FR'
  <1> DEFINE m == Len(base)  n == Len(base) + 1  t == stack'  c == BFR'
  <1>1. /\ FR' = n /\ PC' = 1 /\ mode' \in {"run", "fail"}
        /\ LiveIn(t, n, c) = LiveIn(base, fr, b) \cup {n}
        /\ Len(t) \in Nat /\ Len(t) >= n
        /\ \A a \in 1..m : t[a] = base[a]
        /\ \A a \in 1..Len(t) : a > n => \E next : t[a] = Choice("CHP_CLAUSE", n, b, next)
        /\ Chain(t)[n] = {n} \cup Chain(base)[fr]
        /\ \A g \in 0..m : Chain(t)[g] = Chain(base)[g]
        /\ Chain(base)[b] \subseteq Chain(t)[c]
    BY WholeEnter
  <1>2. Good(base, fr, b) /\ IsSeq(base)
    BY DEF Whole, Cells
  <1>3. m \in Nat /\ m >= 2 /\ fr \in 1..m /\ b \in 1..m /\ LiveIn(base, fr, b) \subseteq 3..m /\ Linked(base)
    <2>1. m \in Nat /\ m >= 2 /\ fr \in 2..m /\ b \in 1..m /\ LiveIn(base, fr, b) \subseteq 3..m
      BY <1>2, GoodFacts
    <2>2. Linked(base)
      BY <1>2 DEF Good
    <2> HIDE DEF m
    <2> QED
      BY <2>1, <2>2
  <1>4. /\ t[n].kind = "frame" /\ t[n].flags = {} /\ t[n].parent = fr /\ t[n].programPointer = ret
        /\ IsCleanup(t, n) => CallsCleanup(t[n].clause) /\ Len(t) = n
    BY <1>2, EnterCell
  <1> HIDE DEF t, c
  <1>5. \A a \in 1..m : (ArmedIn(t, a) <=> ArmedIn(base, a)) /\ (Ran(t, a) <=> Ran(base, a))
          /\ (IsCleanup(t, a) <=> IsCleanup(base, a))
    BY <1>1 DEF ArmedIn, Ran, IsCleanup
  <1>6. Handlers(t)
    <2>1. Alike(base, t, m)
      BY <1>1 DEF Alike, AlikeFrame
    <2>2. HandlerFrame(t, n)
      BY <1>3, <1>4, <1>5 DEF HandlerFrame
    <2>3. ASSUME NEW a \in 1..Len(t), a > n PROVE ~IsF(t, a) /\ HandlerChoice(t, a)
      <3>1. PICK next : t[a] = Choice("CHP_CLAUSE", n, b, next)
        BY <1>1, <2>3
      <3>2. t[a].kind = "CHP_CLAUSE" /\ t[a].frame = n
        BY <3>1 DEF Choice
      <3>3. ~IsCleanup(t, n)
        BY <1>1, <1>4, <2>3
      <3> QED
        BY <3>2, <3>3 DEF IsF, HandlerChoice
    <2>4. ~IsC(t, n)
      BY <1>4 DEF IsC
    <2>5. \A a \in 1..Len(t) : a > m => a = n \/ a > n
      BY <1>3
    <2>6. \A a \in 1..Len(t) : a > m => (IsF(t, a) => HandlerFrame(t, a)) /\ (IsC(t, a) => HandlerChoice(t, a))
      <3> HIDE DEF m, n
      <3> QED
        BY <2>2, <2>3, <2>4, <2>5
    <2>7. m <= Len(t) /\ m <= Len(base)
      BY <1>1, <1>3
    <2> HIDE DEF m, n
    <2> QED
      BY <1>1, <1>3, <2>1, <2>6, <2>7, HandlersKept DEF Safe
  <1>7. ~ArmedIn(t, n)
    BY <1>4 DEF ArmedIn
  <1>8. GuardedAt(t, n, c)
    <2>1. \A g \in Chain(base)[fr] : ~Ran(base, g) /\ g \in 1..m
      <3>1. \A g \in Chain(base)[fr] : ~Ran(base, g)
        BY <1>2, NoneRan DEF Safe
      <3>2. \A g \in Chain(base)[fr] : g \in 1..m
        BY <1>2, GoodFacts DEF IsF
      <3> QED
        BY <3>1, <3>2
    <2>2. \A g \in Chain(t)[n] : g # n => ~Ran(t, g)
      BY <1>1, <1>5, <2>1
    <2> HIDE DEF n
    <2> QED
      BY <1>7, <2>2 DEF GuardedAt
  <1>9. ASSUME NEW f \in LiveIn(base, fr, b)
        PROVE  /\ f \in LiveIn(base, fr, b) /\ Chain(t)[f] = Chain(base)[f]
               /\ ArmedIn(t, f) => ArmedIn(base, f)
               /\ ArmedIn(t, f) /\ f + 1 \in Chain(base)[b] /\ base[f + 1].frame = f =>
                    f + 1 \in Chain(t)[c] /\ t[f + 1].frame = f
               /\ \A h \in Chain(base)[f] : h # f /\ Ran(t, h) => Ran(base, h)
    <2>1. f \in 1..m /\ f \in 0..m
      BY <1>3
    <2>2. \A h \in Chain(base)[f] : h \in 1..m
      <3>1. Older(base)
        BY <1>3 DEF Linked
      <3> QED
        BY <1>3, <2>1, <3>1, ChainShape
    <2>3. f + 1 \in Chain(base)[b] => f + 1 \in 1..m
      BY <1>2, GoodFacts DEF IsC
    <2> QED
      BY <1>1, <1>5, <2>1, <2>2, <2>3
  <1>10. Guarded(t, n, c)
    <2>1. Guarded(base, fr, b)
      BY DEF Safe
    <2>2. \A f \in LiveIn(t, n, c) : f = n \/ f \in LiveIn(base, fr, b)
      BY <1>1
    <2> HIDE DEF n
    <2> QED
      BY <1>8, <1>9, <2>1, <2>2, GuardKept
  <1>11. AllArmed(t, LiveIn(t, n, c)) = AllArmed(base, LiveIn(base, fr, b))
    <2>1. \A f \in LiveIn(base, fr, b) : ArmedIn(t, f) <=> ArmedIn(base, f)
      BY <1>3, <1>5
    <2> HIDE DEF n
    <2> QED
      BY <1>1, <1>7, <2>1 DEF AllArmed
  <1> HIDE DEF n
  <1> QED
    BY <1>1, <1>4, <1>6, <1>10, <1>11 DEF Safe, t, c

-----------------------------------------------------------------------------
(* The steps keep the handlers safe. *)

(* What runs in a frame that is not of setup_call_cleanup/3 *)
PlainOps == {"I_CALL", "I_DEPART", "I_USERCALL0", "I_EXITFACT", "I_CUT", "C_CUT", "C_LCUTIFTHEN",
             "C_LCUT", "C_LSCUT", "C_JMP", "C_SCUT", "C_END", "I_TRUE", "C_OR", "C_IFTHENELSE", "C_NOT",
             "C_SOFTIF", "C_IFTHEN", "C_SOFTIFTHEN", "C_SOFTCUT", "C_FAIL", "I_FAIL",
             "I_CATCH", "I_EXITCATCH", "B_THROW"}

LEMMA Handled ==
  ASSUME IInv, CInv, mode # "closed"
  PROVE  /\ Safe(stack, FR, BFR) /\ Handlers(stack) /\ Guarded(stack, FR, BFR)
         /\ Linked(stack) /\ marked \in Int /\ cleaned \in Int
         /\ marked - cleaned = Cardinality(AllArmed(stack, LiveIn(stack, FR, BFR)))
         /\ HandlerFrame(stack, FR)
  <1>1. Good(stack, FR, BFR) /\ IsF(stack, FR) /\ FR \in 1..Len(stack)
    BY Running DEF IsF
  <1>2. Safe(stack, FR, BFR) /\ Handlers(stack) /\ Guarded(stack, FR, BFR) /\ marked \in Int /\ cleaned \in Int
        /\ marked - cleaned = Cardinality(AllArmed(stack, LiveIn(stack, FR, BFR)))
    BY DEF CInv, Safe
  <1>3. Linked(stack) /\ HandlerFrame(stack, FR)
    BY <1>1, <1>2 DEF Good, Handlers
  <1> QED
    BY <1>2, <1>3

LEMMA NoHandler ==
  ASSUME NEW s, NEW f, HandlerFrame(s, f), ~IsCleanup(s, f)
  PROVE  ~Ran(s, f) /\ ~ArmedIn(s, f) /\ "FR_CLEANUP" \notin s[f].flags
  BY DEF HandlerFrame, Ran, ArmedIn

LEMMA Plain ==
  ASSUME IInv, CInv, NEW op \in PlainOps, Is(op)
  PROVE  mode = "run" /\ ~IsCleanup(stack, FR) /\ ~Ran(stack, FR) /\ ~ArmedIn(stack, FR)
  <1>1. mode = "run" /\ stack[FR].clause.codes[PC][1] \in PlainOps
    BY DEF Is
  <1>2. HandlerFrame(stack, FR)
    BY <1>1, Handled
  <1>3. IsCleanup(stack, FR) => PC \in 1..3 /\ CallsCleanup(stack[FR].clause)
    BY <1>1, <1>2 DEF CInv, HandlerFrame
  <1>4. CallsCleanup(stack[FR].clause) /\ PC \in 1..3 =>
          stack[FR].clause.codes[PC][1] \in {"I_CALLCLEANUP", "I_EXITCLEANUP", "I_EXIT"}
    <2>1. PC \in 1..3 => PC = 1 \/ PC = 2 \/ PC = 3
      OBVIOUS
    <2> QED
      BY <2>1 DEF CallsCleanup
  <1>5. ~IsCleanup(stack, FR)
    BY <1>1, <1>3, <1>4 DEF PlainOps
  <1> QED
    BY <1>1, <1>2, <1>5, NoHandler

(* What the handlers are after a step *)
LEMMA SafeOn ==
  ASSUME Safe(stack', FR', BFR'), mode' # "closed", marked' \in Int, cleaned' \in Int,
         marked' - cleaned' = Cardinality(AllArmed(stack', LiveIn(stack', FR', BFR'))),
         mode' = "run" /\ IsCleanup(stack', FR') =>
           PC' \in 1..3 /\ (PC' = 1 => stack'[FR'].flags = {} /\ Len(stack') = FR'),
         mode' = "unwind" /\ catcher' # 2 => stack'[catcher'].goal[1] = "catch"
  PROVE  CInv'
  BY DEF CInv, IsCleanup

(* The handlers of the frames fs that are left have run. *)
LEMMA LeavesRun ==
  ASSUME IInv, CInv, mode # "closed", NEW fs, NEW L, L \subseteq LiveIn(stack, FR, BFR),
         fs = LiveIn(stack, FR, BFR) \ L,
         marked' = marked, cleaned' = cleaned + Cardinality({f \in fs : Armed(f)}),
         NEW t, AllArmed(t, L) = AllArmed(stack, L)
  PROVE  marked' \in Int /\ cleaned' \in Int /\ marked' - cleaned' = Cardinality(AllArmed(t, L))
  <1> DEFINE A == AllArmed(stack, LiveIn(stack, FR, BFR))
             B == AllArmed(stack, L)
             D == {f \in fs : Armed(f)}
  <1>1. IsFiniteSet(A)
    <2>1. IsFiniteSet(LiveIn(stack, FR, BFR))
      BY Running
    <2>2. A \subseteq LiveIn(stack, FR, BFR)
      BY DEF AllArmed
    <2> QED
      BY <2>1, <2>2, FS_Subset
  <1>2. B \in SUBSET A
    BY DEF AllArmed
  <1>3. A \ B = D
    BY DEF AllArmed, ArmedIn, Armed
  <1>4. marked \in Int /\ cleaned \in Int /\ marked - cleaned = Cardinality(A)
    BY Handled
  <1>5. marked' = marked /\ cleaned' = cleaned + Cardinality(D) /\ AllArmed(t, L) = B
    OBVIOUS
  <1> HIDE DEF A, B, D
  <1>6. /\ Cardinality(B) \in Nat /\ Cardinality(A) \in Nat
        /\ Cardinality(A \ B) = Cardinality(A) - Cardinality(B)
    BY <1>1, <1>2, CardinalityLess
  <1> QED
    BY <1>3, <1>4, <1>5, <1>6

(* A goal is entered from a frame where no handler ran. *)
LEMMA EnteredSafe ==
  ASSUME NEW past, NEW base, NEW b, NEW goal, NEW fr, NEW ret,
         Whole(base, fr, b), fr # 2 \/ Len(base) = 2,
         Safe(base, fr, b), ~Ran(base, fr), IsCleanup(base, fr) => ret = 2,
         EnterGoal(past, base, b, goal, fr, ret),
         marked' \in Int, cleaned' \in Int,
         marked' - cleaned' = Cardinality(AllArmed(base, LiveIn(base, fr, b)))
  PROVE  CInv'
  <1>1. /\ Safe(stack', FR', BFR')
        /\ AllArmed(stack', LiveIn(stack', FR', BFR')) = AllArmed(base, LiveIn(base, fr, b))
        /\ mode' \in {"run", "fail"}
        /\ IsCleanup(stack', FR') => PC' = 1 /\ stack'[FR'].flags = {} /\ Len(stack') = FR'
    BY SafeEnter
  <1> QED
    BY <1>1, SafeOn

LEMMA I_CALL_Safe ==
  ASSUME IInv, CInv, I_CALL \/ I_USERCALL0
  PROVE  CInv'
  <1>1. mode = "run" /\ ~IsCleanup(stack, FR) /\ ~Ran(stack, FR)
    <2>1. PICK op \in {"I_CALL", "I_USERCALL0"} : Is(op)
      BY DEF I_CALL, I_USERCALL0
    <2>2. op \in PlainOps
      BY DEF PlainOps
    <2> QED
      BY <2>1, <2>2, Plain
  <1>2. PICK goal, ret : EnterGoal(log, stack, BFR, goal, FR, ret)
    BY DEF I_CALL, I_USERCALL0, UserCall
  <1>3. marked' = marked /\ cleaned' = cleaned
    BY DEF I_CALL, I_USERCALL0
  <1>4. Whole(stack, FR, BFR) /\ FR # 2
    BY <1>1, Running
  <1>5. /\ Safe(stack, FR, BFR) /\ marked \in Int /\ cleaned \in Int
        /\ marked - cleaned = Cardinality(AllArmed(stack, LiveIn(stack, FR, BFR)))
    BY <1>1, Handled
  <1> QED
    BY <1>1, <1>2, <1>3, <1>4, <1>5, EnteredSafe

(* The frame that runs is left, and no choice point is newer. *)
LEMMA SafeLeave ==
  ASSUME NEW s, NEW fr, NEW b, Whole(s, fr, b), Safe(s, fr, b), fr # 2, b <= fr
  PROVE  LET t == SubSeq(s, 1, fr - 1)
             p == s[fr].parent
         IN  /\ Safe(t, p, b)
             /\ AllArmed(t, LiveIn(t, p, b)) = AllArmed(s, LiveIn(s, fr, b))
             /\ ~Ran(t, p) /\ (IsCleanup(t, p) => s[fr].programPointer = 2)
  <1> DEFINE t == SubSeq(s, 1, fr - 1)
             p == s[fr].parent
             L == LiveIn(t, p, b)
  <1>1. /\ Whole(t, p, b) /\ L = LiveIn(s, fr, b) \ {fr} /\ fr \in LiveIn(s, fr, b)
        /\ Len(t) = fr - 1 /\ fr \in 3..Len(s) /\ Len(s) \in Nat /\ \A a \in 1..(fr - 1) : t[a] = s[a]
        /\ p \in 2..(fr - 1) /\ p \in Chain(s)[fr]
        /\ \A g \in 0..(fr - 1) : Chain(t)[g] = Chain(s)[g]
    BY WholeLeave
  <1>2. Good(s, fr, b) /\ Good(t, p, b)
    BY <1>1 DEF Whole
  <1>3. GuardedAt(s, fr, b) /\ HandlerFrame(s, fr) /\ b \in 1..Len(s)
    <2>1. Guarded(s, fr, b) /\ Handlers(s)
      BY DEF Safe
    <2>2. IsF(s, fr) /\ fr \in 1..Len(s)
      BY <1>2 DEF Good, IsF
    <2>3. GuardedAt(s, fr, b)
      BY <1>1, <2>1 DEF Guarded
    <2>4. HandlerFrame(s, fr)
      BY <2>1, <2>2 DEF Handlers
    <2>5. b \in 1..Len(s)
      BY <1>2, GoodFacts
    <2> QED
      BY <2>3, <2>4, <2>5
  <1>4. ~ArmedIn(s, fr)
    <2>1. \A c \in Chain(s)[b] : c <= b /\ c \in Nat
      BY <1>2, GoodFacts
    <2>2. fr + 1 \notin Chain(s)[b]
      BY <1>1, <1>3, <2>1
    <2> QED
      BY <1>3, <2>2 DEF GuardedAt
  <1> HIDE DEF t, p, L
  <1>5. /\ Safe(t, p, b) /\ AllArmed(t, L) = AllArmed(s, L)
        /\ \A f \in 1..(fr - 1) : /\ ArmedIn(t, f) <=> ArmedIn(s, f)
                                  /\ Ran(t, f) <=> Ran(s, f)
                                  /\ IsCleanup(t, f) <=> IsCleanup(s, f)
    <2> DEFINE m == fr - 1
    <2>1. m = Len(t) /\ m <= Len(s)
      BY <1>1
    <2>2. (\A a \in 1..m : t[a] = s[a]) /\ \A h \in 0..m : Chain(t)[h] = Chain(s)[h]
      BY <1>1
    <2>3. LiveIn(t, p, b) \subseteq LiveIn(s, fr, b)
      BY <1>1 DEF L
    <2>4. \A f \in LiveIn(t, p, b) :
            ArmedIn(s, f) /\ f + 1 \in Chain(s)[b] /\ s[f + 1].frame = f => f + 1 \in Chain(s)[b]
      OBVIOUS
    <2> HIDE DEF m
    <2>5. /\ Safe(t, p, b) /\ AllArmed(t, LiveIn(t, p, b)) = AllArmed(s, LiveIn(t, p, b))
          /\ \A f \in 1..m : /\ ArmedIn(t, f) <=> ArmedIn(s, f)
                             /\ Ran(t, f) <=> Ran(s, f)
                             /\ IsCleanup(t, f) <=> IsCleanup(s, f)
      BY <1>2, <2>1, <2>2, <2>3, <2>4, SafeShrink
    <2> QED
      BY <2>5 DEF L, m
  <1>6. AllArmed(s, L) = AllArmed(s, LiveIn(s, fr, b))
    BY <1>1, <1>4 DEF AllArmed
  <1>7. p \in 1..(fr - 1) /\ p # fr /\ p # 0
    BY <1>1
  <1>8. ~Ran(s, p)
    BY <1>1, <1>3, <1>7 DEF GuardedAt
  <1>9. IsCleanup(s, p) => s[fr].programPointer = 2
    BY <1>3, <1>7 DEF HandlerFrame, p
  <1> QED
    BY <1>5, <1>6, <1>7, <1>8, <1>9 DEF L, t, p

LEMMA I_DEPART_Safe ==
  ASSUME IInv, CInv, I_DEPART
  PROVE  CInv'
  <1>1. mode = "run" /\ ~IsCleanup(stack, FR) /\ ~Ran(stack, FR)
    <2>1. Is("I_DEPART") /\ "I_DEPART" \in PlainOps
      BY DEF I_DEPART, PlainOps
    <2> QED
      BY <2>1, Plain
  <1>2. Whole(stack, FR, BFR) /\ FR # 2
    BY <1>1, Running
  <1>3. /\ Safe(stack, FR, BFR) /\ marked \in Int /\ cleaned \in Int
        /\ marked - cleaned = Cardinality(AllArmed(stack, LiveIn(stack, FR, BFR)))
    BY <1>1, Handled
  <1>4. marked' = marked /\ cleaned' = cleaned
    BY DEF I_DEPART, counts
  <1>5. CASE LastCall
    <2> DEFINE t == SubSeq(stack, 1, FR - 1)
               p == stack[FR].parent
    <2>1. EnterGoal(log, t, BFR, Arg(1), p, stack[FR].programPointer)
      BY <1>5 DEF I_DEPART, UpTo
    <2>2. BFR <= FR
      BY <1>5 DEF LastCall
    <2>3. Whole(t, p, BFR) /\ Len(t) = FR - 1 /\ (p = 2 <=> FR = 3)
      BY <1>2, <2>2, WholeLeave
    <2>4. p # 2 \/ Len(t) = 2
      BY <2>3
    <2>5. /\ Safe(t, p, BFR)
          /\ AllArmed(t, LiveIn(t, p, BFR)) = AllArmed(stack, LiveIn(stack, FR, BFR))
          /\ ~Ran(t, p) /\ (IsCleanup(t, p) => stack[FR].programPointer = 2)
      BY <1>2, <1>3, <2>2, SafeLeave
    <2> HIDE DEF t, p
    <2> QED
      BY <1>3, <1>4, <2>1, <2>3, <2>4, <2>5, EnteredSafe
  <1>6. CASE ~LastCall
    <2>1. EnterGoal(log, stack, BFR, Arg(1), FR, PC + 1)
      BY <1>6 DEF I_DEPART
    <2> QED
      BY <1>1, <1>2, <1>3, <1>4, <2>1, EnteredSafe
  <1> QED
    BY <1>5, <1>6

LEMMA ExitedSafe ==
  ASSUME IInv, CInv, mode = "run", NEW b, ExitFrame(b), Whole(stack, FR, b), Safe(stack, FR, b),
         AllArmed(stack, LiveIn(stack, FR, b)) = AllArmed(stack, LiveIn(stack, FR, BFR))
  PROVE  CInv'
  <1> DEFINE p == stack[FR].parent
  <1>1. FR # 2 /\ HandlerFrame(stack, FR)
    BY Running, Handled
  <1>2. /\ marked \in Int /\ cleaned \in Int
        /\ marked - cleaned = Cardinality(AllArmed(stack, LiveIn(stack, FR, BFR)))
    BY Handled
  <1>3. FR' = p /\ BFR' = b /\ mode' \in {"exit", "run"} /\ marked' = marked /\ cleaned' = cleaned
        /\ PC' = stack[FR].programPointer
    BY DEF ExitFrame
  <1>4. /\ Safe(stack', FR', BFR')
        /\ AllArmed(stack', LiveIn(stack', FR', BFR')) = AllArmed(stack, LiveIn(stack, FR, b))
        /\ IsCleanup(stack', FR') => stack[FR].programPointer = 2
    <2>1. CASE b <= FR
      <3> DEFINE t == SubSeq(stack, 1, FR - 1)
      <3>1. stack' = t
        BY <2>1 DEF ExitFrame, UpTo
      <3>2. /\ Safe(t, p, b)
            /\ AllArmed(t, LiveIn(t, p, b)) = AllArmed(stack, LiveIn(stack, FR, b))
            /\ (IsCleanup(t, p) => stack[FR].programPointer = 2)
        BY <1>1, <2>1, SafeLeave
      <3> HIDE DEF t, p
      <3> QED
        BY <1>3, <3>1, <3>2
    <2>2. CASE ~(b <= FR)
      <3>1. stack' = stack
        BY <2>2 DEF ExitFrame
      <3>2. LiveIn(stack, p, b) = LiveIn(stack, FR, b) /\ p # 0
        BY <1>1, <2>2, WholeLeaveBehind
      <3>3. Safe(stack, p, b)
        BY <3>2 DEF Safe, Guarded
      <3>4. IsCleanup(stack, p) => stack[FR].programPointer = 2
        BY <1>1, <3>2 DEF HandlerFrame
      <3> HIDE DEF p
      <3> QED
        BY <1>3, <3>1, <3>2, <3>3, <3>4
    <2> QED
      BY <2>1, <2>2
  <1> QED
    BY <1>2, <1>3, <1>4, SafeOn

(* A choice point of a frame whose handler is not armed is not needed. *)
LEMMA SafePop ==
  ASSUME NEW s, NEW fr, NEW b, Good(s, fr, b), Safe(s, fr, b), s[b].frame = fr, b # 1, ~ArmedIn(s, fr)
  PROVE  /\ Good(s, fr, s[b].parent) /\ Safe(s, fr, s[b].parent)
         /\ LiveIn(s, fr, s[b].parent) = LiveIn(s, fr, b)
  <1> DEFINE p == s[b].parent
  <1>1. Good(s, fr, p) /\ LiveIn(s, fr, p) = LiveIn(s, fr, b) /\ Chain(s)[b] = {b} \cup Chain(s)[p]
    BY OwnChoice
  <1> HIDE DEF p
  <1>2. ASSUME NEW f \in LiveIn(s, fr, b), GuardedAt(s, f, b) PROVE GuardedAt(s, f, p)
    <2>1. ArmedIn(s, f) => f + 1 \in Chain(s)[b] /\ s[f + 1].frame = f
      BY <1>2 DEF GuardedAt
    <2>2. f + 1 = b => f = fr \/ s[f + 1].frame # f
      OBVIOUS
    <2>3. ArmedIn(s, f) => f + 1 \in Chain(s)[p] /\ s[f + 1].frame = f
      BY <1>1, <2>1, <2>2
    <2> QED
      BY <1>2, <2>3 DEF GuardedAt
  <1> QED
    BY <1>1, <1>2 DEF Safe, Guarded, p

LEMMA I_EXIT_Safe ==
  ASSUME IInv, CInv, I_EXIT
  PROVE  CInv'
  <1>1. mode = "run" /\ ExitFrame(BFR)
    BY DEF I_EXIT, Is
  <1>2. Whole(stack, FR, BFR) /\ Safe(stack, FR, BFR)
    BY <1>1, Running, Handled
  <1> QED
    BY <1>1, <1>2, ExitedSafe

LEMMA I_EXITCATCH_Safe ==
  ASSUME IInv, CInv, I_EXITCATCH
  PROVE  CInv'
  <1> DEFINE b == IF BFR = FR + 1 /\ stack[BFR].frame = FR THEN stack[BFR].parent ELSE BFR
  <1>1. mode = "run" /\ ExitFrame(b)
    BY DEF I_EXITCATCH, Is
  <1>2. Whole(stack, FR, BFR) /\ Good(stack, FR, BFR) /\ FR \in 2..Len(stack) /\ Safe(stack, FR, BFR)
    BY <1>1, Running, Handled
  <1>3. ~ArmedIn(stack, FR)
    <2>1. Is("I_EXITCATCH") /\ "I_EXITCATCH" \in PlainOps
      BY DEF I_EXITCATCH, PlainOps
    <2> QED
      BY <2>1, Plain
  <1>4. Whole(stack, FR, b) /\ Safe(stack, FR, b) /\ LiveIn(stack, FR, b) = LiveIn(stack, FR, BFR)
    <2>1. CASE BFR = FR + 1 /\ stack[BFR].frame = FR
      <3>1. BFR # 1
        BY <1>2, <2>1
      <3>2. /\ Good(stack, FR, stack[BFR].parent) /\ Safe(stack, FR, stack[BFR].parent)
            /\ LiveIn(stack, FR, stack[BFR].parent) = LiveIn(stack, FR, BFR)
        BY <1>2, <1>3, <2>1, <3>1, SafePop
      <3>3. Chain(stack)[BFR] = {BFR} \cup Chain(stack)[stack[BFR].parent]
        BY <1>2, <2>1, <3>1, OwnChoice
      <3>4. Whole(stack, FR, stack[BFR].parent)
        BY <1>2, <3>2, <3>3, WholeOther
      <3> QED
        BY <2>1, <3>2, <3>4
    <2>2. CASE ~(BFR = FR + 1 /\ stack[BFR].frame = FR)
      BY <1>2, <2>2
    <2> QED
      BY <2>1, <2>2
  <1> HIDE DEF b
  <1> QED
    BY <1>1, <1>4, ExitedSafe

(* The stack, the frame and the newest choice point stay what they are. *)
LEMMA SafeStays ==
  ASSUME IInv, CInv, mode # "closed", mode' # "closed", stack' = stack, FR' = FR, BFR' = BFR,
         marked' = marked, cleaned' = cleaned,
         mode' = "run" => ~IsCleanup(stack, FR), mode' # "unwind"
  PROVE  CInv'
  <1>1. /\ Safe(stack, FR, BFR) /\ marked \in Int /\ cleaned \in Int
        /\ marked - cleaned = Cardinality(AllArmed(stack, LiveIn(stack, FR, BFR)))
    BY Handled
  <1> QED
    BY <1>1, SafeOn

LEMMA I_EXITQUERY_Safe ==
  ASSUME IInv, CInv, I_EXITQUERY \/ Uncaught
  PROVE  CInv'
  <1>1. /\ mode \in {"exit", "unwind"} /\ mode' \in {"last", "solution", "done"}
        /\ stack' = stack /\ FR' = FR /\ BFR' = BFR /\ marked' = marked /\ cleaned' = cleaned
    BY DEF I_EXITQUERY, Uncaught, regs, counts
  <1> QED
    BY <1>1, SafeStays

LEMMA Nothing_Safe ==
  ASSUME IInv, CInv, C_JMP \/ Nothing \/ C_FAIL
  PROVE  CInv'
  <1>1. /\ mode = "run" /\ mode' \in {"run", "fail"}
        /\ stack' = stack /\ FR' = FR /\ BFR' = BFR /\ marked' = marked /\ cleaned' = cleaned
    BY DEF C_JMP, Nothing, C_FAIL, Is, Continue, regs, counts
  <1>2. ~IsCleanup(stack, FR)
    <2>1. PICK op \in {"C_JMP", "C_SCUT", "C_END", "I_TRUE", "C_FAIL", "I_FAIL"} : Is(op)
      BY DEF C_JMP, Nothing, C_FAIL
    <2>2. op \in PlainOps
      BY DEF PlainOps
    <2> QED
      BY <2>1, <2>2, Plain
  <1> QED
    BY <1>1, <1>2, SafeStays

(* The choice points after e go; no handler is armed whose choice point goes. *)
LEMMA SafeFewer ==
  ASSUME NEW s, NEW fr, NEW b, Whole(s, fr, b), Safe(s, fr, b), ~ArmedIn(s, fr),
         NEW e \in Chain(s)[b], \A c \in Chain(s)[b] : c > e => c > fr,
         LiveIn(s, fr, e) \subseteq LiveIn(s, fr, b)
  PROVE  \A f \in LiveIn(s, fr, e) :
           ArmedIn(s, f) /\ f + 1 \in Chain(s)[b] /\ s[f + 1].frame = f => f + 1 \in Chain(s)[e]
  <1>1. Good(s, fr, b) /\ Good(s, fr, e) /\ Chain(s)[e] = {d \in Chain(s)[b] : d <= e} /\ Older(s)
    <2>1. Good(s, fr, b)
      BY DEF Whole
    <2> QED
      BY <2>1, FewerChoices, GoodFacts
  <1> SUFFICES ASSUME NEW f \in LiveIn(s, fr, e), ArmedIn(s, f), f + 1 \in Chain(s)[b], f + 1 > e
               PROVE  FALSE
    <2>1. \A c \in Chain(s)[b] : c \in Nat /\ e \in Nat
      BY <1>1, GoodFacts
    <2> QED
      BY <1>1, <2>1
  <1>2. f \in Nat /\ e \in Nat /\ fr \in Nat
    <2>1. f \in 3..Len(s)
      BY <1>1, GoodFacts
    <2>2. e \in 1..b /\ fr \in 2..Len(s)
      BY <1>1, GoodFacts
    <2> QED
      BY <2>1, <2>2
  <1>3. f >= fr
    <2>1. f + 1 > fr
      OBVIOUS
    <2> QED
      BY <1>2, <2>1
  <1>4. CASE f \in Chain(s)[fr]
    <2>1. f <= fr
      <3>1. fr \in 0..Len(s)
        BY <1>1, GoodFacts
      <3>2. Chain(s)[fr] \subseteq 1..fr
        BY <1>1, <3>1, ChainShape
      <3> QED
        BY <1>2, <1>4, <3>2
    <2>2. f = fr
      BY <1>2, <1>3, <2>1
    <2> QED
      BY <2>2
  <1>5. CASE f \notin Chain(s)[fr]
    <2>1. PICK d \in Chain(s)[e] : f \in FramesOf(s, d)
      BY <1>5 DEF LiveIn
    <2>2. d \in Chain(s)[b] /\ d <= e /\ d \in Nat /\ f <= s[d].frame /\ s[d].frame \in Nat
          /\ (d # 1 => s[d].frame < d) /\ (d = 1 => f = 2)
      <3>1. d \in Chain(s)[b] /\ d <= e
        BY <1>1
      <3>2. d \in 1..b /\ s[d].frame \in 2..Len(s) /\ (d # 1 => s[d].frame < d) /\ f <= s[d].frame
            /\ FramesOf(s, 1) = {2}
        BY <1>1, <2>1, <3>1, GoodFacts
      <3> QED
        BY <2>1, <3>1, <3>2
    <2>3. f # 2
      BY DEF LiveIn
    <2>4. f < d /\ d <= e /\ f + 1 > e
      BY <1>2, <2>2, <2>3
    <2>5. f + 1 <= d
      BY <1>2, <2>2, <2>4
    <2> QED
      BY <1>2, <2>2, <2>4, <2>5
  <1> QED
    BY <1>4, <1>5

(* ... and so do the cells above them. *)
LEMMA SafeCut ==
  ASSUME NEW s, NEW fr, NEW b, Whole(s, fr, b), Safe(s, fr, b), ~ArmedIn(s, fr),
         NEW e \in Chain(s)[b], \A c \in Chain(s)[b] : c > e => c > fr,
         LiveIn(s, fr, e) \subseteq LiveIn(s, fr, b),
         NEW t, NEW m, m = Len(t), m <= Len(s), \A a \in 1..m : t[a] = s[a],
         \A h \in 0..m : Chain(t)[h] = Chain(s)[h], Good(t, fr, e), LiveIn(t, fr, e) = LiveIn(s, fr, e)
  PROVE  /\ Safe(t, fr, e) /\ AllArmed(t, LiveIn(t, fr, e)) = AllArmed(s, LiveIn(t, fr, e))
         /\ \A f \in 1..m : /\ ArmedIn(t, f) <=> ArmedIn(s, f)
                            /\ Ran(t, f) <=> Ran(s, f)
                            /\ IsCleanup(t, f) <=> IsCleanup(s, f)
  <1>1. Good(s, fr, b)
    BY DEF Whole
  <1>2. \A f \in LiveIn(t, fr, e) :
           ArmedIn(s, f) /\ f + 1 \in Chain(s)[b] /\ s[f + 1].frame = f => f + 1 \in Chain(s)[e]
    BY SafeFewer
  <1>3. LiveIn(t, fr, e) \subseteq LiveIn(s, fr, b)
    OBVIOUS
  <1> QED
    BY <1>1, <1>2, <1>3, SafeShrink

(* The choice points after e, the frames that go with them and the cells     *)
(* above t are gone.                                                          *)
LEMMA CutSafe ==
  ASSUME IInv, CInv, mode = "run", ~IsCleanup(stack, FR), ~ArmedIn(stack, FR),
         NEW e \in Chain(stack)[BFR], \A c \in Chain(stack)[BFR] : c > e => c > FR,
         LiveIn(stack, FR, e) \subseteq LiveIn(stack, FR, BFR),
         NEW t, NEW m, m = Len(t), m <= Len(stack), FR \in 1..m, \A a \in 1..m : t[a] = stack[a],
         \A h \in 0..m : Chain(t)[h] = Chain(stack)[h], Good(t, FR, e), LiveIn(t, FR, e) = LiveIn(stack, FR, e),
         NEW fs, fs = LiveIn(stack, FR, BFR) \ LiveIn(stack, FR, e), LeaveFrames(fs),
         stack' = t, FR' = FR, BFR' = e, mode' = "run"
  PROVE  CInv'
  <1> DEFINE L == LiveIn(stack, FR, e)
  <1>1. Whole(stack, FR, BFR) /\ Safe(stack, FR, BFR)
    BY Running, Handled
  <1>2. /\ Safe(t, FR, e) /\ AllArmed(t, LiveIn(t, FR, e)) = AllArmed(stack, LiveIn(t, FR, e))
        /\ IsCleanup(t, FR) <=> IsCleanup(stack, FR)
    BY <1>1, SafeCut
  <1>3. marked' = marked /\ cleaned' = cleaned + Cardinality({f \in fs : Armed(f)})
    BY DEF LeaveFrames
  <1>4. AllArmed(t, L) = AllArmed(stack, L) /\ L = LiveIn(t, FR, e)
    BY <1>2
  <1>5. L \subseteq LiveIn(stack, FR, BFR) /\ fs = LiveIn(stack, FR, BFR) \ L
    OBVIOUS
  <1> HIDE DEF L
  <1>6. marked' \in Int /\ cleaned' \in Int /\ marked' - cleaned' = Cardinality(AllArmed(t, L))
    BY <1>3, <1>4, <1>5, LeavesRun
  <1> QED
    BY <1>2, <1>4, <1>6, SafeOn

LEMMA I_CUT_Safe ==
  ASSUME IInv, CInv, I_CUT
  PROVE  CInv'
  <1> DEFINE e == Oldest(FR)  t == SubSeq(stack, 1, FR)  fs == DiscardedAfter(FR, FR)
  <1>1. mode = "run" /\ LeaveFrames(fs)
    BY DEF I_CUT, Is
  <1>2. FR \in 2..Len(stack) /\ Len(stack) \in Nat /\ FR # 2 /\ BFR \in 1..Len(stack) /\ Good(stack, FR, BFR)
    BY <1>1, Running
  <1>3. /\ Whole(stack, FR, e) /\ e <= FR /\ e \in 1..BFR
        /\ LiveIn(stack, FR, e) \subseteq LiveIn(stack, FR, BFR)
        /\ fs = LiveIn(stack, FR, BFR) \ LiveIn(stack, FR, e)
        /\ (BFR <= FR => e = BFR)
    BY <1>1, CutToFrame
  <1>4. FR' = FR /\ mode' = "run" /\ stack' = t /\ BFR' = e
    <2>1. (FR + 1) - 1 = FR
      BY <1>2
    <2>2. stack' = UpTo(FR + 1) /\ BFR' = IF BFR > FR THEN e ELSE BFR
      BY DEF I_CUT, Continue
    <2>3. BFR' = e
      BY <1>2, <1>3, <2>2
    <2> QED
      BY <1>1, <2>1, <2>2, <2>3 DEF I_CUT, Continue, UpTo
  <1>5. e \in Chain(stack)[BFR] /\ \A c \in Chain(stack)[BFR] : c > e => c > FR
    <2>1. FR \in Nat /\ FR >= 1
      BY <1>2
    <2>2. e \in Chain(stack)[BFR] /\ \A c \in Chain(stack)[BFR] : c <= FR => c <= e
      BY <1>2, <2>1, OldestIs
    <2> HIDE DEF e
    <2>3. \A c \in Chain(stack)[BFR] : c \in Nat
      BY <1>2, GoodFacts
    <2> QED
      BY <1>2, <1>3, <2>2, <2>3
  <1>6. ~IsCleanup(stack, FR) /\ ~ArmedIn(stack, FR)
    <2>1. Is("I_CUT") /\ "I_CUT" \in PlainOps
      BY DEF I_CUT, PlainOps
    <2> QED
      BY <2>1, Plain
  <1> HIDE DEF e, fs
  <1>7. /\ Whole(t, FR, e) /\ LiveIn(t, FR, e) = LiveIn(stack, FR, e) /\ Len(t) = FR
        /\ \A a \in 1..FR : t[a] = stack[a]
        /\ \A g \in 0..FR : Chain(t)[g] = Chain(stack)[g]
    BY <1>2, <1>3, WholeUpTo
  <1> HIDE DEF t
  <1>8. Good(t, FR, e) /\ FR \in 1..FR /\ FR <= Len(stack)
    BY <1>2, <1>7 DEF Whole
  <1> QED
    BY <1>1, <1>3, <1>4, <1>5, <1>6, <1>7, <1>8, CutSafe

LEMMA CutToSafe ==
  ASSUME IInv, CInv, mode = "run", ~IsCleanup(stack, FR), ~ArmedIn(stack, FR),
         NEW och \in Nat, och # 0, CutTo(och),
         \A c \in Chain(stack)[BFR] : c > och => c > FR
  PROVE  CInv'
  <1>1. CASE mode' = "assertion" /\ UNCHANGED <<keep, stack, regs, log, counts>>
    <2>1. stack' = stack /\ FR' = FR /\ BFR' = BFR /\ marked' = marked /\ cleaned' = cleaned
      BY <1>1 DEF counts, regs
    <2> QED
      BY <1>1, <2>1, SafeStays
  <1>2. CASE /\ Oldest(och) = och
             /\ LeaveFrames(DiscardedAfter(och, CutFrame(och)))
             /\ Continue(UpTo(IF och > CutFrame(och) THEN och + 1 ELSE CutFrame(och) + 1), och)
    <2> DEFINE F == CutFrame(och)
               n == IF och > F THEN och ELSE F
               t == SubSeq(stack, 1, n)
               fs == DiscardedAfter(och, F)
    <2>1. Oldest(och) = och
      BY <1>2
    <2>2. /\ UpTo(IF och > F THEN och + 1 ELSE F + 1) = t
          /\ Whole(t, FR, och) /\ LiveIn(t, FR, och) = LiveIn(stack, FR, och)
          /\ LiveIn(stack, FR, och) \subseteq LiveIn(stack, FR, BFR)
          /\ fs = LiveIn(stack, FR, BFR) \ LiveIn(stack, FR, och)
          /\ n \in FR..Len(stack) /\ \A a \in 1..n : t[a] = stack[a]
          /\ och \in Chain(stack)[BFR]
          /\ \A g \in 0..n : Chain(t)[g] = Chain(stack)[g]
          /\ Len(t) = n
      BY <2>1, CutToEffect
    <2>3. FR' = FR /\ mode' = "run" /\ BFR' = och /\ stack' = t /\ LeaveFrames(fs)
      BY <1>2, <2>2 DEF Continue
    <2>4. FR \in 2..Len(stack) /\ Len(stack) \in Nat
      BY Running
    <2> HIDE DEF F, t, n, fs
    <2>5. FR \in 1..n /\ n <= Len(stack) /\ Good(t, FR, och)
      BY <2>2, <2>4 DEF Whole
    <2> QED
      BY <2>2, <2>3, <2>5, CutSafe
  <1> QED
    BY <1>1, <1>2, CutToSteps

LEMMA C_CUT_Safe ==
  ASSUME IInv, CInv, ChoicesKnown, C_CUT
  PROVE  CInv'
  <1>1. mode = "run" /\ CutTo(ChoiceVar)
    BY DEF C_CUT, Is
  <1>2. Arg(1) \in DOMAIN stack[FR].variables /\ ChoiceVar # 0
    BY DEF C_CUT, ChoicesKnown
  <1>3. /\ ChoiceVar \in Nat
        /\ \A c \in Chain(stack)[BFR] : c > ChoiceVar => c > FR
    BY <1>1, <1>2, VarFacts
  <1>4. ~IsCleanup(stack, FR) /\ ~ArmedIn(stack, FR)
    <2>1. PICK op \in {"C_CUT", "C_LCUTIFTHEN"} : Is(op)
      BY DEF C_CUT
    <2>2. op \in PlainOps
      BY DEF PlainOps
    <2> QED
      BY <2>1, <2>2, Plain
  <1> QED
    BY <1>1, <1>2, <1>3, <1>4, CutToSafe

LEMMA CutAfterSafe ==
  ASSUME IInv, CInv, mode = "run", ~IsCleanup(stack, FR), ~ArmedIn(stack, FR), NEW och \in Nat, CutAfter(och),
         \A c \in Chain(stack)[BFR] : c > och => c > FR
  PROVE  CInv'
  <1> DEFINE next == {ch \in ChoiceChain(BFR) : stack[ch].parent = och}
  <1>1. Whole(stack, FR, BFR) /\ Good(stack, FR, BFR)
    BY Running
  <1>2. CASE next # {}
    <2> DEFINE n == CHOOSE ch \in next : TRUE
    <2>1. n \in next
      BY <1>2
    <2>2. CutTo(n)
      BY <1>2 DEF CutAfter
    <2>3. n \in Chain(stack)[BFR] /\ stack[n].parent = och
      BY <2>1 DEF ChoiceChain
    <2> HIDE DEF n
    <2>4. n \in Nat /\ n # 0
      BY <1>1, <2>3, GoodFacts
    <2>5. n > och
      <3>1. Older(stack) /\ n \in 1..Len(stack)
        BY <1>1, <2>3, GoodFacts DEF IsC
      <3> QED
        BY <2>3, <3>1 DEF Older
    <2>6. \A c \in Chain(stack)[BFR] : c > n => c > FR
      <3> SUFFICES ASSUME NEW c \in Chain(stack)[BFR], c > n PROVE c > FR
        OBVIOUS
      <3>1. c \in Nat
        BY <1>1, GoodFacts
      <3>2. c > och
        BY <2>4, <2>5, <3>1
      <3> QED
        BY <3>2
    <2> QED
      BY <2>2, <2>4, <2>6, CutToSafe
  <1>3. CASE next = {}
    <2>1. /\ IF BFR = och THEN Continue(stack, BFR)
             ELSE mode' = "assertion" /\ UNCHANGED <<keep, stack, regs, log>>
          /\ marked' = marked /\ cleaned' = cleaned
      BY <1>3 DEF CutAfter, counts
    <2>2. stack' = stack /\ FR' = FR /\ BFR' = BFR /\ mode' \in {"run", "assertion"}
      BY <2>1 DEF Continue, regs
    <2> QED
      BY <2>1, <2>2, SafeStays
  <1> QED
    BY <1>2, <1>3

LEMMA C_LCUT_Safe ==
  ASSUME IInv, CInv, ChoicesKnown, C_LCUT
  PROVE  CInv'
  <1>1. mode = "run" /\ CutAfter(ChoiceVar)
    BY DEF C_LCUT, Is
  <1>2. Arg(1) \in DOMAIN stack[FR].variables /\ ChoiceVar # 0
    BY DEF C_LCUT, ChoicesKnown
  <1>3. /\ ChoiceVar \in Nat
        /\ \A c \in Chain(stack)[BFR] : c > ChoiceVar => c > FR
    BY <1>1, <1>2, VarFacts
  <1>4. ~IsCleanup(stack, FR) /\ ~ArmedIn(stack, FR)
    <2>1. Is("C_LCUT") /\ "C_LCUT" \in PlainOps
      BY DEF C_LCUT, PlainOps
    <2> QED
      BY <2>1, Plain
  <1> QED
    BY <1>1, <1>3, <1>4, CutAfterSafe

LEMMA C_LSCUT_Safe ==
  ASSUME IInv, CInv, ChoicesKnown, C_LSCUT
  PROVE  CInv'
  <1> DEFINE och == stack[ChoiceVar].parent
  <1>1. /\ mode = "run" /\ CutAfter(och) /\ och \in Nat
        /\ \A c \in Chain(stack)[BFR] : c > och => c > FR
    BY SoftFacts
  <1>2. ~IsCleanup(stack, FR) /\ ~ArmedIn(stack, FR)
    <2>1. Is("C_LSCUT") /\ "C_LSCUT" \in PlainOps
      BY DEF C_LSCUT, PlainOps
    <2> QED
      BY <2>1, Plain
  <1> HIDE DEF och
  <1> QED
    BY <1>1, <1>2, CutAfterSafe

(* The variables and the choice points of the frame that runs change. *)
LEMMA SetSafe ==
  ASSUME IInv, CInv, mode = "run", NEW v, NEW x \in Nat, x >= BFR, NEW u, u = SetVar(v, x)
  PROVE  /\ Whole(u, FR, BFR) /\ Safe(u, FR, BFR) /\ Len(u) = Len(stack) /\ Len(stack) \in Nat
         /\ LiveIn(u, FR, BFR) = LiveIn(stack, FR, BFR)
         /\ AllArmed(u, LiveIn(u, FR, BFR)) = AllArmed(stack, LiveIn(stack, FR, BFR))
         /\ IsCleanup(u, FR) <=> IsCleanup(stack, FR)
  <1>1. Whole(stack, FR, BFR) /\ Good(stack, FR, BFR) /\ IsF(stack, FR) /\ Safe(stack, FR, BFR)
        /\ FR \in 1..Len(stack) /\ Len(stack) \in Nat
    BY Running, Handled DEF IsF
  <1>2. u = VarSetIn(stack, FR, v, x)
    BY DEF SetVar, VarSetIn
  <1>3. /\ Whole(u, FR, BFR) /\ LiveIn(u, FR, BFR) = LiveIn(stack, FR, BFR) /\ Len(u) = Len(stack)
        /\ \A g \in 0..Len(stack) : Chain(u)[g] = Chain(stack)[g]
        /\ \A a \in 1..Len(stack) : a # FR => u[a] = stack[a]
        /\ u[FR].flags = stack[FR].flags /\ u[FR].goal = stack[FR].goal
        /\ u[FR].programPointer = stack[FR].programPointer /\ u[FR].clause = stack[FR].clause
        /\ u[FR].parent = stack[FR].parent /\ u[FR].kind = stack[FR].kind
    BY <1>1, <1>2, WholeSetVar
  <1>4. AlikeFrame(stack, u, FR) /\ (ArmedIn(u, FR) <=> ArmedIn(stack, FR)) /\ (Ran(u, FR) => Ran(stack, FR))
        /\ (IsCleanup(u, FR) <=> IsCleanup(stack, FR))
    BY <1>3 DEF AlikeFrame, ArmedIn, Ran, IsCleanup
  <1>5. Good(u, FR, BFR)
    BY <1>3 DEF Whole
  <1>6. Safe(u, FR, BFR) /\ AllArmed(u, LiveIn(u, FR, BFR)) = AllArmed(stack, LiveIn(stack, FR, BFR))
    BY <1>1, <1>3, <1>4, <1>5, SafeChange
  <1> QED
    BY <1>1, <1>3, <1>4, <1>6

(* newChoice() in a frame that is not of setup_call_cleanup/3 *)
LEMMA NewChoiceSafe ==
  ASSUME NEW s, Whole(s, FR, BFR), Safe(s, FR, BFR), FR # 2, ~IsCleanup(s, FR),
         NEW next, NEW type, type \in {"CHP_JUMP", "CHP_CATCH"}, NEW n, n = Len(s) + 1
  PROVE  LET t == Append(s, Choice(type, FR, BFR, next)) IN
         /\ Whole(t, FR, n) /\ Safe(t, FR, n) /\ LiveIn(t, FR, n) = LiveIn(s, FR, BFR)
         /\ AllArmed(t, LiveIn(t, FR, n)) = AllArmed(s, LiveIn(s, FR, BFR))
         /\ ~IsCleanup(t, FR) /\ Len(t) = n
  <1> DEFINE r == Choice(type, FR, BFR, next)
             t == Append(s, r)
  <1>1. /\ Whole(t, FR, n) /\ LiveIn(t, FR, n) = LiveIn(s, FR, BFR)
        /\ Len(t) = n /\ Len(s) \in Nat /\ \A a \in 1..Len(s) : t[a] = s[a]
        /\ t[n] = r
        /\ Chain(t)[n] = {n} \cup Chain(s)[BFR]
        /\ \A g \in 0..Len(s) : Chain(t)[g] = Chain(s)[g]
    BY NewChoice
  <1>2. r.kind # "frame" /\ r.frame = FR
    BY DEF Choice
  <1> HIDE DEF r, t
  <1>3. Good(s, FR, BFR) /\ Chain(s)[BFR] \subseteq Chain(t)[n]
    BY <1>1 DEF Whole
  <1>4. t[n].kind # "frame" /\ t[n].frame = FR /\ n = Len(t)
    BY <1>1, <1>2
  <1>5. Safe(t, FR, n) /\ AllArmed(t, LiveIn(t, FR, n)) = AllArmed(s, LiveIn(s, FR, BFR))
         /\ (IsCleanup(t, FR) <=> IsCleanup(s, FR))
    BY <1>1, <1>3, <1>4, SafeChoice
  <1> QED
    BY <1>1, <1>5 DEF r, t

(* The machine goes on in a frame that is not of setup_call_cleanup/3. *)
LEMMA ContinuedSafe ==
  ASSUME IInv, CInv, mode = "run", NEW s, NEW b, Continue(s, b), marked' = marked, cleaned' = cleaned,
         Safe(s, FR, b), AllArmed(s, LiveIn(s, FR, b)) = AllArmed(stack, LiveIn(stack, FR, BFR)),
         ~IsCleanup(s, FR)
  PROVE  CInv'
  <1>1. mode' = "run" /\ FR' = FR /\ stack' = s /\ BFR' = b
    BY DEF Continue
  <1>2. /\ marked \in Int /\ cleaned \in Int
        /\ marked - cleaned = Cardinality(AllArmed(stack, LiveIn(stack, FR, BFR)))
    BY Handled
  <1> QED
    BY <1>1, <1>2, SafeOn

LEMMA OrSafe ==
  ASSUME IInv, CInv, mode = "run", NEW s, NEW skip, Or(s, skip), Len(s) = Len(stack),
         Whole(s, FR, BFR), Safe(s, FR, BFR), ~IsCleanup(s, FR),
         AllArmed(s, LiveIn(s, FR, BFR)) = AllArmed(stack, LiveIn(stack, FR, BFR))
  PROVE  CInv'
  <1> DEFINE n == Len(s) + 1
             t == Append(s, Choice("CHP_JUMP", FR, BFR, PC + 1 + skip))
  <1>1. FR # 2 /\ "CHP_JUMP" \in {"CHP_JUMP", "CHP_CATCH"}
    BY Running
  <1>2. Continue(t, n) /\ marked' = marked /\ cleaned' = cleaned
    BY DEF Or, counts
  <1>3. Safe(t, FR, n) /\ ~IsCleanup(t, FR)
        /\ AllArmed(t, LiveIn(t, FR, n)) = AllArmed(s, LiveIn(s, FR, BFR))
    BY <1>1, NewChoiceSafe
  <1> HIDE DEF t, n
  <1> QED
    BY <1>2, <1>3, ContinuedSafe

LEMMA C_OR_Safe ==
  ASSUME IInv, CInv, C_OR
  PROVE  CInv'
  <1>1. mode = "run" /\ Or(stack, Arg(1))
    BY DEF C_OR, Is
  <1>2. Whole(stack, FR, BFR) /\ Safe(stack, FR, BFR)
    BY <1>1, Running, Handled
  <1>3. ~IsCleanup(stack, FR)
    <2>1. Is("C_OR") /\ "C_OR" \in PlainOps
      BY DEF C_OR, PlainOps
    <2> QED
      BY <2>1, Plain
  <1> QED
    BY <1>1, <1>2, <1>3, OrSafe

LEMMA C_IFTHENELSE_Safe ==
  ASSUME IInv, CInv, C_IFTHENELSE \/ C_SOFTIF
  PROVE  CInv'
  <1>1. PICK x \in {BFR, Len(stack) + 1} : Or(SetVar(Arg(1), x), Arg(2))
    BY DEF C_IFTHENELSE, C_SOFTIF
  <1>2. mode = "run"
    BY DEF C_IFTHENELSE, C_SOFTIF, Is
  <1>3. x \in Nat /\ x >= BFR
    BY <1>2, Running
  <1>4. ~IsCleanup(stack, FR)
    <2>1. PICK op \in {"C_IFTHENELSE", "C_NOT", "C_SOFTIF"} : Is(op)
      BY DEF C_IFTHENELSE, C_SOFTIF
    <2>2. op \in PlainOps
      BY DEF PlainOps
    <2> QED
      BY <2>1, <2>2, Plain
  <1> DEFINE u == SetVar(Arg(1), x)
  <1>5. /\ Whole(u, FR, BFR) /\ Safe(u, FR, BFR) /\ Len(u) = Len(stack)
        /\ AllArmed(u, LiveIn(u, FR, BFR)) = AllArmed(stack, LiveIn(stack, FR, BFR))
        /\ ~IsCleanup(u, FR)
    BY <1>2, <1>3, <1>4, SetSafe
  <1> HIDE DEF u
  <1>6. Or(u, Arg(2))
    BY <1>1 DEF u
  <1> QED
    BY <1>2, <1>5, <1>6, OrSafe

LEMMA C_IFTHEN_Safe ==
  ASSUME IInv, CInv, C_IFTHEN
  PROVE  CInv'
  <1> DEFINE u == SetVar(Arg(1), BFR)
  <1>1. mode = "run" /\ Continue(u, BFR) /\ marked' = marked /\ cleaned' = cleaned
    BY DEF C_IFTHEN, Is, counts
  <1>2. BFR \in Nat /\ BFR >= BFR
    BY <1>1, Running
  <1>3. ~IsCleanup(stack, FR)
    <2>1. PICK op \in {"C_IFTHEN", "C_SOFTIFTHEN"} : Is(op)
      BY DEF C_IFTHEN
    <2>2. op \in PlainOps
      BY DEF PlainOps
    <2> QED
      BY <2>1, <2>2, Plain
  <1>4. /\ Safe(u, FR, BFR) /\ ~IsCleanup(u, FR)
        /\ AllArmed(u, LiveIn(u, FR, BFR)) = AllArmed(stack, LiveIn(stack, FR, BFR))
    BY <1>1, <1>2, <1>3, SetSafe
  <1> HIDE DEF u
  <1> QED
    BY <1>1, <1>4, ContinuedSafe

LEMMA C_SOFTCUT_Safe ==
  ASSUME IInv, CInv, ChoicesKnown, C_SOFTCUT
  PROVE  CInv'
  <1> DEFINE ch == ChoiceVar
  <1>1. mode = "run" /\ marked' = marked /\ cleaned' = cleaned
        /\ IF BFR = ch THEN Continue(stack, stack[BFR].parent) ELSE Continue(Unlink(ch), BFR)
    BY DEF C_SOFTCUT, Is, counts
  <1>2. ch # 0
    BY DEF C_SOFTCUT, ChoicesKnown
  <1>3. ch \in Chain(stack)[BFR] => stack[ch].kind = "CHP_JUMP" /\ stack[ch].frame = FR
    BY DEF C_SOFTCUT, ChoicesKnown, ChoiceChain
  <1> HIDE DEF ch
  <1>4. Whole(stack, FR, BFR) /\ Good(stack, FR, BFR) /\ BFR \in Chain(stack)[BFR] /\ Safe(stack, FR, BFR)
        /\ Len(stack) \in Nat /\ Len(stack) >= 2
    BY <1>1, Running, Handled, GoodFacts
  <1>5. ch \in Chain(stack)[BFR] => ch # 1
    BY <1>3, <1>4 DEF Whole, Cells
  <1>6. ~IsCleanup(stack, FR) /\ ~ArmedIn(stack, FR)
    <2>1. Is("C_SOFTCUT") /\ "C_SOFTCUT" \in PlainOps
      BY DEF C_SOFTCUT, PlainOps
    <2> QED
      BY <2>1, Plain
  <1>7. CASE BFR = ch
    <2>1. BFR # 1 /\ stack[BFR].frame = FR
      BY <1>3, <1>4, <1>5, <1>7
    <2>2. /\ Safe(stack, FR, stack[BFR].parent)
          /\ LiveIn(stack, FR, stack[BFR].parent) = LiveIn(stack, FR, BFR)
      BY <1>4, <1>6, <2>1, SafePop
    <2> QED
      BY <1>1, <1>6, <1>7, <2>2, ContinuedSafe
  <1>8. CASE BFR # ch
    <2> DEFINE t == Unlink(ch)
    <2>1. /\ Whole(t, FR, BFR) /\ LiveIn(t, FR, BFR) = LiveIn(stack, FR, BFR) /\ Len(t) = Len(stack)
          /\ Chain(t)[BFR] = Chain(stack)[BFR] \ {ch}
          /\ \A g \in 1..Len(stack) : IsF(stack, g) => Chain(t)[g] = Chain(stack)[g] /\ t[g] = stack[g]
          /\ \A g \in 1..Len(stack) : t[g].kind = stack[g].kind
               /\ (stack[g].kind # "frame" => t[g].frame = stack[g].frame)
      BY <1>2, <1>3, <1>4, <1>5, <1>8, WholeUnlink
    <2> HIDE DEF t
    <2>2. Handlers(t)
      <3> DEFINE m == Len(stack)
      <3>1. Alike(stack, t, m)
        BY <2>1 DEF Alike, AlikeFrame, IsF, IsC
      <3>2. Linked(stack) /\ Handlers(stack)
        BY <1>4 DEF Good, Safe
      <3>3. m \in Nat /\ m >= 2 /\ m <= Len(stack) /\ m <= Len(t) /\ Len(t) \in Nat
            /\ \A a \in 1..Len(t) : ~(a > m)
        BY <1>4, <2>1
      <3> HIDE DEF m
      <3> QED
        BY <3>1, <3>2, <3>3, HandlersKept
    <2>3. ASSUME NEW f \in LiveIn(t, FR, BFR)
          PROVE  /\ f \in LiveIn(stack, FR, BFR) /\ Chain(t)[f] = Chain(stack)[f]
                 /\ ArmedIn(t, f) <=> ArmedIn(stack, f)
                 /\ ArmedIn(t, f) /\ f + 1 \in Chain(stack)[BFR] /\ stack[f + 1].frame = f =>
                      f + 1 \in Chain(t)[BFR] /\ t[f + 1].frame = f
                 /\ \A h \in Chain(stack)[f] : h # f /\ Ran(t, h) => Ran(stack, h)
      <3>1. f \in LiveIn(stack, FR, BFR)
        BY <2>1
      <3>2. IsF(stack, f) /\ f \in 1..Len(stack)
        <4>1. IsF(stack, f)
          BY <1>4, <3>1, GoodFacts DEF LiveIn
        <4> QED
          BY <4>1 DEF IsF
      <3>3. t[f] = stack[f] /\ Chain(t)[f] = Chain(stack)[f]
        BY <2>1, <3>2
      <3>4. \A h \in Chain(stack)[f] : t[h] = stack[h]
        <4>1. \A h \in Chain(stack)[f] : IsF(stack, h)
          <5>1. Linked(stack)
            BY <1>4 DEF Good
          <5> QED
            BY <3>2, <5>1, KindChain
        <4> QED
          BY <2>1, <4>1 DEF IsF
      <3>5. ArmedIn(t, f) <=> ArmedIn(stack, f)
        BY <3>3 DEF ArmedIn
      <3>6. \A h \in Chain(stack)[f] : h # f /\ Ran(t, h) => Ran(stack, h)
        BY <3>4 DEF Ran
      <3>7. ASSUME ArmedIn(t, f), f + 1 \in Chain(stack)[BFR], stack[f + 1].frame = f
            PROVE  f + 1 \in Chain(t)[BFR] /\ t[f + 1].frame = f
        <4>1. f # FR
          BY <1>6, <3>5, <3>7
        <4>2. f + 1 # ch
          BY <1>3, <3>7, <4>1
        <4>3. IsC(stack, f + 1)
          BY <1>4, <3>7, GoodFacts
        <4> QED
          BY <2>1, <3>7, <4>2, <4>3 DEF IsC
      <3> QED
        BY <3>1, <3>3, <3>5, <3>6, <3>7
    <2>4. Safe(t, FR, BFR)
      BY <1>4, <2>2, <2>3, GuardKept DEF Safe
    <2>5. AllArmed(t, LiveIn(t, FR, BFR)) = AllArmed(stack, LiveIn(stack, FR, BFR))
      BY <2>1, <2>3 DEF AllArmed
    <2>6. ~IsCleanup(t, FR)
      <3>1. IsF(stack, FR) /\ FR \in 1..Len(stack)
        BY <1>4 DEF Good, IsF
      <3> QED
        BY <1>6, <2>1, <3>1 DEF IsCleanup
    <2>7. Continue(t, BFR)
      BY <1>1, <1>8 DEF t
    <2> QED
      BY <1>1, <2>4, <2>5, <2>6, <2>7, ContinuedSafe
  <1> QED
    BY <1>7, <1>8

LEMMA I_CATCH_Safe ==
  ASSUME IInv, CInv, I_CATCH
  PROVE  CInv'
  <1> DEFINE t == WithCatch(stack)  n == Len(stack) + 1
  <1>1. mode = "run" /\ UserCall(t, n, stack[FR].goal[2], FR, PC + 1)
        /\ marked' = marked /\ cleaned' = cleaned
    BY DEF I_CATCH, Is
  <1>2. Whole(stack, FR, BFR) /\ FR # 2 /\ "CHP_CATCH" \in {"CHP_JUMP", "CHP_CATCH"}
        /\ FR \in 1..Len(stack) /\ Len(stack) \in Nat
    BY <1>1, Running
  <1>3. /\ Safe(stack, FR, BFR) /\ marked \in Int /\ cleaned \in Int
        /\ marked - cleaned = Cardinality(AllArmed(stack, LiveIn(stack, FR, BFR)))
    BY <1>1, Handled
  <1>4. ~IsCleanup(stack, FR)
    <2>1. Is("I_CATCH") /\ "I_CATCH" \in PlainOps
      BY DEF I_CATCH, PlainOps
    <2> QED
      BY <2>1, Plain
  <1>5. /\ Whole(t, FR, n) /\ Safe(t, FR, n) /\ ~IsCleanup(t, FR)
        /\ AllArmed(t, LiveIn(t, FR, n)) = AllArmed(stack, LiveIn(stack, FR, BFR))
        /\ Len(t) = n
    BY <1>2, <1>3, <1>4, NewChoiceSafe DEF WithCatch
  <1> HIDE DEF t
  <1>6. ~Ran(t, FR)
    <2>1. FR \in 1..Len(t) /\ IsF(t, FR)
      <3>1. IsF(t, FR)
        BY <1>5 DEF Whole, Good
      <3> QED
        BY <3>1 DEF IsF
    <2>2. HandlerFrame(t, FR)
      BY <1>5, <2>1 DEF Safe, Handlers
    <2> QED
      BY <1>5, <2>2, NoHandler
  <1>7. PICK g : EnterGoal(log, t, n, g, FR, PC + 1)
    BY <1>1 DEF UserCall
  <1> HIDE DEF n
  <1> QED
    BY <1>1, <1>2, <1>3, <1>5, <1>6, <1>7, EnteredSafe

(* I_CALLCLEANUP is the first instruction of setup_call_cleanup/3. *)
LEMMA CalledFirst ==
  ASSUME IInv, CInv, CodeFits, I_CALLCLEANUP
  PROVE  mode = "run" /\ IsCleanup(stack, FR) /\ PC = 1 /\ stack[FR].flags = {} /\ Len(stack) = FR
  <1>1. mode = "run" /\ stack[FR].clause.codes[PC][1] = "I_CALLCLEANUP" /\ Is("I_CALLCLEANUP")
    BY DEF I_CALLCLEANUP, Is
  <1>2. IsCleanup(stack, FR)
    BY <1>1 DEF CodeFits, IsCleanup
  <1>3. HandlerFrame(stack, FR)
    BY <1>1, Handled
  <1>4. CallsCleanup(stack[FR].clause) /\ PC \in 1..3 /\ (PC = 1 => stack[FR].flags = {} /\ Len(stack) = FR)
    BY <1>1, <1>2, <1>3 DEF CInv, HandlerFrame
  <1>5. PC = 1 \/ PC = 2 \/ PC = 3
    BY <1>4
  <1>6. PC = 1
    BY <1>1, <1>4, <1>5 DEF CallsCleanup
  <1> QED
    BY <1>1, <1>2, <1>4, <1>6

(* A handler is armed, and its choice point made. *)
LEMMA SafeArmed ==
  ASSUME NEW s, NEW fr, NEW b, Whole(s, fr, b), Safe(s, fr, b), fr # 2, IsCleanup(s, fr),
         s[fr].flags = {}, Len(s) = fr,
         NEW t, NEW n, n = fr + 1, Whole(t, fr, n), Len(t) = n, LiveIn(t, fr, n) = LiveIn(s, fr, b),
         \A a \in 1..fr : a # fr => t[a] = s[a],
         AlikeFrame(s, t, fr), t[fr].kind = s[fr].kind, t[fr].flags = {"FR_CLEANUP"},
         t[n].kind = "CHP_CATCH", t[n].frame = fr,
         Chain(t)[n] = {n} \cup Chain(s)[b],
         \A g \in 0..fr : Chain(t)[g] = Chain(s)[g]
  PROVE  /\ Safe(t, fr, n) /\ ~Ran(t, fr)
         /\ AllArmed(t, LiveIn(t, fr, n)) = AllArmed(s, LiveIn(s, fr, b)) \cup {fr}
         /\ fr \notin AllArmed(s, LiveIn(s, fr, b))
  <1>1. Good(s, fr, b) /\ Len(s) \in Nat /\ fr \in 3..Len(s) /\ IsF(s, fr) /\ Linked(s) /\ Older(s)
        /\ LiveIn(s, fr, b) \subseteq 3..Len(s) /\ fr \in LiveIn(s, fr, b)
    <2>1. Good(s, fr, b)
      BY DEF Whole
    <2>2. Len(s) \in Nat /\ fr \in 2..Len(s) /\ LiveIn(s, fr, b) \subseteq 3..Len(s) /\ fr \in Chain(s)[fr] /\ Older(s)
      BY <2>1, GoodFacts
    <2>3. IsF(s, fr) /\ Linked(s)
      BY <2>1 DEF Good
    <2> QED
      BY <2>1, <2>2, <2>3 DEF LiveIn
  <1>2. \A a \in 1..fr : (ArmedIn(t, a) <=> ArmedIn(s, a) \/ a = fr) /\ (Ran(t, a) <=> Ran(s, a))
          /\ (IsCleanup(t, a) <=> IsCleanup(s, a))
    <2>1. ArmedIn(t, fr) /\ ~ArmedIn(s, fr) /\ ~Ran(t, fr) /\ ~Ran(s, fr)
      BY DEF ArmedIn, Ran
    <2>2. IsCleanup(t, fr) <=> IsCleanup(s, fr)
      BY DEF AlikeFrame, IsCleanup
    <2>3. \A a \in 1..fr : a # fr => (ArmedIn(t, a) <=> ArmedIn(s, a)) /\ (Ran(t, a) <=> Ran(s, a))
            /\ (IsCleanup(t, a) <=> IsCleanup(s, a))
      BY DEF ArmedIn, Ran, IsCleanup
    <2> QED
      BY <2>1, <2>2, <2>3
  <1>3. ~ArmedIn(s, fr) /\ ~Ran(s, fr) /\ ~Ran(t, fr)
    BY DEF ArmedIn, Ran
  <1>4. Handlers(t)
    <2>1. Alike(s, t, fr)
      <3>1. ASSUME NEW a \in 1..fr
            PROVE  /\ t[a].kind = s[a].kind
                   /\ IsF(s, a) => AlikeFrame(s, t, a)
                   /\ IsC(s, a) => t[a].frame = s[a].frame
        <4>1. CASE a = fr
          BY <1>1, <4>1 DEF IsF, IsC
        <4>2. CASE a # fr
          BY <4>2 DEF AlikeFrame
        <4> QED
          BY <4>1, <4>2
      <3> QED
        BY <3>1 DEF Alike
    <2>2. \A a \in 1..Len(t) : a > fr => a = n
      BY <1>1
    <2>3. ~IsF(t, n) /\ HandlerChoice(t, n)
      BY DEF IsF, HandlerChoice
    <2>4. \A a \in 1..Len(t) : a > fr => (IsF(t, a) => HandlerFrame(t, a)) /\ (IsC(t, a) => HandlerChoice(t, a))
      BY <2>2, <2>3
    <2>5. fr \in Nat /\ fr >= 2 /\ fr <= Len(s) /\ fr <= Len(t) /\ Len(t) \in Nat
      BY <1>1
    <2>6. Handlers(s)
      BY DEF Safe
    <2> QED
      BY <1>1, <2>1, <2>4, <2>5, <2>6, HandlersKept
  <1>5. \A f \in LiveIn(s, fr, b) : f \in 1..fr /\ f \in 0..fr /\ \A h \in Chain(s)[f] : h \in 1..fr
    <2>1. \A f \in LiveIn(s, fr, b) : f \in 1..fr /\ f \in 0..fr
      BY <1>1
    <2>2. \A f \in LiveIn(s, fr, b) : Chain(s)[f] \subseteq 1..f
      BY <1>1, <2>1, ChainShape
    <2> QED
      BY <1>1, <2>1, <2>2
  <1>6. ASSUME NEW f \in LiveIn(s, fr, b), f # fr
        PROVE  /\ Chain(t)[f] = Chain(s)[f]
               /\ ArmedIn(t, f) => ArmedIn(s, f)
               /\ ArmedIn(t, f) /\ f + 1 \in Chain(s)[b] /\ s[f + 1].frame = f =>
                    f + 1 \in Chain(t)[n] /\ t[f + 1].frame = f
               /\ \A h \in Chain(s)[f] : h # f /\ Ran(t, h) => Ran(s, h)
    <2>1. f \in 1..fr /\ f \in 0..fr /\ \A h \in Chain(s)[f] : h \in 1..fr
      BY <1>5
    <2>2. f + 1 \in Chain(s)[b] => f + 1 # fr /\ f + 1 \in 1..fr
      BY <1>1, GoodFacts DEF IsC, IsF
    <2> QED
      BY <1>2, <1>6, <2>1, <2>2
  <1>7. GuardedAt(t, fr, n)
    <2>1. GuardedAt(s, fr, b)
      BY <1>1 DEF Safe, Guarded
    <2>2. \A g \in Chain(s)[fr] : g # fr => ~Ran(s, g) /\ g \in 1..fr
      BY <1>1, <1>5, <2>1 DEF GuardedAt
    <2>3. Chain(t)[fr] = Chain(s)[fr]
      BY <1>1, <1>5
    <2>4. \A g \in Chain(t)[fr] : g # fr => ~Ran(t, g)
      BY <1>2, <2>2, <2>3
    <2> QED
      BY <2>4 DEF GuardedAt
  <1>8. Guarded(t, fr, n)
    BY <1>6, <1>7, GuardKept DEF Safe
  <1>9. AllArmed(t, LiveIn(t, fr, n)) = AllArmed(s, LiveIn(s, fr, b)) \cup {fr}
    BY <1>1, <1>2, <1>5 DEF AllArmed
  <1> QED
    BY <1>3, <1>4, <1>8, <1>9 DEF Safe, AllArmed

LEMMA I_CALLCLEANUP_Safe ==
  ASSUME IInv, CInv, CodeFits, I_CALLCLEANUP
  PROVE  CInv'
  <1> DEFINE s == Flagged(FR, "FR_CLEANUP")  t == WithCatch(s)  n == Len(stack) + 1
             A == AllArmed(stack, LiveIn(stack, FR, BFR))
  <1>1. mode = "run" /\ IsCleanup(stack, FR) /\ PC = 1 /\ stack[FR].flags = {} /\ Len(stack) = FR
    BY CalledFirst
  <1>2. UserCall(t, n, stack[FR].goal[2], FR, PC + 1) /\ marked' = marked + 1 /\ cleaned' = cleaned
    BY DEF I_CALLCLEANUP
  <1>3. Whole(stack, FR, BFR) /\ IsF(stack, FR) /\ FR \in 1..Len(stack) /\ FR # 2
        /\ "CHP_CATCH" \in {"CHP_JUMP", "CHP_CATCH"} /\ IsFiniteSet(LiveIn(stack, FR, BFR))
    BY <1>1, Running DEF IsF
  <1>4. /\ Safe(stack, FR, BFR) /\ marked \in Int /\ cleaned \in Int
        /\ marked - cleaned = Cardinality(A)
    BY <1>1, Handled
  <1>5. PICK g : EnterGoal(log, t, n, g, FR, PC + 1)
    BY <1>2 DEF UserCall
  <1>a. s = FlaggedIn(stack, FR, "FR_CLEANUP")
    BY DEF Flagged, FlaggedIn
  <1>b. t = Append(s, Choice("CHP_CATCH", FR, BFR, 0))
    BY DEF WithCatch
  <1> HIDE DEF s, t, n
  <1>6. /\ Whole(s, FR, BFR) /\ LiveIn(s, FR, BFR) = LiveIn(stack, FR, BFR) /\ Len(s) = Len(stack)
        /\ \A x \in 0..Len(stack) : Chain(s)[x] = Chain(stack)[x]
        /\ \A a \in 1..Len(stack) : a # FR => s[a] = stack[a]
        /\ s[FR].flags = stack[FR].flags \cup {"FR_CLEANUP"} /\ s[FR].goal = stack[FR].goal
        /\ s[FR].programPointer = stack[FR].programPointer /\ s[FR].clause = stack[FR].clause
        /\ s[FR].parent = stack[FR].parent /\ s[FR].kind = stack[FR].kind
    BY <1>3, <1>a, WholeFlag
  <1> DEFINE r == Choice("CHP_CATCH", FR, BFR, 0)
  <1>7. /\ Whole(t, FR, Len(s) + 1) /\ LiveIn(t, FR, Len(s) + 1) = LiveIn(s, FR, BFR)
        /\ Len(t) = Len(s) + 1 /\ Len(s) \in Nat /\ \A a \in 1..Len(s) : t[a] = s[a]
        /\ t[Len(s) + 1] = r
        /\ Chain(t)[Len(s) + 1] = {Len(s) + 1} \cup Chain(s)[BFR]
        /\ \A x \in 0..Len(s) : Chain(t)[x] = Chain(s)[x]
    BY <1>3, <1>6, <1>b, NewChoice
  <1>8. r.kind = "CHP_CATCH" /\ r.frame = FR
    BY DEF Choice
  <1> HIDE DEF r
  <1>9. n = FR + 1 /\ Whole(t, FR, n) /\ Len(t) = n /\ LiveIn(t, FR, n) = LiveIn(stack, FR, BFR)
        /\ t[n].kind = "CHP_CATCH" /\ t[n].frame = FR /\ FR \in Nat
    BY <1>1, <1>6, <1>7, <1>8 DEF n
  <1>10. \A x \in 0..FR : Chain(t)[x] = Chain(stack)[x]
    BY <1>1, <1>6, <1>7
  <1>11. Chain(t)[n] = {n} \cup Chain(stack)[BFR]
    <2>1. BFR \in 0..Len(stack)
      BY <1>1, Running
    <2> QED
      BY <1>6, <1>7, <2>1 DEF n
  <1>12. t[FR] = s[FR] /\ \A a \in 1..FR : a # FR => t[a] = stack[a]
    BY <1>1, <1>3, <1>6, <1>7
  <1>13. AlikeFrame(stack, t, FR) /\ t[FR].kind = stack[FR].kind /\ t[FR].flags = {"FR_CLEANUP"}
    BY <1>1, <1>6, <1>12 DEF AlikeFrame
  <1>14. /\ Safe(t, FR, n) /\ ~Ran(t, FR)
         /\ AllArmed(t, LiveIn(t, FR, n)) = A \cup {FR} /\ FR \notin A
    BY <1>1, <1>3, <1>4, <1>9, <1>10, <1>11, <1>12, <1>13, SafeArmed
  <1>15. Cardinality(A \cup {FR}) = Cardinality(A) + 1
    <2>1. IsFiniteSet(A)
      <3>1. A \subseteq LiveIn(stack, FR, BFR)
        BY DEF AllArmed
      <3> QED
        BY <1>3, <3>1, FS_Subset
    <2> HIDE DEF A
    <2> QED
      BY <1>14, <2>1, CardinalityMore
  <1>16. Cardinality(A) \in Int
    BY <1>4
  <1> HIDE DEF A
  <1>17. marked' \in Int /\ cleaned' \in Int /\ marked' - cleaned' = Cardinality(AllArmed(t, LiveIn(t, FR, n)))
    BY <1>2, <1>4, <1>14, <1>15, <1>16
  <1>18. EnterGoal(log, t, n, g, FR, 2)
    BY <1>1, <1>5
  <1> QED
    BY <1>3, <1>9, <1>14, <1>17, <1>18, EnteredSafe

(* A handler is marked as run, and nothing is above it. *)
LEMMA SafeCaught ==
  ASSUME NEW s, NEW fr, NEW b, Good(s, fr, b), Handlers(s), fr # 2,
         \A f \in LiveIn(s, fr, b) : f # fr => GuardedAt(s, f, b),
         \A h \in Chain(s)[fr] : h # fr => ~Ran(s, h),
         "FR_CLEANUP" \in s[fr].flags => \A f \in LiveIn(s, fr, b) : f <= fr,
         NEW u, Good(u, fr, b), Len(u) = Len(s), LiveIn(u, fr, b) = LiveIn(s, fr, b),
         \A h \in 0..Len(s) : Chain(u)[h] = Chain(s)[h],
         \A a \in 1..Len(s) : a # fr => u[a] = s[a],
         u[fr].kind = s[fr].kind, AlikeFrame(s, u, fr), u[fr].flags = s[fr].flags \cup {"FR_CATCHED"}
  PROVE  /\ Safe(u, fr, b)
         /\ AllArmed(u, LiveIn(u, fr, b)) = AllArmed(s, LiveIn(s, fr, b) \ {fr})
         /\ IsCleanup(u, fr) <=> IsCleanup(s, fr)
  <1>1. Len(s) \in Nat /\ Len(s) >= 2 /\ b \in 1..Len(s) /\ LiveIn(s, fr, b) \subseteq 3..Len(s)
        /\ fr \in 2..Len(s) /\ fr \in 1..Len(s) /\ Older(s)
    <2>1. Len(s) \in Nat /\ Len(s) >= 2 /\ b \in 1..Len(s) /\ LiveIn(s, fr, b) \subseteq 3..Len(s)
          /\ fr \in 2..Len(s) /\ Older(s)
      BY GoodFacts
    <2> QED
      BY <2>1
  <1>2. Linked(s) /\ IsF(s, fr)
    BY DEF Good
  <1>3. Handlers(u)
    <2>1. Alike(s, u, Len(s))
      <3>1. ASSUME NEW a \in 1..Len(s)
            PROVE  /\ u[a].kind = s[a].kind
                   /\ IsF(s, a) => AlikeFrame(s, u, a)
                   /\ IsC(s, a) => u[a].frame = s[a].frame
        <4>1. CASE a = fr
          BY <1>2, <4>1 DEF IsF, IsC
        <4>2. CASE a # fr
          BY <4>2 DEF AlikeFrame
        <4> QED
          BY <4>1, <4>2
      <3> QED
        BY <3>1 DEF Alike
    <2>2. \A a \in 1..Len(u) : ~(a > Len(s))
      BY <1>1
    <2> QED
      BY <1>1, <1>2, <2>1, <2>2, HandlersKept
  <1>4. \A a \in 1..Len(s) : a # fr => (ArmedIn(u, a) <=> ArmedIn(s, a)) /\ (Ran(u, a) <=> Ran(s, a))
    BY DEF ArmedIn, Ran
  <1>5. ~ArmedIn(u, fr) /\ (Ran(u, fr) => "FR_CLEANUP" \in s[fr].flags)
    BY DEF ArmedIn, Ran
  <1>6. \A f \in LiveIn(s, fr, b) : f \in 1..Len(s) /\ f \in 0..Len(s) /\ Chain(u)[f] = Chain(s)[f]
          /\ \A h \in Chain(s)[f] : h \in 1..Len(s) /\ h <= f
    <2>1. \A f \in LiveIn(s, fr, b) : f \in 1..Len(s) /\ f \in 0..Len(s)
      BY <1>1
    <2>2. \A f \in LiveIn(s, fr, b) : Chain(s)[f] \subseteq 1..f
      BY <1>1, <2>1, ChainShape
    <2>3. \A f \in LiveIn(s, fr, b) : \A h \in Chain(s)[f] : h \in 1..Len(s) /\ h <= f
      BY <1>1, <2>1, <2>2
    <2> QED
      BY <2>1, <2>3
  <1>7. ASSUME NEW f \in LiveIn(s, fr, b) PROVE GuardedAt(u, f, b)
    <2>1. CASE f = fr
      <3>1. \A h \in Chain(u)[fr] : h # fr => ~Ran(u, h)
        BY <1>4, <1>6, <2>1
      <3> QED
        BY <1>5, <2>1, <3>1 DEF GuardedAt
    <2>2. CASE f # fr
      <3>1. GuardedAt(s, f, b)
        BY <2>2
      <3>2. ArmedIn(u, f) => f + 1 \in Chain(u)[b] /\ u[f + 1].frame = f
        <4>1. ArmedIn(u, f) => f + 1 \in Chain(s)[b] /\ s[f + 1].frame = f
          BY <1>4, <1>6, <2>2, <3>1 DEF GuardedAt
        <4>2. f + 1 \in Chain(s)[b] => f + 1 # fr /\ f + 1 \in 1..Len(s)
          BY <1>2, GoodFacts DEF IsC, IsF
        <4>3. Chain(u)[b] = Chain(s)[b]
          BY <1>1
        <4> QED
          BY <4>1, <4>2, <4>3
      <3>3. ASSUME NEW h \in Chain(s)[f], h # f, Ran(u, h) PROVE FALSE
        <4>1. h \in 1..Len(s) /\ h <= f
          BY <1>6
        <4>2. CASE h = fr
          <5>1. f <= fr
            BY <1>5, <3>3, <4>2
          <5> QED
            BY <1>1, <1>6, <2>2, <4>1, <4>2, <5>1
        <4>3. CASE h # fr
          <5>1. Ran(s, h)
            BY <1>4, <3>3, <4>1, <4>3
          <5> QED
            BY <3>1, <3>3, <5>1 DEF GuardedAt
        <4> QED
          BY <4>2, <4>3
      <3> QED
        BY <1>6, <3>2, <3>3 DEF GuardedAt
    <2> QED
      BY <2>1, <2>2
  <1>8. Safe(u, fr, b)
    BY <1>3, <1>7 DEF Safe, Guarded
  <1>9. AllArmed(u, LiveIn(u, fr, b)) = AllArmed(s, LiveIn(s, fr, b) \ {fr})
    BY <1>4, <1>5, <1>6 DEF AllArmed
  <1> QED
    BY <1>8, <1>9 DEF AlikeFrame, IsCleanup

CaughtIn(s, u, fr, b) ==
  /\ Good(s, fr, b) /\ Handlers(s) /\ fr # 2
  /\ \A f \in LiveIn(s, fr, b) : f # fr => GuardedAt(s, f, b)
  /\ \A h \in Chain(s)[fr] : h # fr => ~Ran(s, h)
  /\ "FR_CLEANUP" \in s[fr].flags => \A f \in LiveIn(s, fr, b) : f <= fr
  /\ Good(u, fr, b) /\ Len(u) = Len(s) /\ LiveIn(u, fr, b) = LiveIn(s, fr, b)
  /\ \A h \in 0..Len(s) : Chain(u)[h] = Chain(s)[h]
  /\ \A a \in 1..Len(s) : a # fr => u[a] = s[a]
  /\ u[fr].kind = s[fr].kind /\ AlikeFrame(s, u, fr) /\ u[fr].flags = s[fr].flags \cup {"FR_CATCHED"}

LEMMA SafeCaughtIn ==
  ASSUME NEW s, NEW u, NEW fr, NEW b, CaughtIn(s, u, fr, b)
  PROVE  /\ Safe(u, fr, b)
         /\ AllArmed(u, LiveIn(u, fr, b)) = AllArmed(s, LiveIn(s, fr, b) \ {fr})
         /\ IsCleanup(u, fr) <=> IsCleanup(s, fr)
  BY SafeCaught DEF CaughtIn

(* No frame is above that of the newest choice point right above it. *)
LEMMA NoneAbove ==
  ASSUME NEW s, NEW fr, NEW b, Good(s, fr, b), b = fr + 1
  PROVE  \A f \in LiveIn(s, fr, b) : f <= fr
  <1> SUFFICES ASSUME NEW f \in LiveIn(s, fr, b) PROVE f <= fr
    OBVIOUS
  <1>1. fr \in 2..Len(s) /\ Len(s) \in Nat /\ Older(s) /\ f \in 3..Len(s)
    BY GoodFacts
  <1>2. CASE f \in Chain(s)[fr]
    <2>1. fr \in 0..Len(s)
      BY <1>1
    <2>2. Chain(s)[fr] \subseteq 1..fr
      BY <1>1, <2>1, ChainShape
    <2> QED
      BY <1>2, <2>2
  <1>3. CASE f \notin Chain(s)[fr]
    <2>1. PICK d \in Chain(s)[b] : f \in FramesOf(s, d)
      BY <1>3 DEF LiveIn
    <2>2. d <= b /\ d \in 1..b /\ f <= s[d].frame /\ s[d].frame \in 2..Len(s)
          /\ (d # 1 => s[d].frame < d) /\ FramesOf(s, 1) = {2}
      BY <2>1, GoodFacts
    <2>3. d # 1
      BY <1>1, <2>1, <2>2
    <2> QED
      BY <1>1, <2>2, <2>3
  <1> QED
    BY <1>2, <1>3

(* The handlers of the frames of fs are taken to have run. *)
LEMMA HandlerRuns ==
  ASSUME IInv, CInv, mode # "closed", NEW fs, NEW L, L \subseteq LiveIn(stack, FR, BFR),
         fs = LiveIn(stack, FR, BFR) \ L,
         marked' = marked, cleaned' = cleaned + Cardinality({f \in fs : Armed(f)}),
         NEW A, A = AllArmed(stack, L)
  PROVE  marked' \in Int /\ cleaned' \in Int /\ marked' - cleaned' = Cardinality(A)
  BY LeavesRun

LEMMA I_EXITCLEANUP_Safe ==
  ASSUME IInv, CInv, I_EXITCLEANUP
  PROVE  CInv'
  <1>1. mode = "run" /\ stack[FR].clause.codes[PC][1] = "I_EXITCLEANUP"
    BY DEF I_EXITCLEANUP, Is
  <1>2. /\ Whole(stack, FR, BFR) /\ Good(stack, FR, BFR) /\ IsF(stack, FR) /\ FR \in 1..Len(stack) /\ FR # 2
        /\ BFR \in 1..Len(stack) /\ IsC(stack, BFR) /\ Len(stack) \in Nat
    BY <1>1, Running DEF IsF
  <1>3. /\ Safe(stack, FR, BFR) /\ Handlers(stack) /\ Guarded(stack, FR, BFR) /\ HandlerFrame(stack, FR)
        /\ marked \in Int /\ cleaned \in Int
        /\ marked - cleaned = Cardinality(AllArmed(stack, LiveIn(stack, FR, BFR)))
    BY <1>1, Handled
  <1>4. IsCleanup(stack, FR) => PC = 2
    <2>1. IsCleanup(stack, FR) => PC \in 1..3 /\ CallsCleanup(stack[FR].clause)
      BY <1>1, <1>3 DEF CInv, HandlerFrame
    <2>2. PC \in 1..3 => PC = 1 \/ PC = 2 \/ PC = 3
      OBVIOUS
    <2> QED
      BY <1>1, <2>1, <2>2 DEF CallsCleanup
  <1>5. FR \in LiveIn(stack, FR, BFR)
    <2>1. FR \in Chain(stack)[FR]
      BY <1>2, GoodFacts
    <2> QED
      BY <1>2, <2>1 DEF LiveIn
  <1>6. CASE Deterministic
    <2> DEFINE s == Flagged(FR, "FR_CATCHED")  b == stack[BFR].parent
               L == LiveIn(stack, FR, BFR) \ {FR}
    <2>1. stack' = s /\ BFR' = b /\ PC' = PC + 1 /\ FR' = FR /\ mode' = "run" /\ marked' = marked
          /\ cleaned' = cleaned + (IF Armed(FR) THEN 1 ELSE 0)
      BY <1>1, <1>6 DEF I_EXITCLEANUP, Continue
    <2>2. stack[BFR].frame = FR /\ BFR # 1
      BY <1>2, <1>6 DEF Deterministic, Whole, Cells
    <2>3. /\ Good(stack, FR, b) /\ LiveIn(stack, FR, b) = LiveIn(stack, FR, BFR)
          /\ Chain(stack)[BFR] = {BFR} \cup Chain(stack)[b]
      BY <1>2, <2>2, OwnChoice
    <2>4. Whole(stack, FR, b)
      BY <1>2, <2>3, WholeOther
    <2> HIDE DEF b
    <2>a. s = FlaggedIn(stack, FR, "FR_CATCHED")
      BY DEF Flagged, FlaggedIn
    <2> HIDE DEF s
    <2>5. /\ Whole(s, FR, b) /\ LiveIn(s, FR, b) = LiveIn(stack, FR, b) /\ Len(s) = Len(stack)
          /\ \A x \in 0..Len(stack) : Chain(s)[x] = Chain(stack)[x]
          /\ \A a \in 1..Len(stack) : a # FR => s[a] = stack[a]
          /\ s[FR].flags = stack[FR].flags \cup {"FR_CATCHED"} /\ s[FR].goal = stack[FR].goal
          /\ s[FR].programPointer = stack[FR].programPointer /\ s[FR].clause = stack[FR].clause
          /\ s[FR].parent = stack[FR].parent /\ s[FR].kind = stack[FR].kind
      BY <1>2, <2>4, <2>a, WholeFlag
    <2>6. AlikeFrame(stack, s, FR) /\ Good(s, FR, b)
      BY <2>5 DEF AlikeFrame, Whole
    <2>7. \A f \in LiveIn(stack, FR, b) : f # FR => GuardedAt(stack, f, b)
      <3>1. \A f \in LiveIn(stack, FR, BFR) : GuardedAt(stack, f, BFR)
        BY <1>3 DEF Guarded
      <3>2. \A f : f # FR /\ f + 1 = BFR => stack[f + 1].frame # f
        BY <2>2
      <3> QED
        BY <2>3, <3>1, <3>2 DEF GuardedAt
    <2>8. \A h \in Chain(stack)[FR] : h # FR => ~Ran(stack, h)
      BY <1>3, <1>5 DEF Guarded, GuardedAt
    <2>9. "FR_CLEANUP" \in stack[FR].flags => \A f \in LiveIn(stack, FR, b) : f <= FR
      <3>1. "FR_CLEANUP" \in stack[FR].flags => IsCleanup(stack, FR)
        BY <1>3 DEF HandlerFrame
      <3>2. HandlerChoice(stack, BFR)
        BY <1>2, <1>3 DEF Handlers
      <3>3. IsCleanup(stack, FR) => BFR = FR + 1
        BY <2>2, <3>2 DEF HandlerChoice
      <3>4. BFR = FR + 1 => \A f \in LiveIn(stack, FR, BFR) : f <= FR
        BY <1>2, NoneAbove
      <3> QED
        BY <2>3, <3>1, <3>3, <3>4
    <2>10. /\ Safe(s, FR, b)
           /\ AllArmed(s, LiveIn(s, FR, b)) = AllArmed(stack, LiveIn(stack, FR, b) \ {FR})
           /\ IsCleanup(s, FR) <=> IsCleanup(stack, FR)
      BY <1>2, <1>3, <2>3, <2>5, <2>6, <2>7, <2>8, <2>9, SafeCaught
    <2>11. marked' \in Int /\ cleaned' \in Int /\ marked' - cleaned' = Cardinality(AllArmed(s, LiveIn(s, FR, b)))
      <3> DEFINE fs == {FR}
      <3>1. fs = LiveIn(stack, FR, BFR) \ L /\ L \subseteq LiveIn(stack, FR, BFR)
        BY <1>5
      <3>2. Cardinality({f \in fs : Armed(f)}) = IF Armed(FR) THEN 1 ELSE 0
        <4>1. {f \in fs : Armed(f)} = IF Armed(FR) THEN {FR} ELSE {}
          OBVIOUS
        <4> QED
          BY <4>1, FS_Singleton, FS_EmptySet
      <3>3. AllArmed(s, LiveIn(s, FR, b)) = AllArmed(stack, L)
        BY <2>3, <2>10
      <3> HIDE DEF fs, L
      <3>4. cleaned' = cleaned + Cardinality({f \in fs : Armed(f)})
        BY <2>1, <3>2
      <3> QED
        BY <1>1, <2>1, <3>1, <3>3, <3>4, HandlerRuns
    <2> QED
      BY <1>4, <2>1, <2>10, <2>11, SafeOn
  <1>7. CASE ~Deterministic
    <2>1. Continue(stack, BFR) /\ marked' = marked /\ cleaned' = cleaned
      BY <1>7 DEF I_EXITCLEANUP, counts
    <2>2. stack' = stack /\ BFR' = BFR /\ PC' = PC + 1 /\ FR' = FR /\ mode' = "run"
      BY <1>1, <2>1 DEF Continue
    <2> QED
      BY <1>3, <1>4, <2>1, <2>2, SafeOn
  <1> QED
    BY <1>6, <1>7

(* The frame that catches is one of catch/3. *)
LEMMA B_THROW_Safe ==
  ASSUME IInv, CInv, B_THROW
  PROVE  CInv'
  <1>1. /\ catcher' \in Chain(stack)[FR]
        /\ catcher' # 2 => Catches(catcher') /\ stack' = FlaggedIn(stack, catcher', "FR_CATCHED")
        /\ catcher' = 2 => stack' = stack
        /\ FR' = FR /\ BFR' = BFR /\ mode' = "unwind" /\ mode = "run" /\ marked' = marked /\ cleaned' = cleaned
    BY Caught
  <1>2. Whole(stack, FR, BFR) /\ Good(stack, FR, BFR) /\ Len(stack) \in Nat
    BY <1>1, Running
  <1>3. /\ Safe(stack, FR, BFR) /\ Handlers(stack) /\ marked \in Int /\ cleaned \in Int
        /\ marked - cleaned = Cardinality(AllArmed(stack, LiveIn(stack, FR, BFR)))
    BY <1>1, Handled
  <1>4. catcher' \in 1..Len(stack) /\ IsF(stack, catcher')
    BY <1>1, <1>2, GoodFacts DEF IsF
  <1>5. CASE catcher' = 2
    BY <1>1, <1>3, <1>5, SafeOn
  <1>6. CASE catcher' # 2
    <2> DEFINE c == catcher'  u == FlaggedIn(stack, c, "FR_CATCHED")
    <2>1. stack' = u /\ stack[c].goal[1] = "catch"
      BY <1>1, <1>6 DEF Catches
    <2>2. c \in 1..Len(stack) /\ IsF(stack, c)
      BY <1>4
    <2> HIDE DEF c
    <2>3. u = FlaggedIn(stack, c, "FR_CATCHED")
      OBVIOUS
    <2> HIDE DEF u
    <2>4. /\ Whole(u, FR, BFR) /\ LiveIn(u, FR, BFR) = LiveIn(stack, FR, BFR) /\ Len(u) = Len(stack)
          /\ \A g \in 0..Len(stack) : Chain(u)[g] = Chain(stack)[g]
          /\ \A a \in 1..Len(stack) : a # c => u[a] = stack[a]
          /\ u[c].flags = stack[c].flags \cup {"FR_CATCHED"} /\ u[c].goal = stack[c].goal
          /\ u[c].programPointer = stack[c].programPointer /\ u[c].clause = stack[c].clause
          /\ u[c].parent = stack[c].parent /\ u[c].kind = stack[c].kind
      BY <1>2, <2>2, <2>3, WholeFlag
    <2>5. Good(u, FR, BFR) /\ AlikeFrame(stack, u, c)
      BY <2>4 DEF Whole, AlikeFrame
    <2>6. "FR_CLEANUP" \notin stack[c].flags
      <3>1. HandlerFrame(stack, c)
        BY <1>3, <2>2 DEF Handlers
      <3>2. ~IsCleanup(stack, c)
        BY <2>1 DEF IsCleanup
      <3> QED
        BY <3>1, <3>2, NoHandler
    <2>7. (ArmedIn(u, c) <=> ArmedIn(stack, c)) /\ (Ran(u, c) => Ran(stack, c))
      BY <2>4, <2>6 DEF ArmedIn, Ran
    <2>8. Safe(u, FR, BFR) /\ AllArmed(u, LiveIn(u, FR, BFR)) = AllArmed(stack, LiveIn(stack, FR, BFR))
      BY <1>2, <1>3, <2>2, <2>4, <2>5, <2>7, SafeChange
    <2>9. stack'[catcher'].goal[1] = "catch"
      BY <2>1, <2>4 DEF c
    <2> QED
      BY <1>1, <1>3, <2>1, <2>8, <2>9, SafeOn
  <1> QED
    BY <1>5, <1>6

(* The choice points that are newer than the frame that runs go. *)
LEMMA OldestKept ==
  ASSUME IInv, mode # "closed", NEW f \in Nat, f < FR, f + 1 \in Chain(stack)[BFR]
  PROVE  f + 1 \in Chain(stack)[Oldest(FR)]
  <1> DEFINE e == Oldest(FR)
  <1>1. Good(stack, FR, BFR) /\ FR \in 2..Len(stack) /\ FR \in Nat /\ FR >= 1
    BY Running
  <1>2. \A c \in Chain(stack)[BFR] : c <= FR => c <= e
    BY <1>1, OldestIs
  <1>3. Chain(stack)[e] = {d \in Chain(stack)[BFR] : d <= e}
    BY CutToFrame
  <1> HIDE DEF e
  <1>4. f + 1 <= FR
    BY <1>1
  <1>5. f + 1 \in Chain(stack)[e]
    BY <1>2, <1>3, <1>4
  <1> QED
    BY <1>5 DEF e

LEMMA Unwind_Safe ==
  ASSUME IInv, CInv, Unwind
  PROVE  CInv'
  <1> DEFINE e == Oldest(FR)
             p == stack[FR].parent
             t == SubSeq(stack, 1, FR - 1)
             fs == DiscardedAfter(FR, FR) \cup {FR}
  <1>1. /\ FR' = p /\ BFR' = e /\ stack' = t /\ mode' = "unwind" /\ catcher' = catcher
        /\ LeaveFrames(fs)
        /\ fs = LiveIn(stack, FR, BFR) \ LiveIn(t, p, e)
        /\ LiveIn(t, p, e) \subseteq LiveIn(stack, FR, BFR)
        /\ Whole(t, p, e) /\ catcher \in Chain(t)[p]
        /\ FR \in 3..Len(stack) /\ Len(t) = FR - 1 /\ \A a \in 1..(FR - 1) : t[a] = stack[a]
        /\ \A g \in 0..(FR - 1) : Chain(t)[g] = Chain(stack)[g]
    BY Unwound
  <1>2. mode = "unwind" /\ mode # "closed"
    BY DEF Unwind
  <1>3. Good(stack, FR, BFR) /\ Safe(stack, FR, BFR) /\ Len(stack) \in Nat
    BY <1>2, Running, Handled
  <1>4. \A f \in Nat : f < FR /\ f + 1 \in Chain(stack)[BFR] => f + 1 \in Chain(stack)[e]
    BY <1>2, OldestKept
  <1> HIDE DEF e, p, t, fs
  <1> DEFINE m == FR - 1
  <1>5. Good(t, p, e) /\ m = Len(t) /\ m <= Len(stack) /\ m \in Nat
    BY <1>1, <1>3 DEF Whole
  <1>6. \A f \in LiveIn(t, p, e) :
          ArmedIn(stack, f) /\ f + 1 \in Chain(stack)[BFR] /\ stack[f + 1].frame = f => f + 1 \in Chain(stack)[e]
    <2>1. \A f \in LiveIn(t, p, e) : f \in Nat /\ f < FR
      <3>1. LiveIn(t, p, e) \subseteq 3..Len(t)
        BY <1>5, GoodFacts
      <3> QED
        BY <1>1, <3>1
    <2> QED
      BY <1>4, <2>1
  <1>7. (\A a \in 1..m : t[a] = stack[a]) /\ \A h \in 0..m : Chain(t)[h] = Chain(stack)[h]
    BY <1>1
  <1> HIDE DEF m
  <1>8. /\ Safe(t, p, e) /\ AllArmed(t, LiveIn(t, p, e)) = AllArmed(stack, LiveIn(t, p, e))
    BY <1>1, <1>3, <1>5, <1>6, <1>7, SafeShrink
  <1>9. marked' \in Int /\ cleaned' \in Int /\ marked' - cleaned' = Cardinality(AllArmed(t, LiveIn(t, p, e)))
    <2>1. marked' = marked /\ cleaned' = cleaned + Cardinality({f \in fs : Armed(f)})
      BY <1>1 DEF LeaveFrames
    <2> QED
      BY <1>1, <1>2, <1>8, <2>1, LeavesRun
  <1>10. catcher \in 1..m
    <2>1. p \in 2..Len(t) /\ \A f \in Chain(t)[p] : f \in 2..p
      BY <1>5, GoodFacts
    <2> QED
      BY <1>1, <1>5, <2>1
  <1>11. mode' = "unwind" /\ catcher' # 2 => stack'[catcher'].goal[1] = "catch"
    BY <1>1, <1>2, <1>7, <1>10 DEF CInv
  <1> QED
    BY <1>1, <1>8, <1>9, <1>11, SafeOn

LEMMA Recover_Safe ==
  ASSUME IInv, CInv, Recover
  PROVE  CInv'
  <1> DEFINE e == Oldest(FR)
             t == SubSeq(stack, 1, FR)
             fs == DiscardedAfter(FR, FR)
  <1>1. /\ \E g : EnterGoal(log, t, e, g, FR, 3)
        /\ fs = LiveIn(stack, FR, BFR) \ LiveIn(t, FR, e)
        /\ LiveIn(t, FR, e) \subseteq LiveIn(stack, FR, BFR)
        /\ Whole(t, FR, e) /\ FR # 2 /\ FR = catcher
        /\ Len(t) = FR /\ \A a \in 1..FR : t[a] = stack[a]
        /\ \A g \in 0..FR : Chain(t)[g] = Chain(stack)[g]
        /\ FR \in 3..Len(stack)
    BY Recovered
  <1>2. mode = "unwind" /\ mode # "closed" /\ marked' = marked
        /\ cleaned' = cleaned + Cardinality({f \in fs : Armed(f)})
    BY DEF Recover
  <1>3. Good(stack, FR, BFR) /\ Safe(stack, FR, BFR) /\ Len(stack) \in Nat /\ HandlerFrame(stack, FR)
    BY <1>2, Running, Handled
  <1>4. ~IsCleanup(stack, FR) /\ ~ArmedIn(stack, FR) /\ ~Ran(stack, FR)
    <2>1. stack[FR].goal[1] = "catch"
      BY <1>1, <1>2 DEF CInv
    <2>2. ~IsCleanup(stack, FR)
      BY <2>1 DEF IsCleanup
    <2> QED
      BY <1>3, <2>2, NoHandler
  <1>5. \A f \in Nat : f < FR /\ f + 1 \in Chain(stack)[BFR] => f + 1 \in Chain(stack)[e]
    BY <1>2, OldestKept
  <1> HIDE DEF e, t, fs
  <1>6. Good(t, FR, e) /\ FR \in 1..FR /\ FR <= Len(stack)
    BY <1>1, <1>3 DEF Whole
  <1>7. \A f \in LiveIn(t, FR, e) :
          ArmedIn(stack, f) /\ f + 1 \in Chain(stack)[BFR] /\ stack[f + 1].frame = f => f + 1 \in Chain(stack)[e]
    <2>1. \A f \in LiveIn(t, FR, e) : f \in Nat /\ (f = FR \/ f < FR)
      <3>1. LiveIn(t, FR, e) \subseteq 3..Len(t)
        BY <1>6, GoodFacts
      <3> QED
        BY <1>1, <3>1
    <2> QED
      BY <1>4, <1>5, <2>1
  <1>8. /\ Safe(t, FR, e) /\ AllArmed(t, LiveIn(t, FR, e)) = AllArmed(stack, LiveIn(t, FR, e))
        /\ Ran(t, FR) <=> Ran(stack, FR)
        /\ IsCleanup(t, FR) <=> IsCleanup(stack, FR)
    BY <1>1, <1>3, <1>6, <1>7, SafeShrink
  <1>9. marked' \in Int /\ cleaned' \in Int /\ marked' - cleaned' = Cardinality(AllArmed(t, LiveIn(t, FR, e)))
    BY <1>1, <1>2, <1>8, LeavesRun
  <1>10. PICK g : EnterGoal(log, t, e, g, FR, 3)
    BY <1>1
  <1> QED
    BY <1>1, <1>4, <1>8, <1>9, <1>10, EnteredSafe

(* What is left of the handlers when the machine failed back *)
LEMMA BackSafe ==
  ASSUME IInv, CInv, mode = "fail", BFR # 1
  PROVE  LET g == stack[BFR].frame
             p == stack[BFR].parent
             t == SubSeq(stack, 1, BFR - 1)
         IN  /\ Handlers(t)
             /\ \A f \in LiveIn(t, g, p) : f # g => GuardedAt(t, f, p)
             /\ \A h \in Chain(t)[g] : h # g => ~Ran(t, h)
             /\ \A f \in 1..(BFR - 1) : /\ ArmedIn(t, f) <=> ArmedIn(stack, f)
                                        /\ Ran(t, f) <=> Ran(stack, f)
                                        /\ IsCleanup(t, f) <=> IsCleanup(stack, f)
             /\ IsCleanup(stack, g) => stack[BFR].kind = "CHP_CATCH" /\ BFR = g + 1
             /\ HandlerFrame(stack, g)
  <1> DEFINE g == stack[BFR].frame
             p == stack[BFR].parent
             t == SubSeq(stack, 1, BFR - 1)
             m == BFR - 1
  <1>1. /\ Whole(t, g, p) /\ LiveIn(t, g, p) \subseteq LiveIn(stack, FR, BFR)
        /\ g \in 3..(BFR - 1) /\ p \in 1..(BFR - 1) /\ IsF(t, g) /\ g \in LiveIn(t, g, p)
        /\ IsC(stack, BFR)
        /\ Len(t) = BFR - 1 /\ BFR \in 1..Len(stack) /\ Len(stack) \in Nat
        /\ \A a \in 1..(BFR - 1) : t[a] = stack[a]
        /\ Chain(stack)[BFR] = {BFR} \cup Chain(stack)[p]
        /\ \A a \in 0..(BFR - 1) : Chain(t)[a] = Chain(stack)[a]
    BY FailedBack
  <1>2. Handlers(stack) /\ Guarded(stack, FR, BFR) /\ Linked(stack)
    BY Handled
  <1>3. HandlerChoice(stack, BFR)
    BY <1>1, <1>2 DEF Handlers
  <1>a. stack[BFR].frame = g
    OBVIOUS
  <1> HIDE DEF g, p, t
  <1>4. Good(t, g, p)
    BY <1>1 DEF Whole
  <1>5. m \in Nat /\ m >= 2 /\ m <= Len(stack) /\ m <= Len(t) /\ Len(t) \in Nat /\ LiveIn(t, g, p) \subseteq 3..m
        /\ Older(t) /\ Older(stack) /\ m = Len(t)
    <2>1. Len(t) >= 2 /\ LiveIn(t, g, p) \subseteq 3..Len(t) /\ Older(t)
      BY <1>4, GoodFacts
    <2>2. Older(stack)
      BY <1>2 DEF Linked
    <2> QED
      BY <1>1, <2>1, <2>2
  <1>6. \A f \in 1..(BFR - 1) : /\ ArmedIn(t, f) <=> ArmedIn(stack, f)
                                /\ Ran(t, f) <=> Ran(stack, f)
                                /\ IsCleanup(t, f) <=> IsCleanup(stack, f)
    BY <1>1 DEF ArmedIn, Ran, IsCleanup
  <1>7. Handlers(t)
    <2>1. Alike(stack, t, m)
      BY <1>1 DEF Alike, AlikeFrame
    <2>2. \A a \in 1..Len(t) : ~(a > m)
      BY <1>5
    <2> HIDE DEF m
    <2> QED
      BY <1>2, <1>5, <2>1, <2>2, HandlersKept
  <1>8. ASSUME NEW f \in LiveIn(t, g, p)
        PROVE  /\ f # g => GuardedAt(t, f, p)
               /\ \A h \in Chain(t)[f] : h # f => ~Ran(t, h)
    <2>1. GuardedAt(stack, f, BFR)
      BY <1>1, <1>2 DEF Guarded
    <2>2. f \in 1..m /\ f \in 0..m /\ p \in 0..m
      BY <1>1, <1>5
    <2>3. Chain(t)[f] = Chain(stack)[f] /\ Chain(t)[p] = Chain(stack)[p]
      BY <1>1, <2>2
    <2>4. \A h \in Chain(t)[f] : h \in 1..m
      <3>1. f \in 0..Len(t)
        BY <1>5, <2>2
      <3>2. Chain(t)[f] \subseteq 1..f
        BY <1>5, <3>1, ChainShape
      <3> QED
        BY <1>5, <2>2, <3>2
    <2>5. \A h \in Chain(t)[f] : h # f => ~Ran(t, h)
      BY <1>6, <2>1, <2>3, <2>4 DEF GuardedAt
    <2>6. ASSUME f # g, ArmedIn(t, f) PROVE f + 1 \in Chain(t)[p] /\ t[f + 1].frame = f
      <3>1. f + 1 \in Chain(stack)[BFR] /\ stack[f + 1].frame = f
        BY <1>6, <2>1, <2>2, <2>6 DEF GuardedAt
      <3>2. f + 1 # BFR
        BY <1>a, <2>6, <3>1
      <3>3. f + 1 \in Chain(t)[p]
        BY <1>1, <2>3, <3>1, <3>2
      <3>4. f + 1 \in 1..m
        <4>1. p \in 0..Len(t)
          BY <1>5, <2>2
        <4>2. Chain(t)[p] \subseteq 1..p
          BY <1>5, <4>1, ChainShape
        <4> QED
          BY <1>5, <2>2, <3>3, <4>2
      <3> QED
        BY <1>1, <3>1, <3>3, <3>4
    <2> QED
      BY <2>5, <2>6 DEF GuardedAt
  <1>9. IsCleanup(stack, g) => stack[BFR].kind = "CHP_CATCH" /\ BFR = g + 1
    BY <1>3, <1>a DEF HandlerChoice
  <1>10. HandlerFrame(stack, g)
    <2>1. g \in 1..Len(stack) /\ IsF(stack, g)
      BY <1>1 DEF IsF
    <2> QED
      BY <1>2, <2>1 DEF Handlers
  <1> QED
    BY <1>1, <1>6, <1>7, <1>8, <1>9, <1>10 DEF g, p, t

LEMMA BacktrackJump_Safe ==
  ASSUME IInv, CInv, BacktrackJump
  PROVE  CInv'
  <1> DEFINE g == stack[BFR].frame
             p == stack[BFR].parent
             t == SubSeq(stack, 1, BFR - 1)
  <1>1. mode = "fail" /\ stack[BFR].kind = "CHP_JUMP" /\ LeaveFrames(Leaving)
        /\ FR' = g /\ BFR' = p /\ stack' = UpTo(BFR) /\ mode' = "run"
    BY DEF BacktrackJump
  <1>2. BFR # 1
    BY <1>1, Running DEF Whole, Cells
  <1>3. /\ UpTo(BFR) = t
        /\ Whole(t, g, p) /\ LiveIn(t, g, p) \subseteq LiveIn(stack, FR, BFR)
        /\ Leaving = LiveIn(stack, FR, BFR) \ LiveIn(t, g, p)
        /\ g \in 3..(BFR - 1) /\ BFR \in 1..Len(stack) /\ Len(t) = BFR - 1
    BY <1>1, <1>2, FailedBack
  <1>4. /\ Handlers(t)
        /\ \A f \in LiveIn(t, g, p) : f # g => GuardedAt(t, f, p)
        /\ \A h \in Chain(t)[g] : h # g => ~Ran(t, h)
        /\ \A f \in 1..(BFR - 1) : /\ ArmedIn(t, f) <=> ArmedIn(stack, f)
                                   /\ Ran(t, f) <=> Ran(stack, f)
                                   /\ IsCleanup(t, f) <=> IsCleanup(stack, f)
        /\ IsCleanup(stack, g) => stack[BFR].kind = "CHP_CATCH" /\ BFR = g + 1
        /\ HandlerFrame(stack, g)
    BY <1>1, <1>2, BackSafe
  <1>a. mode # "closed"
    BY <1>1
  <1> HIDE DEF g, p, t
  <1>5. ~IsCleanup(stack, g) /\ ~ArmedIn(stack, g)
    BY <1>1, <1>4, NoHandler
  <1>6. g \in 1..(BFR - 1)
    BY <1>3
  <1>7. ~IsCleanup(t, g) /\ ~ArmedIn(t, g)
    BY <1>4, <1>5, <1>6
  <1>8. GuardedAt(t, g, p)
    BY <1>4, <1>7 DEF GuardedAt
  <1>9. Safe(t, g, p)
    BY <1>4, <1>8 DEF Safe, Guarded
  <1>10. AllArmed(t, LiveIn(t, g, p)) = AllArmed(stack, LiveIn(t, g, p))
    <2>1. LiveIn(t, g, p) \subseteq 3..Len(t)
      BY <1>3, GoodFacts DEF Whole
    <2>2. \A f \in LiveIn(t, g, p) : f \in 1..(BFR - 1)
      BY <1>3, <2>1
    <2>3. \A f \in LiveIn(t, g, p) : ArmedIn(t, f) <=> ArmedIn(stack, f)
      BY <1>4, <2>2
    <2> QED
      BY <2>3 DEF AllArmed
  <1>11. marked' \in Int /\ cleaned' \in Int /\ marked' - cleaned' = Cardinality(AllArmed(t, LiveIn(t, g, p)))
    <2>1. marked' = marked /\ cleaned' = cleaned + Cardinality({f \in Leaving : Armed(f)})
      BY <1>1 DEF LeaveFrames
    <2> QED
      BY <1>a, <1>3, <1>10, <2>1, LeavesRun
  <1> QED
    BY <1>1, <1>3, <1>7, <1>9, <1>11, SafeOn

LEMMA BacktrackClause_Safe ==
  ASSUME IInv, CInv, BacktrackClause
  PROVE  CInv'
  <1> DEFINE f == stack[BFR].frame
             p == stack[BFR].parent
             t == stack'
  <1>1. /\ f = BFR - 1 /\ f \in 3..Len(stack) /\ BFR \in 4..Len(stack) /\ p \in 1..f
        /\ FR' = f /\ mode' = "run" /\ mode = "fail"
        /\ Whole(t, f, BFR')
        /\ LiveIn(t, f, BFR') \subseteq LiveIn(stack, FR, BFR)
        /\ Leaving = LiveIn(stack, FR, BFR) \ LiveIn(t, f, BFR')
        /\ LeaveFrames(Leaving)
        /\ Len(t) \in Nat /\ Len(t) >= f
        /\ \A a \in 1..(f - 1) : t[a] = stack[a]
        /\ t[f].flags = stack[f].flags /\ t[f].goal = stack[f].goal
        /\ t[f].programPointer = stack[f].programPointer /\ t[f].parent = stack[f].parent
        /\ t[f].kind = "frame"
        /\ \A a \in 1..Len(t) : a > f => t[a].kind = "CHP_CLAUSE" /\ t[a].frame = f /\ a = f + 1
        /\ \A g \in 0..f : Chain(t)[g] = Chain(stack)[g]
        /\ Chain(stack)[BFR] = {BFR} \cup Chain(stack)[p]
        /\ Chain(t)[BFR'] = Chain(stack)[p] \/ Chain(t)[BFR'] = {f + 1} \cup Chain(stack)[p]
    BY NextClause
  <1>2. Good(stack, FR, BFR) /\ Handlers(stack) /\ Guarded(stack, FR, BFR) /\ Linked(stack) /\ Older(stack)
        /\ Len(stack) \in Nat
    BY <1>1, Running, Handled DEF Linked
  <1>3. stack[BFR].kind = "CHP_CLAUSE" /\ IsC(stack, BFR) /\ BFR \in 1..Len(stack) /\ IsF(stack, f)
    <2>1. IsC(stack, BFR)
      BY <1>2 DEF Good
    <2>2. IsF(stack, f)
      BY <1>2, <2>1 DEF Linked, IsC
    <2> QED
      BY <1>1, <2>1, <2>2 DEF BacktrackClause
  <1>4. ~IsCleanup(stack, f)
    BY <1>2, <1>3 DEF Handlers, HandlerChoice
  <1> HIDE DEF f, p, t
  <1>5. f \in Nat /\ f \in 1..f /\ f - 1 \in Nat /\ \A a \in 1..f : a = f \/ a \in 1..(f - 1)
    BY <1>1
  <1>6. \A a \in 1..f : (ArmedIn(t, a) <=> ArmedIn(stack, a)) /\ (Ran(t, a) <=> Ran(stack, a))
          /\ (IsCleanup(t, a) <=> IsCleanup(stack, a))
    BY <1>1, <1>5 DEF ArmedIn, Ran, IsCleanup
  <1>7. Handlers(t)
    <2>1. Alike(stack, t, f)
      <3>1. ASSUME NEW a \in 1..f
            PROVE  /\ t[a].kind = stack[a].kind
                   /\ IsF(stack, a) => AlikeFrame(stack, t, a)
                   /\ IsC(stack, a) => t[a].frame = stack[a].frame
        <4>1. CASE a = f
          BY <1>1, <1>3, <1>4, <4>1 DEF IsF, IsC, AlikeFrame
        <4>2. CASE a # f
          BY <1>1, <1>5, <4>2 DEF AlikeFrame
        <4> QED
          BY <4>1, <4>2
      <3> QED
        BY <3>1 DEF Alike
    <2>2. ~IsCleanup(t, f)
      BY <1>4, <1>5, <1>6
    <2>3. \A a \in 1..Len(t) : a > f => ~IsF(t, a) /\ HandlerChoice(t, a)
      BY <1>1, <2>2 DEF IsF, HandlerChoice
    <2>4. f >= 2 /\ f <= Len(stack) /\ f <= Len(t)
      BY <1>1
    <2> QED
      BY <1>1, <1>2, <1>5, <2>1, <2>3, <2>4, HandlersKept
  <1>8. \A x \in LiveIn(t, f, BFR') : x \in 1..f /\ x \in 0..f
    <2>1. LiveIn(t, f, BFR') \subseteq 3..Len(t) /\ \A x \in LiveIn(t, f, BFR') : IsF(t, x)
      <3>1. Good(t, f, BFR')
        BY <1>1 DEF Whole
      <3> QED
        BY <3>1, GoodFacts DEF LiveIn
    <2>2. \A x \in 1..Len(t) : x > f => ~IsF(t, x)
      BY <1>1 DEF IsF
    <2> QED
      BY <1>1, <2>1, <2>2
  <1>9. ~ArmedIn(stack, f)
    <2>1. HandlerFrame(stack, f)
      BY <1>2, <1>3 DEF Handlers, IsF
    <2> QED
      BY <1>4, <2>1, NoHandler
  <1>10. ASSUME NEW x \in LiveIn(t, f, BFR')
         PROVE  /\ x \in LiveIn(stack, FR, BFR) /\ Chain(t)[x] = Chain(stack)[x]
                /\ ArmedIn(t, x) => ArmedIn(stack, x)
                /\ ArmedIn(t, x) /\ x + 1 \in Chain(stack)[BFR] /\ stack[x + 1].frame = x =>
                     x + 1 \in Chain(t)[BFR'] /\ t[x + 1].frame = x
                /\ \A h \in Chain(stack)[x] : h # x /\ Ran(t, h) => Ran(stack, h)
    <2>1. x \in 1..f /\ x \in 0..f /\ x \in LiveIn(stack, FR, BFR)
      BY <1>1, <1>8
    <2>2. \A h \in Chain(stack)[x] : h \in 1..f
      <3>1. x \in 0..Len(stack)
        BY <1>1, <2>1
      <3>2. Chain(stack)[x] \subseteq 1..x
        BY <1>2, <3>1, ChainShape
      <3> QED
        BY <1>5, <2>1, <3>2
    <2>3. ASSUME ArmedIn(t, x), x + 1 \in Chain(stack)[BFR], stack[x + 1].frame = x
          PROVE  x + 1 \in Chain(t)[BFR'] /\ t[x + 1].frame = x
      <3>1. x # f
        BY <1>6, <1>9, <2>1, <2>3
      <3>2. x + 1 # BFR
        BY <1>1, <1>5, <2>1, <3>1
      <3>3. x + 1 \in Chain(stack)[p]
        BY <1>1, <2>3, <3>2
      <3>4. x + 1 # f
        BY <1>2, <1>3, <2>3, GoodFacts DEF IsF, IsC
      <3>5. x + 1 \in 1..(f - 1)
        BY <1>5, <2>1, <3>1, <3>4
      <3>6. t[x + 1] = stack[x + 1]
        BY <1>1, <3>5
      <3> QED
        BY <1>1, <2>3, <3>3, <3>6
    <2> QED
      BY <1>1, <1>6, <2>1, <2>2, <2>3
  <1>11. Safe(t, f, BFR')
    BY <1>2, <1>7, <1>10, GuardKept DEF Safe
  <1>12. AllArmed(t, LiveIn(t, f, BFR')) = AllArmed(stack, LiveIn(t, f, BFR'))
    BY <1>6, <1>8 DEF AllArmed
  <1>13. marked' \in Int /\ cleaned' \in Int /\ marked' - cleaned' = Cardinality(AllArmed(t, LiveIn(t, f, BFR')))
    <2>1. marked' = marked /\ cleaned' = cleaned + Cardinality({x \in Leaving : Armed(x)})
      BY <1>1 DEF LeaveFrames
    <2>2. mode # "closed"
      BY <1>1
    <2> QED
      BY <1>1, <1>12, <2>1, <2>2, LeavesRun
  <1>14. ~IsCleanup(t, f)
    BY <1>4, <1>5, <1>6
  <1> QED
    BY <1>1, <1>11, <1>13, <1>14, SafeOn DEF t

LEMMA BacktrackCatch_Safe ==
  ASSUME IInv, CInv, BacktrackCatch
  PROVE  CInv'
  <1> DEFINE g == stack[BFR].frame
             p == stack[BFR].parent
             t == SubSeq(stack, 1, BFR - 1)
             u == stack'
             L == LiveIn(t, g, p) \ {g}
             fs == Leaving \cup {g}
  <1>1. /\ FR' = g /\ BFR' = p /\ mode' = "fail" /\ mode = "fail" /\ BFR # 1
        /\ g \in 3..(BFR - 1)
        /\ Whole(u, g, p) /\ LiveIn(u, g, p) = LiveIn(t, g, p)
        /\ \A a \in 0..(BFR - 1) : Chain(u)[a] = Chain(stack)[a]
        /\ \A a \in 1..(BFR - 1) : a # g => u[a] = stack[a]
        /\ u[g].flags = stack[g].flags \cup {"FR_CATCHED"} /\ u[g].goal = stack[g].goal
        /\ u[g].programPointer = stack[g].programPointer /\ u[g].clause = stack[g].clause
        /\ u[g].parent = stack[g].parent /\ u[g].kind = "frame"
        /\ Len(u) = BFR - 1
    BY CatchFailed
  <1>2. /\ Whole(t, g, p) /\ LiveIn(t, g, p) \subseteq LiveIn(stack, FR, BFR)
        /\ Leaving = LiveIn(stack, FR, BFR) \ LiveIn(t, g, p)
        /\ IsF(t, g) /\ g \in LiveIn(t, g, p)
        /\ Len(t) = BFR - 1 /\ BFR \in 1..Len(stack) /\ Len(stack) \in Nat
        /\ \A a \in 1..(BFR - 1) : t[a] = stack[a]
        /\ \A a \in 0..(BFR - 1) : Chain(t)[a] = Chain(stack)[a]
    BY <1>1, FailedBack
  <1>3. /\ Handlers(t)
        /\ \A f \in LiveIn(t, g, p) : f # g => GuardedAt(t, f, p)
        /\ \A h \in Chain(t)[g] : h # g => ~Ran(t, h)
        /\ \A f \in 1..(BFR - 1) : ArmedIn(t, f) <=> ArmedIn(stack, f)
        /\ IsCleanup(stack, g) => BFR = g + 1
        /\ HandlerFrame(stack, g)
    BY <1>1, BackSafe
  <1>4. marked' = marked /\ cleaned' = cleaned + Cardinality({f \in fs : Armed(f)}) /\ mode # "closed"
    BY <1>1 DEF BacktrackCatch
  <1> HIDE DEF g, p, t, u, fs
  <1>5. fs = LiveIn(stack, FR, BFR) \ L /\ L \subseteq LiveIn(stack, FR, BFR)
    BY <1>2 DEF fs
  <1>6. Good(t, g, p) /\ Good(u, g, p) /\ Len(u) = Len(t) /\ g # 2 /\ g \in 1..(BFR - 1) /\ t[g].kind = "frame"
    BY <1>1, <1>2 DEF Whole, IsF
  <1>7. /\ \A h \in 0..Len(t) : Chain(u)[h] = Chain(t)[h]
        /\ \A a \in 1..Len(t) : a # g => u[a] = t[a]
    BY <1>1, <1>2
  <1>8. t[g] = stack[g]
    BY <1>2, <1>6
  <1>9. u[g].flags = t[g].flags \cup {"FR_CATCHED"} /\ AlikeFrame(t, u, g) /\ u[g].kind = t[g].kind
    BY <1>1, <1>6, <1>8 DEF AlikeFrame
  <1>10. LiveIn(t, g, p) \subseteq 3..(BFR - 1)
    BY <1>2, <1>6, GoodFacts
  <1>11. "FR_CLEANUP" \in t[g].flags => \A f \in LiveIn(t, g, p) : f <= g
    <2>1. "FR_CLEANUP" \in t[g].flags => BFR = g + 1
      BY <1>3, <1>8 DEF HandlerFrame
    <2> QED
      BY <1>1, <1>2, <1>10, <2>1
  <1>12. /\ Safe(u, g, p)
         /\ AllArmed(u, LiveIn(u, g, p)) = AllArmed(t, LiveIn(t, g, p) \ {g})
    <2>1. LiveIn(u, g, p) = LiveIn(t, g, p)
      BY <1>1
    <2>2. Handlers(t) /\ (\A f \in LiveIn(t, g, p) : f # g => GuardedAt(t, f, p))
          /\ (\A h \in Chain(t)[g] : h # g => ~Ran(t, h))
      BY <1>3
    <2>3. CaughtIn(t, u, g, p)
      BY <2>1, <2>2, <1>6, <1>7, <1>9, <1>11 DEF CaughtIn
    <2> QED
      BY <2>3, SafeCaughtIn
  <1>13. AllArmed(t, LiveIn(t, g, p) \ {g}) = AllArmed(stack, L)
    <2>1. \A f \in LiveIn(t, g, p) : ArmedIn(t, f) <=> ArmedIn(stack, f)
      <3>1. \A f \in LiveIn(t, g, p) : f \in 1..(BFR - 1)
        BY <1>2, <1>10
      <3> QED
        BY <1>3, <3>1
    <2> QED
      BY <2>1 DEF AllArmed
  <1> HIDE DEF L
  <1>14. marked' \in Int /\ cleaned' \in Int /\ marked' - cleaned' = Cardinality(AllArmed(u, LiveIn(u, g, p)))
    BY <1>4, <1>5, <1>12, <1>13, HandlerRuns
  <1> QED
    BY <1>1, <1>12, <1>14, SafeOn DEF u

LEMMA BacktrackTop_Safe ==
  ASSUME IInv, CInv, BacktrackTop
  PROVE  CInv'
  <1> DEFINE t == SubSeq(stack, 1, 2)
  <1>1. mode = "fail" /\ BFR = 1 /\ BFR' = 1 /\ FR' = 2 /\ mode' = "done" /\ stack' = t /\ LeaveFrames(Leaving)
    BY DEF BacktrackTop, Top, TopFR, QueryFR, UpTo
  <1>2. Whole(stack, FR, BFR) /\ Good(stack, FR, BFR) /\ Safe(stack, FR, BFR) /\ Len(stack) \in Nat
    BY <1>1, Running, Handled
  <1>3. Whole(stack, 2, 1) /\ LiveIn(stack, 2, 1) = {} /\ Leaving = LiveIn(stack, FR, BFR) \ {}
    BY <1>1, <1>2, AtTheQuery DEF Leaving, FrameChain, TopFR
  <1>4. Len(stack) >= 2
    BY <1>2, GoodFacts
  <1>5. Whole(t, 2, 1) /\ LiveIn(t, 2, 1) = {}
    BY <1>2, <1>3, <1>4, WholeUpTo
  <1>6. Len(t) = 2 /\ \A a \in 1..2 : t[a] = stack[a]
    BY <1>2, <1>4
  <1>7. Good(t, 2, 1)
    BY <1>5 DEF Whole
  <1>8. \A h \in 0..2 : Chain(t)[h] = Chain(stack)[h]
    <2>1. Older(t) /\ Older(stack)
      BY <1>2, <1>7 DEF Good, Linked
    <2> HIDE DEF t
    <2>2. \A a \in 1..2 : t[a].parent = stack[a].parent
      BY <1>6
    <2> SUFFICES ASSUME NEW h \in 0..2
                 PROVE  Chain(t)[h] = Chain(stack)[h]
      OBVIOUS
    <2>3. h \in 0..Len(stack)
      BY <1>2, <1>4
    <2>4. Chain(stack)[h] \subseteq 1..h
      BY <2>1, <2>3, ChainShape
    <2>5. \A a \in Chain(stack)[h] : a \in 1..2
      BY <2>4
    <2>6. \A a \in Chain(stack)[h] : a \in 1..Len(t) /\ t[a].parent = stack[a].parent
      BY <1>6, <2>2, <2>5
    <2> QED
      BY <2>1, <2>3, <2>6, ChainAgrees
  <1> HIDE DEF t
  <1>9. Safe(t, 2, 1)
    BY <1>2, <1>4, <1>5, <1>6, <1>7, <1>8, SafeShrink
  <1>10. AllArmed(t, {}) = AllArmed(stack, {})
    BY DEF AllArmed
  <1>11. marked' \in Int /\ cleaned' \in Int /\ marked' - cleaned' = Cardinality(AllArmed(t, {}))
    <2>1. marked' = marked /\ cleaned' = cleaned + Cardinality({f \in Leaving : Armed(f)})
      BY <1>1 DEF LeaveFrames
    <2>2. mode # "closed"
      BY <1>1
    <2> QED
      BY <1>3, <1>10, <2>1, <2>2, LeavesRun
  <1> QED
    BY <1>1, <1>5, <1>9, <1>11, SafeOn

LEMMA OpenQuery_Safe ==
  ASSUME IInv, CInv, OpenQuery
  PROVE  CInv'
  <1> DEFINE t == <<Choice("CHP_TOP", TopFR, 0, 0), Frame(<<"query">>, NoClause, 0, 0)>>
  <1>1. Whole(t, 2, 1) /\ LiveIn(t, 2, 1) = {} /\ Len(t) = 2
    BY QueryCells
  <1>2. EnterGoal(<<>>, t, 1, Goal, 2, 0) /\ marked' = 0 /\ cleaned' = 0
    BY DEF OpenQuery, Top, TopFR
  <1>3. t[1].kind = "CHP_TOP" /\ t[1].frame = 2
    BY DEF Choice, TopFR
  <1>4. t[2].kind = "frame" /\ t[2].parent = 0 /\ t[2].goal = <<"query">> /\ t[2].flags = {}
    BY DEF Frame
  <1> HIDE DEF t
  <1>5. ~IsCleanup(t, 2) /\ ~Ran(t, 2)
    BY <1>4 DEF IsCleanup, Ran
  <1>6. Handlers(t)
    <2>1. \A a \in 1..Len(t) : a = 1 \/ a = 2
      BY <1>1
    <2>2. HandlerFrame(t, 2)
      BY <1>4, <1>5 DEF HandlerFrame
    <2>3. HandlerChoice(t, 1)
      BY <1>3, <1>5 DEF HandlerChoice
    <2> QED
      BY <1>3, <1>4, <2>1, <2>2, <2>3 DEF Handlers, IsF, IsC
  <1>7. Safe(t, 2, 1)
    BY <1>1, <1>6 DEF Safe, Guarded
  <1>8. Cardinality(AllArmed(t, {})) = 0
    <2>1. AllArmed(t, {}) = {}
      BY DEF AllArmed
    <2> QED
      BY <2>1, FS_EmptySet
  <1>9. marked' \in Int /\ cleaned' \in Int /\ marked' - cleaned' = Cardinality(AllArmed(t, LiveIn(t, 2, 1)))
    <2>1. Cardinality(AllArmed(t, LiveIn(t, 2, 1))) = 0
      BY <1>1, <1>8
    <2>2. marked' = 0 /\ cleaned' = 0
      BY <1>2
    <2> QED
      BY <2>1, <2>2
  <1>10. Whole(t, 2, 1) /\ (2 # 2 \/ Len(t) = 2) /\ (IsCleanup(t, 2) => 0 = 2)
    BY <1>1, <1>5
  <1> QED
    BY <1>2, <1>5, <1>7, <1>9, <1>10, EnteredSafe

LEMMA NextSolution_Safe ==
  ASSUME IInv, CInv, NextSolution
  PROVE  CInv'
  <1>1. mode = "solution" /\ mode' = "fail" /\ FR' = 3 /\ stack' = stack /\ BFR' = BFR
        /\ marked' = marked /\ cleaned' = cleaned
    BY DEF NextSolution, QueryFR, counts
  <1>2. LiveIn(stack, 3, BFR) = LiveIn(stack, FR, BFR)
    BY <1>1, AtTheGoal
  <1>3. /\ Handlers(stack) /\ Guarded(stack, FR, BFR) /\ marked \in Int /\ cleaned \in Int
        /\ marked - cleaned = Cardinality(AllArmed(stack, LiveIn(stack, FR, BFR)))
    BY <1>1, Handled
  <1>4. Safe(stack, 3, BFR)
    BY <1>2, <1>3 DEF Safe, Guarded
  <1> QED
    BY <1>1, <1>2, <1>3, <1>4, SafeOn

(* No handler is left behind by the end of a query. *)
LEMMA CloseQuery_Safe ==
  ASSUME IInv, CInv, CloseQuery
  PROVE  CInv'
  <1> DEFINE fs == IF mode = "solution" THEN DiscardedAfter(QueryFR, QueryFR) \cup {QueryFR} ELSE {}
  <1>1. cleaned' = cleaned + Cardinality({f \in fs : Armed(f)}) /\ marked' = marked
        /\ mode' = "closed" /\ mode # "closed"
    BY DEF CloseQuery
  <1>2. fs = LiveIn(stack, FR, BFR)
    BY QueryClosed
  <1> HIDE DEF fs
  <1>3. fs = LiveIn(stack, FR, BFR) \ {} /\ {} \subseteq LiveIn(stack, FR, BFR)
    BY <1>2
  <1>4. marked' \in Int /\ cleaned' \in Int /\ marked' - cleaned' = Cardinality(AllArmed(stack, {}))
    BY <1>1, <1>3, LeavesRun
  <1>5. Cardinality(AllArmed(stack, {})) = 0
    <2>1. AllArmed(stack, {}) = {}
      BY DEF AllArmed
    <2> QED
      BY <2>1, FS_EmptySet
  <1>6. marked' = cleaned'
    BY <1>4, <1>5
  <1> QED
    BY <1>1, <1>4, <1>6 DEF CInv

LEMMA CleanupInit ==
  ASSUME Init
  PROVE  CInv
  <1>1. mode = "closed" /\ marked = 0 /\ cleaned = 0
    BY DEF Init
  <1> QED
    BY <1>1 DEF CInv

(* Every step of a machine whose code fits keeps the invariant of the cleanup *)
(* handlers.                                                                  *)
LEMMA CleanupNext ==
  ASSUME IInv, CInv, CodeFits, [Next]_vars
  PROVE  CInv'
  <1>0. ChoicesKnown /\ (I_CALLCLEANUP => stack[FR].goal[1] = "cleanup")
    BY DEF CodeFits, I_CALLCLEANUP
  <1>1. ASSUME I_CALL \/ I_USERCALL0 PROVE CInv'
    BY <1>1, I_CALL_Safe
  <1>2. ASSUME I_DEPART PROVE CInv'
    BY <1>2, I_DEPART_Safe
  <1>3. ASSUME I_EXIT \/ I_EXITQUERY \/ Uncaught \/ I_EXITCATCH PROVE CInv'
    BY <1>3, I_EXIT_Safe, I_EXITQUERY_Safe, I_EXITCATCH_Safe
  <1>4. ASSUME I_CUT \/ C_CUT \/ C_LCUT \/ C_LSCUT PROVE CInv'
    BY <1>0, <1>4, I_CUT_Safe, C_CUT_Safe, C_LCUT_Safe, C_LSCUT_Safe
  <1>5. ASSUME C_JMP \/ Nothing \/ C_FAIL PROVE CInv'
    BY <1>5, Nothing_Safe
  <1>6. ASSUME C_OR \/ C_IFTHENELSE \/ C_SOFTIF \/ C_IFTHEN PROVE CInv'
    BY <1>6, C_OR_Safe, C_IFTHENELSE_Safe, C_IFTHEN_Safe
  <1>7. ASSUME C_SOFTCUT PROVE CInv'
    BY <1>0, <1>7, C_SOFTCUT_Safe
  <1>8. ASSUME I_CATCH \/ I_CALLCLEANUP \/ I_EXITCLEANUP PROVE CInv'
    BY <1>0, <1>8, I_CATCH_Safe, I_CALLCLEANUP_Safe, I_EXITCLEANUP_Safe
  <1>9. ASSUME B_THROW \/ Unwind \/ Recover PROVE CInv'
    BY <1>9, B_THROW_Safe, Unwind_Safe, Recover_Safe
  <1>10. ASSUME BacktrackJump \/ BacktrackClause \/ BacktrackCatch \/ BacktrackTop PROVE CInv'
    BY <1>10, BacktrackJump_Safe, BacktrackClause_Safe, BacktrackCatch_Safe, BacktrackTop_Safe
  <1>11. ASSUME OpenQuery \/ NextSolution \/ CloseQuery PROVE CInv'
    BY <1>11, OpenQuery_Safe, NextSolution_Safe, CloseQuery_Safe
  <1>12. CASE UNCHANGED vars
    BY <1>12 DEF vars, regs, counts, CInv, IsCleanup
  <1> QED
    BY <1>1, <1>2, <1>3, <1>4, <1>5, <1>6, <1>7, <1>8, <1>9, <1>10, <1>11, <1>12 DEF Next, Machine

LEMMA CleanupHolds ==
  ASSUME IInv, CInv
  PROVE  CleanupOnce
  <1>1. Live = LiveIn(stack, FR, BFR)
    BY DEF Live, LiveIn, FrameChain, ChoiceChain, FramesOf, TopFR
  <1>2. {f \in Live : Armed(f)} = AllArmed(stack, LiveIn(stack, FR, BFR))
    BY <1>1 DEF AllArmed, Armed, ArmedIn
  <1>3. CASE mode = "closed"
    <2>1. Chain(stack)[FR] = {} /\ Chain(stack)[BFR] = {} /\ marked = cleaned /\ marked \in Int
      BY <1>3, NoChains DEF IInv, CInv
    <2>2. Live = {}
      BY <2>1 DEF Live, FrameChain, ChoiceChain
    <2>3. {f \in Live : Armed(f)} = {}
      BY <2>2
    <2>4. marked - cleaned = Cardinality({f \in Live : Armed(f)})
      BY <2>1, <2>3, FS_EmptySet
    <2> QED
      BY <2>2, <2>4 DEF CleanupOnce
  <1>4. CASE mode # "closed"
    <2>1. Guarded(stack, FR, BFR) /\ marked - cleaned = Cardinality(AllArmed(stack, LiveIn(stack, FR, BFR)))
      BY <1>4, Handled
    <2>2. \A f \in Live : \A g \in FrameChain(f) \ {f} : ~Ran(stack, g)
      BY <1>1, <2>1 DEF Guarded, GuardedAt, FrameChain
    <2> QED
      BY <1>2, <2>1, <2>2 DEF CleanupOnce, Ran
  <1> QED
    BY <1>3, <1>4

(* The handler of setup_call_cleanup/3 runs once, whichever of exit, cut,    *)
(* failure, exception and the end of the query comes first: those that were  *)
(* armed and did not run yet are those of frames in use, and once one ran    *)
(* nothing of its goal is left to run or to be backtracked into.             *)
THEOREM CleanupHappensOnce == Spec /\ []CodeFits => []CleanupOnce
  <1>1. Init => IInv /\ CInv
    BY InvInit, CleanupInit
  <1>2. IInv /\ CInv /\ CodeFits /\ [Next]_vars => (IInv /\ CInv)'
    BY InvNext, CleanupNext DEF CodeFits
  <1>3. IInv /\ CInv => CleanupOnce
    BY CleanupHolds
  <1> QED
    BY <1>1, <1>2, <1>3, PTL DEF Spec

-----------------------------------------------------------------------------
(* Code that passes the check: what a cell says of where its frame goes on. *)

(* The cell a leads back into a frame of the program. *)
Own(s, a)     == IF s[a].kind = "frame" THEN s[a].parent ELSE s[a].frame
Cont(s, a)    == IF s[a].kind = "frame" THEN s[a].programPointer ELSE s[a].next
Returns(s, a) == s[a].kind \in {"frame", "CHP_JUMP"} /\ Own(s, a) > 2

(* The variables that are set on every way to q are set. *)
Assigned(s, f, q) ==
  \A i \in Codes(s[f].clause) :
    Sets(s[f].clause, i) /\ Through(s[f].clause, i, q) => s[f].variables[Var(s[f].clause, i)] # 0

(* In the condition of a soft-cut the choice point of C_SOFTIF is where it was. *)
JumpBelow(s, a, f, x) == x \in 1..(a - 1) /\ s[x].kind = "CHP_JUMP" /\ s[x].frame = f
Softened(s, a, f, q) ==
  \A i, p \in Codes(s[f].clause) :
    SoftCondition(s[f].clause, i, p) /\ q \in (i + 1)..p =>
      JumpBelow(s, a, f, s[f].variables[Var(s[f].clause, i)])

(* Before it nothing leads back into it. *)
Unsoftened(s, a, f, q) ==
  \A i, p \in Codes(s[f].clause) :
    SoftCondition(s[f].clause, i, p) /\ q <= i =>
      \A b \in 1..(a - 1) : Returns(s, b) /\ Own(s, b) = f => Cont(s, b) \notin (i + 1)..p

(* What is above the frame returns to no older one. *)
Above(s, a, f) == \A b \in (f + 1)..(a - 1) : Returns(s, b) => Own(s, b) >= f

(* The frame f can go on at q when the cells below a are left. *)
Resumable(s, a, f, q) ==
  /\ q \in Codes(s[f].clause)
  /\ Assigned(s, f, q) /\ Softened(s, a, f, q) /\ Unsoftened(s, a, f, q)
  /\ Above(s, a, f)

CallsCatch(clause) ==
  /\ Len(clause.codes) = 3
  /\ clause.codes[1][1] = "I_CATCH" /\ clause.codes[2][1] = "I_EXITCATCH" /\ clause.codes[3][1] = "I_EXIT"

FrameCoded(s, f) ==
  /\ DOMAIN s[f].variables = 1..s[f].clause.variables
  /\ s[f].goal[1] = "catch" => CallsCatch(s[f].clause)

CellCoded(s, a) ==
  /\ s[a].kind = "frame" => FrameCoded(s, a)
  /\ s[a].kind = "CHP_CLAUSE" => s[s[a].frame].goal[1] # "catch"
  /\ Returns(s, a) => Resumable(s, a, Own(s, a), Cont(s, a))

Coded(s) == \A a \in 1..Len(s) : CellCoded(s, a)

KInv ==
  /\ mode # "closed" => Coded(stack)
  /\ mode = "run" => Resumable(stack, Len(stack) + 1, FR, PC)

(* t has what the check is about in the cell a as s has it. *)
AsCoded(s, t, a) ==
  /\ t[a].kind = s[a].kind
  /\ s[a].kind = "frame" => /\ t[a].parent = s[a].parent /\ t[a].programPointer = s[a].programPointer
                            /\ t[a].clause = s[a].clause /\ t[a].variables = s[a].variables
                            /\ t[a].goal = s[a].goal
  /\ s[a].kind # "frame" => t[a].frame = s[a].frame
  /\ s[a].kind = "CHP_JUMP" => t[a].next = s[a].next

LEMMA ReturnsSame ==
  ASSUME NEW s, NEW t, NEW b, AsCoded(s, t, b)
  PROVE  /\ Own(t, b) = Own(s, b) /\ (Returns(t, b) <=> Returns(s, b))
         /\ Returns(s, b) => Cont(t, b) = Cont(s, b)
  BY DEF AsCoded, Own, Cont, Returns

LEMMA ResumableSame ==
  ASSUME NEW s, NEW t, NEW a \in Nat, NEW f \in 1..(a - 1), NEW q, Resumable(s, a, f, q), s[f].kind = "frame",
         \A b \in 1..(a - 1) : AsCoded(s, t, b)
  PROVE  Resumable(t, a, f, q)
  <1>1. t[f].clause = s[f].clause /\ t[f].variables = s[f].variables
    BY DEF AsCoded
  <1>2. \A b \in 1..(a - 1) : /\ Own(t, b) = Own(s, b) /\ (Returns(t, b) <=> Returns(s, b))
                              /\ Returns(s, b) => Cont(t, b) = Cont(s, b)
    BY ReturnsSame
  <1>3. Assigned(t, f, q)
    BY <1>1 DEF Resumable, Assigned
  <1>4. \A x : JumpBelow(s, a, f, x) => JumpBelow(t, a, f, x)
    BY DEF JumpBelow, AsCoded
  <1>5. Softened(t, a, f, q)
    BY <1>1, <1>4 DEF Resumable, Softened
  <1>6. Unsoftened(t, a, f, q)
    BY <1>1, <1>2 DEF Resumable, Unsoftened
  <1>7. Above(t, a, f)
    <2> SUFFICES ASSUME NEW b \in (f + 1)..(a - 1), Returns(t, b) PROVE Own(t, b) >= f
      BY DEF Above
    <2>1. b \in 1..(a - 1)
      OBVIOUS
    <2>2. Returns(s, b) /\ Own(t, b) = Own(s, b)
      BY <1>2, <2>1
    <2>3. Own(s, b) >= f
      BY <2>2 DEF Resumable, Above
    <2> QED
      BY <2>2, <2>3
  <1> QED
    BY <1>1, <1>3, <1>5, <1>6, <1>7 DEF Resumable

(* The cells lead to frames below them. *)
LEMMA OwnBelow ==
  ASSUME NEW s, Linked(s), NEW a \in 1..Len(s), Returns(s, a)
  PROVE  /\ Own(s, a) \in 3..(a - 1) /\ IsF(s, Own(s, a))
         /\ Len(s) \in Nat /\ a \in Nat
  <1>1. Len(s) \in Nat /\ s[a].parent \in 0..(a - 1) /\ a \in Nat
    BY DEF Linked, Older
  <1>2. CASE s[a].kind = "frame"
    <2>1. IsF(s, a) /\ s[a].parent > 2
      BY <1>2 DEF Own, Returns, IsF
    <2>2. IsF(s, s[a].parent)
      BY <1>1, <2>1 DEF Linked
    <2> QED
      BY <1>1, <1>2, <2>1, <2>2 DEF Own
  <1>3. CASE s[a].kind # "frame"
    <2>1. IsC(s, a) /\ s[a].frame > 2
      BY <1>3 DEF Own, Returns, IsC
    <2>2. IsF(s, s[a].frame) /\ (s[a].frame < a \/ a = 1)
      BY <2>1 DEF Linked
    <2>3. a # 1
      BY <1>1, <2>1 DEF Linked
    <2> QED
      BY <1>1, <1>3, <2>1, <2>2, <2>3 DEF Own, IsF
  <1> QED
    BY <1>2, <1>3

(* A prefix of the stack, with other flags or other links between choice points *)
LEMMA CodedSame ==
  ASSUME NEW s, Linked(s), Coded(s), NEW t, NEW m \in Nat, m >= 2, m <= Len(s), m = Len(t),
         \A b \in 1..m : AsCoded(s, t, b)
  PROVE  Coded(t)
  <1> SUFFICES ASSUME NEW a \in 1..m PROVE CellCoded(t, a)
    BY DEF Coded
  <1>1. a \in 1..Len(s) /\ Len(s) \in Nat /\ AsCoded(s, t, a)
    BY DEF Linked, Older
  <1>2. CellCoded(s, a)
    BY <1>1 DEF Coded
  <1>3. t[a].kind = "frame" => FrameCoded(t, a)
    BY <1>1, <1>2 DEF AsCoded, CellCoded, FrameCoded
  <1>4. ASSUME t[a].kind = "CHP_CLAUSE" PROVE t[t[a].frame].goal[1] # "catch"
    <2>1. s[a].kind = "CHP_CLAUSE" /\ t[a].frame = s[a].frame /\ IsC(s, a)
      BY <1>1, <1>4 DEF AsCoded, IsC
    <2>2. IsF(s, s[a].frame) /\ (s[a].frame < a \/ a = 1)
      BY <2>1 DEF Linked
    <2>3. Len(s) >= 2 /\ s[1].frame = 2
      BY DEF Linked
    <2>4. CASE a # 1
      <3>1. s[a].frame \in 1..m
        BY <2>2, <2>4 DEF IsF
      <3>2. t[s[a].frame].goal = s[s[a].frame].goal
        BY <2>2, <3>1 DEF AsCoded, IsF
      <3> QED
        BY <1>2, <2>1, <3>2 DEF CellCoded
    <2>5. CASE a = 1
      <3>1. AsCoded(s, t, 2) /\ IsF(s, 2)
        BY DEF Linked
      <3>2. t[2].goal = s[2].goal
        BY <3>1 DEF AsCoded, IsF
      <3> QED
        BY <1>2, <2>1, <2>3, <2>5, <3>2 DEF CellCoded
    <2> QED
      BY <2>4, <2>5
  <1>5. ASSUME Returns(t, a) PROVE Resumable(t, a, Own(t, a), Cont(t, a))
    <2>1. Returns(s, a) /\ Own(t, a) = Own(s, a) /\ Cont(t, a) = Cont(s, a)
      BY <1>1, <1>5, ReturnsSame
    <2>2. Own(s, a) \in 1..(a - 1) /\ s[Own(s, a)].kind = "frame" /\ a \in Nat
      BY <1>1, <2>1, OwnBelow DEF IsF
    <2>3. Resumable(s, a, Own(s, a), Cont(s, a))
      BY <1>2, <2>1 DEF CellCoded
    <2>4. \A b \in 1..(a - 1) : AsCoded(s, t, b)
      BY <1>1
    <2> QED
      BY <2>1, <2>2, <2>3, <2>4, ResumableSame
  <1> QED
    BY <1>3, <1>4, <1>5 DEF CellCoded

(* One more cell *)
LEMMA CodedPush ==
  ASSUME NEW s, Linked(s), Coded(s), NEW t, NEW n, n = Len(s) + 1, n = Len(t), Linked(t),
         \A b \in 1..Len(s) : t[b] = s[b],
         t[n].kind = "frame" => FrameCoded(t, n),
         t[n].kind = "CHP_CLAUSE" => t[n].frame \in 1..Len(s) /\ s[t[n].frame].goal[1] # "catch",
         Returns(t, n) => Resumable(s, n, Own(t, n), Cont(t, n))
  PROVE  Coded(t)
  <1> SUFFICES ASSUME NEW a \in 1..n PROVE CellCoded(t, a)
    BY DEF Coded
  <1>1. Len(s) \in Nat /\ Len(s) >= 2 /\ n \in Nat
    BY DEF Linked, Older
  <1>2. \A b \in 1..Len(s) : AsCoded(s, t, b)
    BY DEF AsCoded
  <1>3. CASE a \in 1..Len(s)
    <2>1. CellCoded(s, a) /\ t[a] = s[a]
      BY <1>3 DEF Coded
    <2>2. t[a].kind = "frame" => FrameCoded(t, a)
      BY <2>1 DEF CellCoded, FrameCoded
    <2>3. ASSUME t[a].kind = "CHP_CLAUSE" PROVE t[t[a].frame].goal[1] # "catch"
      <3>1. IsC(s, a)
        BY <1>3, <2>1, <2>3 DEF IsC
      <3>2. IsF(s, s[a].frame)
        BY <1>3, <3>1 DEF Linked
      <3>4. s[a].frame \in 1..Len(s)
        BY <3>2 DEF IsF
      <3>3. t[s[a].frame] = s[s[a].frame]
        BY <3>4
      <3> QED
        BY <2>1, <2>3, <3>3 DEF CellCoded
    <2>4. ASSUME Returns(t, a) PROVE Resumable(t, a, Own(t, a), Cont(t, a))
      <3>1. Returns(s, a) /\ Own(t, a) = Own(s, a) /\ Cont(t, a) = Cont(s, a)
        BY <2>1, <2>4 DEF Returns, Own, Cont
      <3>2. Own(s, a) \in 1..(a - 1) /\ s[Own(s, a)].kind = "frame" /\ a \in Nat
        BY <1>3, <3>1, OwnBelow DEF IsF
      <3>3. Resumable(s, a, Own(s, a), Cont(s, a))
        BY <2>1, <3>1 DEF CellCoded
      <3>4. \A b \in 1..(a - 1) : AsCoded(s, t, b)
        BY <1>1, <1>2, <1>3
      <3> QED
        BY <3>1, <3>2, <3>3, <3>4, ResumableSame
    <2> QED
      BY <2>2, <2>3, <2>4 DEF CellCoded
  <1>4. CASE a = n
    <2>1. t[n].kind = "CHP_CLAUSE" => t[t[n].frame].goal[1] # "catch"
      OBVIOUS
    <2>2. ASSUME Returns(t, n) PROVE Resumable(t, n, Own(t, n), Cont(t, n))
      <3>1. Own(t, n) \in 3..(n - 1) /\ IsF(t, Own(t, n))
        BY <1>1, <2>2, OwnBelow
      <3>2. Own(t, n) \in 1..(n - 1) /\ s[Own(t, n)].kind = "frame"
        BY <1>1, <3>1 DEF IsF
      <3>3. \A b \in 1..(n - 1) : AsCoded(s, t, b)
        BY <1>1, <1>2
      <3> QED
        BY <1>1, <2>2, <3>2, <3>3, ResumableSame
    <2> QED
      BY <1>4, <2>1, <2>2 DEF CellCoded
  <1> QED
    BY <1>1, <1>3, <1>4

(* A frame that was entered from the program can be resumed above whatever *)
(* the frames have left that it led to.                                    *)
LEMMA ResumableAbove ==
  ASSUME NEW s, Linked(s), NEW f \in 1..Len(s), Returns(s, f), Resumable(s, f, Own(s, f), Cont(s, f)),
         NEW a \in Nat, f < a, a <= Len(s) + 1, Above(s, a, f), Checked(s[Own(s, f)].clause)
  PROVE  Resumable(s, a, Own(s, f), Cont(s, f))
  <1> DEFINE g == Own(s, f)
             q == Cont(s, f)
             c == s[g].clause
  <1>1. g \in 3..(f - 1) /\ f \in Nat /\ g \in Nat
    BY OwnBelow
  <1>2. q \in Codes(c) /\ Assigned(s, g, q)
    BY DEF Resumable
  <1>3. Softened(s, a, g, q)
    <2>1. \A x : JumpBelow(s, f, g, x) => JumpBelow(s, a, g, x)
      BY <1>1 DEF JumpBelow
    <2> QED
      BY <2>1 DEF Resumable, Softened
  <1>4. Unsoftened(s, a, g, q)
    <2> SUFFICES ASSUME NEW i \in Codes(c), NEW p \in Codes(c), SoftCondition(c, i, p), q <= i,
                        NEW b \in 1..(a - 1), Returns(s, b), Own(s, b) = g
                 PROVE  Cont(s, b) \notin (i + 1)..p
      BY DEF Unsoftened
    <2>1. CASE b < f
      <3>1. b \in 1..(f - 1)
        BY <1>1, <2>1
      <3> QED
        BY <3>1 DEF Resumable, Unsoftened
    <2>2. CASE b = f
      <3>1. i \in Nat /\ q \in Nat
        BY <1>2 DEF Codes, Checked
      <3> QED
        BY <2>2, <3>1
    <2>3. CASE b > f
      <3>1. b \in (f + 1)..(a - 1)
        BY <1>1, <2>3
      <3>2. Own(s, b) >= f
        BY <3>1 DEF Above
      <3> QED
        BY <1>1, <3>2
    <2> QED
      BY <1>1, <2>1, <2>2, <2>3
  <1>5. Above(s, a, g)
    <2> SUFFICES ASSUME NEW b \in (g + 1)..(a - 1), Returns(s, b) PROVE Own(s, b) >= g
      BY DEF Above
    <2>1. CASE b < f
      <3>1. b \in (g + 1)..(f - 1)
        BY <1>1, <2>1
      <3> QED
        BY <3>1 DEF Resumable, Above
    <2>2. CASE b = f
      BY <1>1, <2>2
    <2>3. CASE b > f
      <3>1. b \in (f + 1)..(a - 1)
        BY <1>1, <2>3
      <3>2. Own(s, b) >= f
        BY <3>1 DEF Above
      <3>3. b \in 1..Len(s)
        BY <1>1, <3>1 DEF Linked, Older
      <3>4. Own(s, b) \in Int
        BY <3>3, OwnBelow
      <3> QED
        BY <1>1, <3>2, <3>4
    <2> QED
      BY <1>1, <2>1, <2>2, <2>3
  <1> QED
    BY <1>2, <1>3, <1>4, <1>5 DEF Resumable

(* t has what the check is about in the cell a as s has it, but for variables. *)
AsLinked(s, t, a) ==
  /\ t[a].kind = s[a].kind
  /\ s[a].kind = "frame" => /\ t[a].parent = s[a].parent /\ t[a].programPointer = s[a].programPointer
                            /\ t[a].clause = s[a].clause /\ t[a].goal = s[a].goal
  /\ s[a].kind # "frame" => t[a].frame = s[a].frame
  /\ s[a].kind = "CHP_JUMP" => t[a].next = s[a].next

LEMMA ResumableAnew ==
  ASSUME NEW s, NEW t, NEW a \in Nat, NEW f \in 1..(a - 1), NEW q, Resumable(s, a, f, q), s[f].kind = "frame",
         \A b \in 1..(a - 1) : AsLinked(s, t, b),
         Assigned(t, f, q), Softened(t, a, f, q)
  PROVE  Resumable(t, a, f, q)
  <1>1. t[f].clause = s[f].clause
    BY DEF AsLinked
  <1>2. \A b \in 1..(a - 1) : /\ Own(t, b) = Own(s, b) /\ (Returns(t, b) <=> Returns(s, b))
                              /\ Returns(s, b) => Cont(t, b) = Cont(s, b)
    BY DEF AsLinked, Own, Cont, Returns
  <1>3. Unsoftened(t, a, f, q)
    BY <1>1, <1>2 DEF Resumable, Unsoftened
  <1>4. Above(t, a, f)
    <2> SUFFICES ASSUME NEW b \in (f + 1)..(a - 1), Returns(t, b) PROVE Own(t, b) >= f
      BY DEF Above
    <2>1. b \in 1..(a - 1)
      OBVIOUS
    <2>2. Returns(s, b) /\ Own(t, b) = Own(s, b)
      BY <1>2, <2>1
    <2>3. Own(s, b) >= f
      BY <2>2 DEF Resumable, Above
    <2> QED
      BY <2>2, <2>3
  <1> QED
    BY <1>1, <1>3, <1>4 DEF Resumable

LEMMA VarSetValues ==
  ASSUME NEW s, IsSeq(s), NEW f \in 1..Len(s), DOMAIN s[f] = FrameFields, NEW v, NEW x
  PROVE  LET u == VarSetIn(s, f, v, x)
         IN  /\ DOMAIN u[f].variables = DOMAIN s[f].variables
             /\ v \in DOMAIN s[f].variables => u[f].variables[v] = x
             /\ \A w \in DOMAIN s[f].variables : w # v => u[f].variables[w] = s[f].variables[w]
  BY DEF VarSetIn, IsSeq, FrameFields

(* The instruction p of the frame f sets its variable to x. *)
SetAs(s, u, f, p, x) ==
  /\ x # 0 /\ s[f].kind = "frame" /\ FrameCoded(s, f)
  /\ Checked(s[f].clause) /\ p \in Codes(s[f].clause) /\ Sets(s[f].clause, p)
  /\ AsLinked(s, u, f) /\ DOMAIN u[f].variables = DOMAIN s[f].variables
  /\ u[f].variables[Var(s[f].clause, p)] = x
  /\ \A w \in DOMAIN s[f].variables : w # Var(s[f].clause, p) => u[f].variables[w] = s[f].variables[w]

LEMMA ResumableSet ==
  ASSUME NEW s, NEW u, NEW f, NEW p, NEW x, SetAs(s, u, f, p, x),
         NEW a \in Nat, \A b \in 1..(a - 1) : b # f => u[b] = s[b],
         NEW g \in 1..(a - 1), NEW q, Resumable(s, a, g, q), s[g].kind = "frame",
         g = f => \A k \in Codes(s[f].clause) : SoftCondition(s[f].clause, p, k) => q \notin (p + 1)..k
  PROVE  Resumable(u, a, g, q)
  <1>s. /\ x # 0 /\ s[f].kind = "frame" /\ FrameCoded(s, f)
        /\ Checked(s[f].clause) /\ p \in Codes(s[f].clause) /\ Sets(s[f].clause, p)
        /\ AsLinked(s, u, f) /\ DOMAIN u[f].variables = DOMAIN s[f].variables
        /\ u[f].variables[Var(s[f].clause, p)] = x
        /\ \A w \in DOMAIN s[f].variables : w # Var(s[f].clause, p) => u[f].variables[w] = s[f].variables[w]
    BY DEF SetAs
  <1> DEFINE c == s[f].clause
  <1>1. \A b \in 1..(a - 1) : AsLinked(s, u, b)
    BY <1>s DEF AsLinked
  <1>2. CASE g # f
    <2>1. u[g] = s[g]
      BY <1>s, <1>2
    <2>2. Assigned(u, g, q)
      BY <1>s, <2>1 DEF Resumable, Assigned
    <2>3. \A y : JumpBelow(s, a, g, y) => JumpBelow(u, a, g, y)
      BY <1>s DEF JumpBelow, AsLinked
    <2>4. Softened(u, a, g, q)
      BY <1>s, <2>1, <2>3 DEF Resumable, Softened
    <2> QED
      BY <1>s, <1>1, <2>2, <2>4, ResumableAnew
  <1>3. CASE g = f
    <2>1. u[f].clause = c
      BY <1>s DEF AsLinked
    <2>2. \A i \in Codes(c) : Sets(c, i) => Var(c, i) \in DOMAIN s[f].variables
      BY <1>s DEF Checked, VariablesChecked, FrameCoded
    <2>3. Assigned(u, f, q)
      <3> SUFFICES ASSUME NEW i \in Codes(c), Sets(c, i), Through(c, i, q)
                   PROVE  u[f].variables[Var(c, i)] # 0
        BY <1>s, <2>1 DEF Assigned
      <3>1. CASE Var(c, i) = Var(c, p)
        BY <1>s, <3>1
      <3>2. CASE Var(c, i) # Var(c, p)
        <4>1. u[f].variables[Var(c, i)] = s[f].variables[Var(c, i)]
          BY <1>s, <2>2, <3>2
        <4>2. s[f].variables[Var(c, i)] # 0
          BY <1>s, <1>3 DEF Resumable, Assigned
        <4> QED
          BY <1>s, <4>1, <4>2
      <3> QED
        BY <1>s, <3>1, <3>2
    <2>4. Softened(u, a, f, q)
      <3> SUFFICES ASSUME NEW i \in Codes(c), NEW k \in Codes(c), SoftCondition(c, i, k), q \in (i + 1)..k
                   PROVE  JumpBelow(u, a, f, u[f].variables[Var(c, i)])
        BY <1>s, <2>1 DEF Softened
      <3>1. i # p
        BY <1>s, <1>3
      <3>2. Var(c, p) # Var(c, i)
        BY <1>s, <3>1 DEF Checked, ConditionsChecked
      <3>3. Sets(c, i)
        BY <1>s DEF SoftCondition, Sets
      <3>4. u[f].variables[Var(c, i)] = s[f].variables[Var(c, i)]
        BY <1>s, <2>2, <3>2, <3>3
      <3>5. JumpBelow(s, a, f, s[f].variables[Var(c, i)])
        BY <1>s, <1>3 DEF Resumable, Softened
      <3>6. \A y : JumpBelow(s, a, f, y) => JumpBelow(u, a, f, y)
        BY <1>s DEF JumpBelow, AsLinked
      <3> QED
        BY <1>s, <3>4, <3>5, <3>6
    <2> QED
      BY <1>s, <1>1, <1>3, <2>3, <2>4, ResumableAnew
  <1> QED
    BY <1>s, <1>2, <1>3

(* Unless it leaves the frame an instruction has one behind it. *)
LEMMA Proceeds ==
  ASSUME NEW c, Checked(c), NEW p \in Codes(c), Op(c, p) \notin {"I_EXIT", "I_EXITFACT"}
  PROVE  p + 1 \in Codes(c)
  <1>1. Len(c.codes) \in Nat /\ p \in 1..Len(c.codes) /\ p # Len(c.codes)
    BY DEF Checked, JumpsChecked, Codes
  <1> QED
    BY <1>1 DEF Codes

LEMMA TargetsAhead ==
  ASSUME NEW c, Checked(c), NEW p \in Codes(c), NEW q \in Targets(c, p)
  PROVE  q \in Codes(c) /\ q > p /\ q \in Nat /\ p \in Nat
  <1>1. Len(c.codes) \in Nat /\ p \in 1..Len(c.codes) /\ q \in (p + 1)..Len(c.codes)
    BY DEF Checked, JumpsChecked, Codes
  <1> QED
    BY <1>1 DEF Codes

(* On to the next instruction, or to where this one jumps. *)
LEMMA Advance ==
  ASSUME NEW s, NEW a, NEW f, NEW p, NEW q, Resumable(s, a, f, p), Checked(s[f].clause),
         q = p + 1 \/ q \in Targets(s[f].clause, p), q \in Codes(s[f].clause),
         Sets(s[f].clause, p) => s[f].variables[Var(s[f].clause, p)] # 0,
         q \notin Targets(s[f].clause, p) /\ Op(s[f].clause, p) = "C_SOFTIF" =>
           JumpBelow(s, a, f, s[f].variables[Var(s[f].clause, p)])
  PROVE  Resumable(s, a, f, q)
  <1> DEFINE c == s[f].clause
  <1>1. p \in Codes(c) /\ p \in Nat /\ q \in Nat /\ q > p /\ Len(c.codes) \in Nat
    BY TargetsAhead DEF Resumable, Checked, Codes
  <1>2. Assigned(s, f, q)
    <2> SUFFICES ASSUME NEW i \in Codes(c), Sets(c, i), Through(c, i, q)
                 PROVE  s[f].variables[Var(c, i)] # 0
      BY DEF Assigned
    <2>0. i \in Nat /\ i < q
      BY <1>1 DEF Codes, Through
    <2>1. CASE i < p
      <3>1. (i + 1)..p \subseteq (i + 1)..q
        BY <1>1, <2>0
      <3>2. Through(c, i, p)
        BY <2>1, <3>1 DEF Through
      <3> QED
        BY <3>2 DEF Resumable, Assigned
    <2>2. CASE i = p
      BY <2>2
    <2>3. CASE i > p
      <3>1. q # p + 1
        BY <1>1, <2>0, <2>3
      <3>2. q \in Targets(c, p) /\ q \in (i + 1)..q /\ p \in 1..(i - 1)
        BY <1>1, <2>0, <2>3, <3>1 DEF Codes
      <3> QED
        BY <3>2 DEF Through
    <2> QED
      BY <1>1, <2>0, <2>1, <2>2, <2>3
  <1>3. Softened(s, a, f, q)
    <2> SUFFICES ASSUME NEW i \in Codes(c), NEW k \in Codes(c), SoftCondition(c, i, k), q \in (i + 1)..k
                 PROVE  JumpBelow(s, a, f, s[f].variables[Var(c, i)])
      BY DEF Softened
    <2>0. i \in Nat /\ k \in Nat
      BY <1>1 DEF Codes
    <2>1. Through(c, i, k) /\ Targets(c, i) \cap (i + 1)..k = {}
      BY DEF Checked, ConditionsChecked
    <2>2. CASE p < i
      <3>1. q # p + 1
        BY <1>1, <2>0, <2>2
      <3>2. q \in Targets(c, p) /\ p \in 1..(i - 1)
        BY <1>1, <2>0, <2>2, <3>1 DEF Codes
      <3> QED
        BY <2>1, <3>2 DEF Through
    <2>3. CASE p = i
      <3>1. q \notin Targets(c, p)
        BY <2>1, <2>3
      <3> QED
        BY <2>3, <3>1 DEF SoftCondition
    <2>4. CASE p > i
      <3>1. p \in (i + 1)..k
        BY <1>1, <2>0, <2>4
      <3> QED
        BY <3>1 DEF Resumable, Softened
    <2> QED
      BY <1>1, <2>0, <2>2, <2>3, <2>4
  <1>4. Unsoftened(s, a, f, q)
    <2> SUFFICES ASSUME NEW i \in Codes(c), NEW k \in Codes(c), SoftCondition(c, i, k), q <= i
                 PROVE  \A b \in 1..(a - 1) : Returns(s, b) /\ Own(s, b) = f => Cont(s, b) \notin (i + 1)..k
      BY DEF Unsoftened
    <2>1. p <= i
      BY <1>1 DEF Codes
    <2> QED
      BY <2>1 DEF Resumable, Unsoftened
  <1> QED
    BY <1>2, <1>3, <1>4 DEF Resumable

(* With the choice point that the instruction pushes *)
LEMMA ResumablePushed ==
  ASSUME NEW s, NEW t, NEW n \in Nat, NEW f \in 1..(n - 1), NEW p, Resumable(s, n, f, p), s[f].kind = "frame",
         \A b \in 1..(n - 1) : t[b] = s[b], Checked(s[f].clause),
         t[n].kind = "CHP_JUMP", t[n].frame = f, t[n].next \in Targets(s[f].clause, p)
  PROVE  Resumable(t, n + 1, f, p)
  <1> DEFINE c == s[f].clause
  <1>1. \A b \in 1..(n - 1) : AsCoded(s, t, b)
    BY DEF AsCoded
  <1>2. Resumable(t, n, f, p)
    BY <1>1, ResumableSame
  <1>3. t[f].clause = c /\ p \in Codes(c) /\ p \in Nat /\ Len(c.codes) \in Nat
    BY DEF Resumable, Codes, Checked
  <1>4. Softened(t, n + 1, f, p)
    <2>1. \A x : JumpBelow(t, n, f, x) => JumpBelow(t, n + 1, f, x)
      BY DEF JumpBelow
    <2> QED
      BY <1>2, <2>1 DEF Resumable, Softened
  <1>5. Unsoftened(t, n + 1, f, p)
    <2> SUFFICES ASSUME NEW i \in Codes(c), NEW k \in Codes(c), SoftCondition(c, i, k), p <= i,
                        NEW b \in 1..n, Returns(t, b), Own(t, b) = f
                 PROVE  Cont(t, b) \notin (i + 1)..k
      BY <1>3 DEF Unsoftened
    <2>1. CASE b \in 1..(n - 1)
      BY <1>2, <1>3, <2>1 DEF Resumable, Unsoftened
    <2>2. CASE b = n
      <3>1. Cont(t, b) \in Targets(c, p)
        BY <2>2 DEF Cont
      <3>2. Through(c, i, k) /\ Targets(c, i) \cap (i + 1)..k = {}
        BY DEF Checked, ConditionsChecked
      <3>3. CASE p = i
        BY <3>1, <3>2, <3>3
      <3>4. CASE p # i
        <4>1. p \in 1..(i - 1)
          BY <1>3, <3>4 DEF Codes
        <4> QED
          BY <3>1, <3>2, <4>1 DEF Through
      <3> QED
        BY <3>3, <3>4
    <2> QED
      BY <2>1, <2>2
  <1>6. Above(t, n + 1, f)
    <2> SUFFICES ASSUME NEW b \in (f + 1)..n, Returns(t, b) PROVE Own(t, b) >= f
      BY DEF Above
    <2>1. CASE b \in (f + 1)..(n - 1)
      BY <1>2, <2>1 DEF Resumable, Above
    <2>2. CASE b = n
      BY <2>2 DEF Own
    <2> QED
      BY <2>1, <2>2
  <1> QED
    BY <1>2, <1>3, <1>4, <1>5, <1>6 DEF Resumable

(* With the cells that a cut leaves *)
LEMMA ResumableCut ==
  ASSUME NEW s, NEW a \in Nat, NEW f, NEW p, Resumable(s, a, f, p), Checked(s[f].clause),
         Cuts(s[f].clause, p) \/ Op(s[f].clause, p) = "I_CUT", NEW n \in Nat, n <= a
  PROVE  Resumable(s, n, f, p + 1)
  <1> DEFINE c == s[f].clause
  <1>1. p \in Codes(c) /\ p \in Nat /\ Len(c.codes) \in Nat
    BY DEF Resumable, Checked, Codes
  <1>2. p + 1 \in Codes(c)
    BY <1>1, Proceeds DEF Cuts
  <1>3. ~Sets(c, p) /\ Op(c, p) # "C_SOFTIF"
    BY DEF Cuts, Sets
  <1>4. Resumable(s, a, f, p + 1)
    BY <1>2, <1>3, Advance
  <1>5. Softened(s, n, f, p + 1)
    <2> SUFFICES ASSUME NEW i \in Codes(c), NEW k \in Codes(c), SoftCondition(c, i, k), p + 1 \in (i + 1)..k
                 PROVE  FALSE
      BY DEF Softened
    <2>1. p # i
      BY <1>3 DEF SoftCondition
    <2>2. p \in (i + 1)..k
      BY <1>1, <2>1 DEF Codes
    <2> QED
      BY <2>2 DEF Checked, ConditionsChecked
  <1>6. Unsoftened(s, n, f, p + 1)
    BY <1>4 DEF Resumable, Unsoftened
  <1>7. Above(s, n, f)
    BY <1>4 DEF Resumable, Above
  <1> QED
    BY <1>2, <1>4, <1>5, <1>6, <1>7 DEF Resumable

(* What is known of a machine that is at an instruction *)
LEMMA RunsCode ==
  ASSUME IInv, KInv, CodeChecked, mode = "run"
  PROVE  /\ Whole(stack, FR, BFR) /\ Linked(stack) /\ Coded(stack) /\ IsSeq(stack) /\ Len(stack) \in Nat
         /\ FR \in 3..Len(stack) /\ FR \in Nat /\ IsF(stack, FR) /\ stack[FR].kind = "frame"
         /\ DOMAIN stack[FR] = FrameFields /\ FrameCoded(stack, FR)
         /\ Checked(stack[FR].clause) /\ PC \in Codes(stack[FR].clause)
         /\ Resumable(stack, Len(stack) + 1, FR, PC)
  <1>1. /\ Whole(stack, FR, BFR) /\ Good(stack, FR, BFR) /\ IsSeq(stack) /\ Len(stack) \in Nat
        /\ FR \in 2..Len(stack) /\ FR # 2 /\ IsF(stack, FR)
    BY Running
  <1>2. Linked(stack) /\ FR \in 3..Len(stack) /\ FR \in Nat /\ FR \in 1..Len(stack) /\ stack[FR].kind = "frame"
    BY <1>1 DEF Good, IsF
  <1>3. DOMAIN stack[FR] = FrameFields
    BY <1>1, <1>2 DEF Whole, Cells
  <1>4. Coded(stack) /\ Resumable(stack, Len(stack) + 1, FR, PC)
    BY DEF KInv
  <1>5. FrameCoded(stack, FR)
    BY <1>2, <1>4 DEF Coded, CellCoded
  <1>6. FR \in DOMAIN stack
    BY <1>1, <1>2 DEF IsSeq
  <1>7. Checked(stack[FR].clause)
    BY <1>2, <1>6 DEF CodeChecked
  <1>8. PC \in Codes(stack[FR].clause)
    BY <1>4 DEF Resumable
  <1> QED
    BY <1>1, <1>2, <1>3, <1>4, <1>5, <1>7, <1>8

LEMMA FrameChecked ==
  ASSUME IInv, CodeChecked, mode # "closed", NEW f, IsF(stack, f)
  PROVE  Checked(stack[f].clause)
  <1>1. IsSeq(stack)
    BY Running
  <1>2. f \in DOMAIN stack /\ stack[f].kind = "frame"
    BY <1>1 DEF IsSeq, IsF
  <1> QED
    BY <1>2 DEF CodeChecked

(* A stack that is cut *)
LEMMA CodedUpTo ==
  ASSUME NEW s, Linked(s), Coded(s), IsSeq(s), NEW n \in Nat, n >= 2, n <= Len(s)
  PROVE  LET t == SubSeq(s, 1, n)
         IN  /\ Coded(t) /\ Len(t) = n /\ \A a \in 1..n : t[a] = s[a]
             /\ \A f \in 1..n : \A q : s[f].kind = "frame" /\ Resumable(s, n + 1, f, q) => Resumable(t, n + 1, f, q)
  <1> DEFINE t == SubSeq(s, 1, n)
  <1>1. Len(t) = n /\ \A a \in 1..n : t[a] = s[a]
    BY Shortened
  <1> HIDE DEF t
  <1>2. \A a \in 1..n : AsCoded(s, t, a)
    BY <1>1 DEF AsCoded
  <1>3. Coded(t)
    BY <1>1, <1>2, CodedSame
  <1>4. ASSUME NEW f \in 1..n, NEW q, s[f].kind = "frame", Resumable(s, n + 1, f, q)
        PROVE  Resumable(t, n + 1, f, q)
    <2>1. n + 1 \in Nat /\ f \in 1..((n + 1) - 1) /\ \A a \in 1..((n + 1) - 1) : AsCoded(s, t, a)
      BY <1>2
    <2> QED
      BY <1>4, <2>1, ResumableSame
  <1> QED
    BY <1>1, <1>3, <1>4 DEF t

LEMMA CatchClauses ==
  ASSUME NEW goal, goal[1] = "catch"
  PROVE  /\ Clauses(goal) # <<>> /\ ~(Len(Clauses(goal)) > 1) /\ CallsCatch(Clauses(goal)[1])
  <1> DEFINE two == << <<"I_CATCH">>, <<"I_EXITCATCH">> >>
             last == <<"I_EXIT">>
             u == Append(two, last)
             cl == [codes |-> u, variables |-> 0]
  <1>1. Clauses(goal) = Fixed(two)
    BY DEF Clauses
  <1>2. Clauses(goal) = <<cl>>
    BY <1>1 DEF Fixed
  <1>3. IsSeq(two) /\ Len(two) = 2 /\ two[1] = <<"I_CATCH">> /\ two[2] = <<"I_EXITCATCH">>
    BY DEF IsSeq
  <1>4. cl.codes = u /\ last[1] = "I_EXIT"
    OBVIOUS
  <1> HIDE DEF two, cl, last
  <1>5. u[1] = two[1] /\ u[2] = two[2] /\ u[3] = last /\ Len(u) = 3
    <2>a. IsSeq(two)
      BY <1>3
    <2>1. Len(u) = Len(two) + 1 /\ (\A a \in 1..Len(two) : u[a] = two[a]) /\ u[Len(two) + 1] = last
      BY <2>a, Appended
    <2> HIDE DEF u
    <2> QED
      BY <1>3, <2>1
  <1> HIDE DEF u
  <1>6. CallsCatch(cl)
    BY <1>3, <1>4, <1>5 DEF CallsCatch
  <1> QED
    BY <1>2, <1>6

(* A frame that begins its clause *)
LEMMA Begins ==
  ASSUME NEW s, Linked(s), NEW f \in 1..Len(s), IsF(s, f),
         \A a \in 1..Len(s) : a > f => s[a].kind = "CHP_CLAUSE",
         Checked(s[f].clause), 1 \in Codes(s[f].clause)
  PROVE  Resumable(s, Len(s) + 1, f, 1)
  <1> DEFINE c == s[f].clause
             n == Len(s)
  <1>1. Len(c.codes) \in Nat /\ n \in Nat
    BY DEF Checked, Linked, Older
  <1>2. \A i \in Codes(c) : i \in Nat /\ i >= 1
    BY <1>1 DEF Codes
  <1>3. Assigned(s, f, 1)
    BY <1>2 DEF Assigned, Through
  <1>4. Softened(s, n + 1, f, 1)
    BY <1>2 DEF Softened
  <1>5. \A a \in 1..n : a > f => ~Returns(s, a)
    BY DEF Returns
  <1>6. Unsoftened(s, n + 1, f, 1)
    <2> SUFFICES ASSUME NEW b \in 1..n, Returns(s, b), Own(s, b) = f PROVE FALSE
      BY <1>1 DEF Unsoftened
    <2>1. f \in 3..(b - 1)
      BY OwnBelow
    <2>2. b > f
      BY <1>1, <2>1
    <2> QED
      BY <1>5, <2>2
  <1>7. Above(s, n + 1, f)
    <2> SUFFICES ASSUME NEW b \in (f + 1)..n, Returns(s, b) PROVE FALSE
      BY <1>1 DEF Above
    <2>1. b \in 1..n /\ b > f
      BY <1>1
    <2> QED
      BY <1>5, <2>1
  <1> QED
    BY <1>3, <1>4, <1>6, <1>7 DEF Resumable

LEMMA EnteredCoded ==
  ASSUME NEW past, NEW base, NEW b, NEW goal, NEW fr, NEW ret,
         Whole(base, fr, b), fr # 2 \/ Len(base) = 2, Coded(base),
         fr # 2 => Resumable(base, Len(base) + 1, fr, ret),
         EnterGoal(past, base, b, goal, fr, ret), CodeChecked'
  PROVE  KInv'
  <1> DEFINE cs == Clauses(goal)
             clause == IF cs = <<>> THEN NoClause ELSE cs[1]
             n == Len(base) + 1
             r == Frame(goal, clause, fr, ret)
             c == Choice("CHP_CLAUSE", n, b, 2)
             t == Append(base, r)
  <1>1. /\ stack' = base \o <<r>> \o (IF Len(cs) > 1 THEN <<c>> ELSE <<>>)
        /\ FR' = n /\ PC' = 1
    BY DEF EnterGoal
  <1>2. stack' = IF Len(cs) > 1 THEN Append(t, c) ELSE t
    <2>1. base \o <<r>> \o <<>> = t /\ base \o <<r>> \o <<c>> = Append(t, c)
      BY Joined DEF Whole, Cells
    <2> QED
      BY <1>1, <2>1
  <1>3. /\ Whole(stack', FR', BFR') /\ Len(base) \in Nat /\ Len(stack') \in Nat /\ mode' \in {"run", "fail"}
        /\ \A a \in 1..Len(stack') : a > n => \E next : stack'[a] = Choice("CHP_CLAUSE", n, b, next)
    BY WholeEnter
  <1>4. Whole(t, n, b) /\ Len(t) = n /\ (\A a \in 1..Len(base) : t[a] = base[a]) /\ t[n] = r
    BY WholeCall
  <1>5. Linked(base) /\ Linked(t) /\ Linked(stack') /\ IsSeq(t)
    BY <1>3, <1>4 DEF Whole, Good, Cells
  <1>6. r.kind = "frame" /\ r.parent = fr /\ r.programPointer = ret /\ r.goal = goal /\ r.clause = clause
        /\ DOMAIN r.variables = 1..clause.variables
    BY DEF Frame
  <1>7. goal[1] = "catch" => CallsCatch(clause) /\ ~(Len(cs) > 1)
    BY CatchClauses
  <1>8. FrameCoded(t, n)
    BY <1>4, <1>6, <1>7 DEF FrameCoded
  <1>9. Returns(t, n) => Resumable(base, n, Own(t, n), Cont(t, n))
    BY <1>4, <1>6 DEF Returns, Own, Cont
  <1>k. c.kind = "CHP_CLAUSE" /\ c.frame = n
    BY DEF Choice
  <1> HIDE DEF r, clause, t, c
  <1>10. Coded(t)
    <2>1. n = Len(base) + 1 /\ n = Len(t) /\ t[n].kind = "frame"
      BY <1>4, <1>6
    <2> HIDE DEF n
    <2> QED
      BY <1>4, <1>5, <1>8, <1>9, <2>1, CodedPush
  <1>11. Coded(stack')
    <2>1. CASE ~(Len(cs) > 1)
      BY <1>2, <1>10, <2>1
    <2>2. CASE Len(cs) > 1
      <3> DEFINE u == Append(t, c)
      <3>1. stack' = u
        BY <1>2, <2>2
      <3>2. Len(u) = n + 1 /\ (\A a \in 1..n : u[a] = t[a]) /\ u[n + 1] = c
        BY <1>4, <1>5, Appended
      <3> HIDE DEF u
      <3>3. n \in 1..Len(t) /\ t[n].goal[1] # "catch"
        BY <1>3, <1>4, <1>6, <1>7, <2>2
      <3>4. ~Returns(u, n + 1) /\ u[n + 1].kind # "frame" /\ u[n + 1].frame = n
        BY <1>k, <3>2 DEF Returns
      <3> DEFINE m == n + 1
      <3>5. m = Len(t) + 1 /\ m = Len(u) /\ Linked(u) /\ \A a \in 1..Len(t) : u[a] = t[a]
        BY <1>4, <1>5, <3>1, <3>2
      <3>6. ~Returns(u, m) /\ u[m].kind # "frame" /\ u[m].frame \in 1..Len(t) /\ t[u[m].frame].goal[1] # "catch"
        BY <3>3, <3>4
      <3> HIDE DEF m
      <3>7. Coded(u)
        BY <1>5, <1>10, <3>5, <3>6, CodedPush
      <3> QED
        BY <3>1, <3>7
    <2> QED
      BY <2>1, <2>2
  <1>12. ASSUME mode' = "run" PROVE Resumable(stack', Len(stack') + 1, FR', PC')
    <2>1. IsF(stack', n) /\ n \in 1..Len(stack') /\ IsSeq(stack')
      BY <1>1, <1>3 DEF Whole, Good, IsF, Cells
    <2>2. n \in DOMAIN stack' /\ stack'[n].kind = "frame"
      BY <2>1 DEF IsSeq, IsF
    <2>3. Checked(stack'[n].clause) /\ 1 \in Codes(stack'[n].clause)
      BY <1>1, <1>12, <2>2 DEF CodeChecked
    <2>4. \A a \in 1..Len(stack') : a > n => stack'[a].kind = "CHP_CLAUSE"
      <3> SUFFICES ASSUME NEW a \in 1..Len(stack'), a > n PROVE stack'[a].kind = "CHP_CLAUSE"
        OBVIOUS
      <3>1. PICK next : stack'[a] = Choice("CHP_CLAUSE", n, b, next)
        BY <1>3
      <3> QED
        BY <3>1 DEF Choice
    <2> HIDE DEF n
    <2>5. Resumable(stack', Len(stack') + 1, n, 1)
      BY <1>5, <2>1, <2>3, <2>4, Begins
    <2> QED
      BY <1>1, <2>5
  <1> QED
    BY <1>3, <1>11, <1>12 DEF KInv

-----------------------------------------------------------------------------
(* The code that passes the check fits, and the actions keep it so. *)

LEMMA InstructionIs ==
  ASSUME NEW op, Is(op)
  PROVE  mode = "run" /\ Op(stack[FR].clause, PC) = op
  BY DEF Is, Op

(* The argument of an instruction with a variable *)
LEMMA FirstArgument == Arg(1) = Var(stack[FR].clause, PC)
  BY DEF Arg, Var

LEMMA CheckedFits ==
  ASSUME IInv, KInv, CodeChecked
  PROVE  CodeFits
  <1> DEFINE c == stack[FR].clause
             x == stack[FR].variables[Var(c, PC)]
  <1>1. CASE mode # "run"
    BY <1>1 DEF CodeFits, ChoicesKnown, Is
  <1>2. CASE mode = "run"
    <2>1. /\ Checked(c) /\ PC \in Codes(c) /\ FrameCoded(stack, FR) /\ Resumable(stack, Len(stack) + 1, FR, PC)
          /\ IsSeq(stack) /\ Len(stack) \in Nat /\ FR \in 1..Len(stack) /\ stack[FR].kind = "frame"
      BY <1>2, RunsCode
    <2>2. ASSUME NEW i \in Codes(c), Sets(c, i), Var(c, i) = Var(c, PC), Through(c, i, PC)
          PROVE  Var(c, PC) \in DOMAIN stack[FR].variables /\ x # 0
      <3>1. Var(c, i) \in 1..c.variables
        BY <2>1, <2>2 DEF Checked, VariablesChecked
      <3>2. stack[FR].variables[Var(c, i)] # 0
        BY <2>1, <2>2 DEF Resumable, Assigned
      <3> QED
        BY <2>1, <2>2, <3>1, <3>2 DEF FrameCoded
    <2>3. ASSUME Op(c, PC) = "C_SOFTCUT"
          PROVE  Var(c, PC) \in DOMAIN stack[FR].variables /\ x # 0 /\ JumpBelow(stack, Len(stack) + 1, FR, x)
      <3>1. PICK i \in Codes(c) : SoftCondition(c, i, PC)
        BY <2>1, <2>3 DEF Checked, VariablesChecked
      <3>2. Through(c, i, PC)
        BY <2>1, <3>1 DEF Checked, ConditionsChecked
      <3>3. Sets(c, i) /\ Var(c, i) = Var(c, PC) /\ i < PC
        BY <3>1 DEF SoftCondition, Sets
      <3>4. PC \in (i + 1)..PC
        BY <2>1, <3>3 DEF Codes, Checked
      <3>5. JumpBelow(stack, Len(stack) + 1, FR, stack[FR].variables[Var(c, i)])
        BY <2>1, <3>1, <3>4 DEF Resumable, Softened
      <3> QED
        BY <2>2, <3>2, <3>3, <3>5
    <2>4. Arg(1) = Var(c, PC) /\ ChoiceVar = x
      BY FirstArgument DEF ChoiceVar
    <2>5. \A op : Is(op) => Op(c, PC) = op
      BY InstructionIs
    <2>6. ~Is("C_LSCUT")
      BY <2>1, <2>5 DEF Checked, VariablesChecked
    <2>7. Is("C_CUT") \/ Is("C_LCUTIFTHEN") \/ Is("C_LCUT") =>
            Arg(1) \in DOMAIN stack[FR].variables /\ ChoiceVar # 0
      <3> SUFFICES ASSUME Is("C_CUT") \/ Is("C_LCUTIFTHEN") \/ Is("C_LCUT")
                   PROVE  Var(c, PC) \in DOMAIN stack[FR].variables /\ x # 0
        BY <2>4
      <3>1. Cuts(c, PC)
        BY <2>5 DEF Cuts
      <3>2. PICK i \in Codes(c) : Sets(c, i) /\ Var(c, i) = Var(c, PC) /\ Through(c, i, PC)
        BY <2>1, <3>1 DEF Checked, VariablesChecked
      <3> QED
        BY <2>2, <3>2
    <2>8. Is("C_SOFTCUT") =>
            /\ Arg(1) \in DOMAIN stack[FR].variables /\ ChoiceVar # 0
            /\ IsChoice(ChoiceVar) /\ stack[ChoiceVar].kind = "CHP_JUMP" /\ stack[ChoiceVar].frame = FR
      <3> SUFFICES ASSUME Is("C_SOFTCUT")
                   PROVE  /\ Var(c, PC) \in DOMAIN stack[FR].variables /\ x # 0
                          /\ IsChoice(x) /\ stack[x].kind = "CHP_JUMP" /\ stack[x].frame = FR
        BY <2>4
      <3>1. Var(c, PC) \in DOMAIN stack[FR].variables /\ x # 0 /\ JumpBelow(stack, Len(stack) + 1, FR, x)
        BY <2>3, <2>5
      <3> HIDE DEF x
      <3>2. x \in 1..Len(stack) /\ stack[x].kind = "CHP_JUMP" /\ stack[x].frame = FR
        BY <2>1, <3>1 DEF JumpBelow
      <3>3. IsChoice(x)
        BY <2>1, <3>2 DEF IsChoice, IsSeq
      <3> QED
        BY <3>1, <3>2, <3>3
    <2> HIDE DEF x
    <2>9. ChoicesKnown
      BY <2>6, <2>7, <2>8 DEF ChoicesKnown
    <2>10. Is("I_CALLCLEANUP") => stack[FR].goal[1] = "cleanup"
      <3>1. FR \in DOMAIN stack
        BY <2>1 DEF IsSeq
      <3> QED
        BY <2>1, <2>5, <3>1 DEF CodeChecked
    <2> QED
      BY <2>9, <2>10 DEF CodeFits
  <1> QED
    BY <1>1, <1>2

(* An instruction that neither jumps nor sets a variable nor leaves *)
LEMMA Behind ==
  ASSUME IInv, KInv, CodeChecked, mode = "run", ~Sets(stack[FR].clause, PC),
         Op(stack[FR].clause, PC) \notin {"I_EXIT", "I_EXITFACT"}
  PROVE  Resumable(stack, Len(stack) + 1, FR, PC + 1)
  <1>1. /\ Checked(stack[FR].clause) /\ PC \in Codes(stack[FR].clause)
        /\ Resumable(stack, Len(stack) + 1, FR, PC)
    BY RunsCode
  <1>2. PC + 1 \in Codes(stack[FR].clause)
    BY <1>1, Proceeds
  <1>3. Op(stack[FR].clause, PC) # "C_SOFTIF"
    BY DEF Sets
  <1> QED
    BY <1>1, <1>2, <1>3, Advance

LEMMA I_CALL_Coded ==
  ASSUME IInv, KInv, CodeChecked, CodeChecked', I_CALL \/ I_USERCALL0
  PROVE  KInv'
  <1>1. mode = "run" /\ (Is("I_CALL") \/ Is("I_USERCALL0"))
    BY DEF I_CALL, I_USERCALL0, Is
  <1>2. PICK g : EnterGoal(log, stack, BFR, g, FR, PC + 1)
    BY DEF I_CALL, I_USERCALL0, UserCall
  <1>3. Op(stack[FR].clause, PC) \in {"I_CALL", "I_USERCALL0"}
    BY <1>1, InstructionIs
  <1>4. Resumable(stack, Len(stack) + 1, FR, PC + 1)
    BY <1>1, <1>3, Behind DEF Sets
  <1>5. Whole(stack, FR, BFR) /\ Coded(stack) /\ FR # 2
    BY <1>1, RunsCode
  <1> QED
    BY <1>2, <1>4, <1>5, EnteredCoded

(* The frame that runs is one that a frame, or the query, goes on behind. *)
LEMMA Caller ==
  ASSUME IInv, KInv, CodeChecked, mode = "run"
  PROVE  /\ stack[FR].parent \in 2..(FR - 1) /\ IsF(stack, stack[FR].parent)
         /\ stack[FR].parent # 2 =>
              /\ Returns(stack, FR) /\ Own(stack, FR) = stack[FR].parent
              /\ Cont(stack, FR) = stack[FR].programPointer
              /\ Resumable(stack, FR, stack[FR].parent, stack[FR].programPointer)
  <1>1. Linked(stack) /\ Coded(stack) /\ FR \in 3..Len(stack) /\ FR \in Nat /\ IsF(stack, FR) /\ Len(stack) \in Nat
    BY RunsCode
  <1>2. stack[FR].parent \in 0..(FR - 1) /\ stack[FR].parent # 0 /\ FR \in 1..Len(stack)
    BY <1>1 DEF Linked, Older
  <1>3. IsF(stack, stack[FR].parent)
    BY <1>1, <1>2 DEF Linked
  <1>4. stack[FR].parent # 1
    BY <1>1, <1>3 DEF Linked, IsF, IsC
  <1>5. stack[FR].parent \in 2..(FR - 1)
    BY <1>2, <1>4
  <1>6. ASSUME stack[FR].parent # 2
        PROVE  /\ Returns(stack, FR) /\ Own(stack, FR) = stack[FR].parent
               /\ Cont(stack, FR) = stack[FR].programPointer
    BY <1>1, <1>5, <1>6 DEF Returns, Own, Cont, IsF
  <1>7. CellCoded(stack, FR)
    BY <1>1, <1>2 DEF Coded
  <1>8. stack[FR].parent # 2 => Resumable(stack, FR, stack[FR].parent, stack[FR].programPointer)
    BY <1>6, <1>7 DEF CellCoded
  <1> QED
    BY <1>3, <1>5, <1>6, <1>8

LEMMA I_DEPART_Coded ==
  ASSUME IInv, KInv, CodeChecked, CodeChecked', I_DEPART
  PROVE  KInv'
  <1>1. mode = "run" /\ Op(stack[FR].clause, PC) = "I_DEPART"
    BY InstructionIs DEF I_DEPART
  <1>2. /\ Whole(stack, FR, BFR) /\ Coded(stack) /\ Linked(stack) /\ IsSeq(stack) /\ FR # 2
        /\ FR \in 3..Len(stack) /\ FR \in Nat /\ Len(stack) \in Nat
    BY <1>1, RunsCode
  <1>3. CASE LastCall
    <2> DEFINE t == SubSeq(stack, 1, FR - 1)
               p == stack[FR].parent
               q == stack[FR].programPointer
    <2>1. EnterGoal(log, t, BFR, Arg(1), p, q)
      BY <1>3 DEF I_DEPART, UpTo
    <2>2. BFR <= FR
      BY <1>3 DEF LastCall
    <2>3. Whole(t, p, BFR) /\ Len(t) = FR - 1 /\ (p = 2 <=> FR = 3)
      BY <1>2, <2>2, WholeLeave
    <2>4. FR - 1 \in Nat /\ FR - 1 >= 2 /\ FR - 1 <= Len(stack) /\ (FR - 1) + 1 = FR
      BY <1>2
    <2>5. /\ Coded(t)
          /\ \A f \in 1..(FR - 1) : \A r : stack[f].kind = "frame" /\ Resumable(stack, (FR - 1) + 1, f, r) =>
               Resumable(t, (FR - 1) + 1, f, r)
      BY <1>2, <2>4, CodedUpTo
    <2>6. p # 2 => Resumable(stack, FR, p, q) /\ p \in 1..(FR - 1) /\ stack[p].kind = "frame"
      BY <1>1, <1>2, Caller DEF IsF
    <2>7. p # 2 => Resumable(t, Len(t) + 1, p, q)
      BY <2>3, <2>4, <2>5, <2>6
    <2>8. p # 2 \/ Len(t) = 2
      BY <2>3
    <2> HIDE DEF t, p, q
    <2> QED
      BY <2>1, <2>3, <2>5, <2>7, <2>8, EnteredCoded
  <1>4. CASE ~LastCall
    <2>1. EnterGoal(log, stack, BFR, Arg(1), FR, PC + 1)
      BY <1>4 DEF I_DEPART
    <2>2. Resumable(stack, Len(stack) + 1, FR, PC + 1)
      BY <1>1, Behind DEF Sets
    <2> QED
      BY <1>2, <2>1, <2>2, EnteredCoded
  <1> QED
    BY <1>3, <1>4

LEMMA ExitedCoded ==
  ASSUME IInv, KInv, CodeChecked, mode = "run", NEW b, ExitFrame(b)
  PROVE  KInv'
  <1> DEFINE p == stack[FR].parent
             q == stack[FR].programPointer
  <1>1. /\ Coded(stack) /\ Linked(stack) /\ IsSeq(stack) /\ FR \in 3..Len(stack) /\ FR \in Nat /\ Len(stack) \in Nat
        /\ Resumable(stack, Len(stack) + 1, FR, PC)
    BY RunsCode
  <1>2. /\ p \in 2..(FR - 1) /\ IsF(stack, p)
        /\ p # 2 => /\ Returns(stack, FR) /\ Own(stack, FR) = p /\ Cont(stack, FR) = q
                    /\ Resumable(stack, FR, p, q)
    BY Caller
  <1>3. FR' = p /\ PC' = q /\ mode' = IF p = 2 THEN "exit" ELSE "run"
    BY DEF ExitFrame, TopFR
  <1>4. CASE b <= FR
    <2> DEFINE t == SubSeq(stack, 1, FR - 1)
    <2>1. stack' = t
      BY <1>4 DEF ExitFrame, UpTo
    <2>2. FR - 1 \in Nat /\ FR - 1 >= 2 /\ FR - 1 <= Len(stack) /\ (FR - 1) + 1 = FR
      BY <1>1
    <2>3. /\ Coded(t) /\ Len(t) = FR - 1
          /\ \A f \in 1..(FR - 1) : \A r : stack[f].kind = "frame" /\ Resumable(stack, (FR - 1) + 1, f, r) =>
               Resumable(t, (FR - 1) + 1, f, r)
      BY <1>1, <2>2, CodedUpTo
    <2>4. p # 2 => Resumable(t, Len(t) + 1, p, q)
      BY <1>2, <2>2, <2>3 DEF IsF
    <2> HIDE DEF t, p, q
    <2> QED
      BY <1>3, <2>1, <2>3, <2>4 DEF KInv
  <1>5. CASE ~(b <= FR)
    <2>1. stack' = stack
      BY <1>5 DEF ExitFrame
    <2>2. ASSUME p # 2 PROVE Resumable(stack, Len(stack) + 1, p, q)
      <3>1. Above(stack, Len(stack) + 1, FR)
        BY <1>1 DEF Resumable
      <3>2. Checked(stack[p].clause)
        BY <1>2, FrameChecked
      <3>3. FR \in 1..Len(stack) /\ Len(stack) + 1 \in Nat /\ FR < Len(stack) + 1 /\ Len(stack) + 1 <= Len(stack) + 1
        BY <1>1
      <3>4. Returns(stack, FR) /\ Own(stack, FR) = p /\ Cont(stack, FR) = q /\ Resumable(stack, FR, p, q)
        BY <1>2, <2>2
      <3> HIDE DEF p, q
      <3> QED
        BY <1>1, <3>1, <3>2, <3>3, <3>4, ResumableAbove
    <2> HIDE DEF p, q
    <2> QED
      BY <1>1, <1>3, <2>1, <2>2 DEF KInv
  <1> QED
    BY <1>4, <1>5

LEMMA I_EXIT_Coded ==
  ASSUME IInv, KInv, CodeChecked, I_EXIT \/ I_EXITCATCH
  PROVE  KInv'
  <1>1. mode = "run" /\ \E b : ExitFrame(b)
    BY DEF I_EXIT, I_EXITCATCH, Is
  <1> QED
    BY <1>1, ExitedCoded

LEMMA ContinuedCoded ==
  ASSUME mode = "run", NEW s, NEW b, Continue(s, b), Coded(s), Resumable(s, Len(s) + 1, FR, PC + 1)
  PROVE  KInv'
  <1>1. stack' = s /\ FR' = FR /\ PC' = PC + 1
    BY DEF Continue
  <1> QED
    BY <1>1 DEF KInv

(* The stack is the same, and the machine does not run. *)
LEMMA StoppedCoded ==
  ASSUME KInv, mode # "closed", stack' = stack, mode' # "run"
  PROVE  KInv'
  BY DEF KInv

LEMMA CutCoded ==
  ASSUME IInv, KInv, CodeChecked, mode = "run",
         Cuts(stack[FR].clause, PC) \/ Op(stack[FR].clause, PC) = "I_CUT",
         NEW n \in FR..Len(stack), NEW b, Continue(SubSeq(stack, 1, n), b)
  PROVE  KInv'
  <1> DEFINE t == SubSeq(stack, 1, n)
  <1>1. /\ Coded(stack) /\ Linked(stack) /\ IsSeq(stack) /\ FR \in 3..Len(stack) /\ FR \in Nat /\ Len(stack) \in Nat
        /\ Checked(stack[FR].clause) /\ Resumable(stack, Len(stack) + 1, FR, PC) /\ stack[FR].kind = "frame"
    BY RunsCode
  <1>2. n \in Nat /\ n >= 2 /\ n <= Len(stack) /\ FR \in 1..n
    BY <1>1
  <1>3. Resumable(stack, n + 1, FR, PC + 1)
    <2>1. Len(stack) + 1 \in Nat /\ n + 1 \in Nat /\ n + 1 <= Len(stack) + 1
      BY <1>1, <1>2
    <2> QED
      BY <1>1, <2>1, ResumableCut
  <1>4. /\ Coded(t) /\ Len(t) = n
        /\ \A f \in 1..n : \A q : stack[f].kind = "frame" /\ Resumable(stack, n + 1, f, q) => Resumable(t, n + 1, f, q)
    BY <1>1, <1>2, CodedUpTo
  <1>5. Resumable(t, Len(t) + 1, FR, PC + 1)
    BY <1>1, <1>2, <1>3, <1>4
  <1>6. Continue(t, b)
    OBVIOUS
  <1> HIDE DEF t
  <1> QED
    BY <1>4, <1>5, <1>6, ContinuedCoded

LEMMA I_CUT_Coded ==
  ASSUME IInv, KInv, CodeChecked, I_CUT
  PROVE  KInv'
  <1>1. mode = "run" /\ Op(stack[FR].clause, PC) = "I_CUT"
    BY InstructionIs DEF I_CUT
  <1>2. FR \in 3..Len(stack) /\ FR \in Nat /\ Len(stack) \in Nat
    BY <1>1, RunsCode
  <1>3. UpTo(FR + 1) = SubSeq(stack, 1, FR)
    <2>1. (FR + 1) - 1 = FR
      BY <1>2
    <2> QED
      BY <2>1 DEF UpTo
  <1>4. PICK b : Continue(SubSeq(stack, 1, FR), b)
    BY <1>3 DEF I_CUT
  <1>5. FR \in FR..Len(stack)
    BY <1>2
  <1> QED
    BY <1>1, <1>4, <1>5, CutCoded

LEMMA CutToCoded ==
  ASSUME IInv, KInv, CodeChecked, mode = "run", Cuts(stack[FR].clause, PC), NEW och \in Nat, och # 0, CutTo(och),
         \A c \in Chain(stack)[BFR] : c > och => c > FR
  PROVE  KInv'
  <1>1. CASE mode' = "assertion" /\ UNCHANGED <<keep, stack, regs, log, counts>>
    BY <1>1, StoppedCoded
  <1>2. CASE /\ Oldest(och) = och
             /\ LeaveFrames(DiscardedAfter(och, CutFrame(och)))
             /\ Continue(UpTo(IF och > CutFrame(och) THEN och + 1 ELSE CutFrame(och) + 1), och)
    <2> DEFINE F == CutFrame(och)
               n == IF och > F THEN och ELSE F
    <2>1. Oldest(och) = och
      BY <1>2
    <2>2. UpTo(IF och > F THEN och + 1 ELSE F + 1) = SubSeq(stack, 1, n) /\ n \in FR..Len(stack)
      BY <2>1, CutToEffect
    <2>3. Continue(SubSeq(stack, 1, n), och)
      BY <1>2, <2>2
    <2> HIDE DEF n
    <2> QED
      BY <2>2, <2>3, CutCoded
  <1> QED
    BY <1>1, <1>2, CutToSteps

LEMMA C_CUT_Coded ==
  ASSUME IInv, KInv, CodeChecked, ChoicesKnown, C_CUT
  PROVE  KInv'
  <1>1. mode = "run" /\ CutTo(ChoiceVar)
    BY DEF C_CUT, Is
  <1>2. Arg(1) \in DOMAIN stack[FR].variables /\ ChoiceVar # 0
    BY DEF C_CUT, ChoicesKnown
  <1>3. /\ ChoiceVar \in Nat
        /\ \A c \in Chain(stack)[BFR] : c > ChoiceVar => c > FR
    BY <1>1, <1>2, VarFacts
  <1>4. Cuts(stack[FR].clause, PC)
    BY InstructionIs DEF C_CUT, Cuts
  <1> QED
    BY <1>1, <1>2, <1>3, <1>4, CutToCoded

LEMMA C_LCUT_Coded ==
  ASSUME IInv, KInv, CodeChecked, ChoicesKnown, C_LCUT
  PROVE  KInv'
  <1> DEFINE och == ChoiceVar
             next == {ch \in ChoiceChain(BFR) : stack[ch].parent = och}
  <1>1. mode = "run" /\ CutAfter(och)
    BY DEF C_LCUT, Is
  <1>2. Arg(1) \in DOMAIN stack[FR].variables /\ och # 0
    BY DEF C_LCUT, ChoicesKnown
  <1>3. /\ och \in Nat
        /\ \A c \in Chain(stack)[BFR] : c > och => c > FR
    BY <1>1, <1>2, VarFacts
  <1>4. Cuts(stack[FR].clause, PC)
    BY InstructionIs DEF C_LCUT, Cuts
  <1>5. Whole(stack, FR, BFR) /\ Good(stack, FR, BFR)
    BY <1>1, Running
  <1> HIDE DEF och
  <1>6. CASE next # {}
    <2> DEFINE n == CHOOSE ch \in next : TRUE
    <2>1. n \in next
      BY <1>6
    <2>2. CutTo(n)
      BY <1>1, <1>6 DEF CutAfter
    <2>3. n \in Chain(stack)[BFR] /\ stack[n].parent = och
      BY <2>1 DEF ChoiceChain
    <2> HIDE DEF n
    <2>4. n \in Nat /\ n # 0
      BY <1>5, <2>3, GoodFacts
    <2>5. n > och
      <3>1. Older(stack) /\ n \in 1..Len(stack)
        BY <1>5, <2>3, GoodFacts DEF IsC
      <3> QED
        BY <2>3, <3>1 DEF Older
    <2>6. \A c \in Chain(stack)[BFR] : c > n => c > FR
      <3> SUFFICES ASSUME NEW c \in Chain(stack)[BFR], c > n PROVE c > FR
        OBVIOUS
      <3>1. c \in Nat
        BY <1>5, GoodFacts
      <3>2. c > och
        BY <1>3, <2>4, <2>5, <3>1
      <3> QED
        BY <1>3, <3>2
    <2> QED
      BY <1>1, <1>4, <2>2, <2>4, <2>6, CutToCoded
  <1>7. CASE next = {}
    <2>1. IF BFR = och THEN Continue(stack, BFR)
          ELSE mode' = "assertion" /\ UNCHANGED <<keep, stack, regs, log>>
      BY <1>1, <1>7 DEF CutAfter
    <2>2. CASE BFR = och
      <3>1. ~Sets(stack[FR].clause, PC) /\ Op(stack[FR].clause, PC) \notin {"I_EXIT", "I_EXITFACT"}
        BY <1>4 DEF Cuts, Sets
      <3>2. Resumable(stack, Len(stack) + 1, FR, PC + 1) /\ Coded(stack)
        BY <1>1, <3>1, Behind, RunsCode
      <3> QED
        BY <1>1, <2>1, <2>2, <3>2, ContinuedCoded
    <2>3. CASE BFR # och
      BY <1>1, <2>1, <2>3, StoppedCoded
    <2> QED
      BY <2>2, <2>3
  <1> QED
    BY <1>6, <1>7

LEMMA Jump_Coded ==
  ASSUME IInv, KInv, CodeChecked, C_JMP
  PROVE  KInv'
  <1> DEFINE q == PC + 1 + Arg(1)
  <1>1. mode = "run" /\ Op(stack[FR].clause, PC) = "C_JMP" /\ stack' = stack /\ FR' = FR /\ PC' = q
    BY InstructionIs DEF C_JMP
  <1>2. Resumable(stack, Len(stack) + 1, FR, PC) /\ Coded(stack) /\ Checked(stack[FR].clause)
        /\ PC \in Codes(stack[FR].clause)
    BY <1>1, RunsCode
  <1>3. q \in Targets(stack[FR].clause, PC)
    BY <1>1 DEF Targets, Arg
  <1>4. q \in Codes(stack[FR].clause) /\ ~Sets(stack[FR].clause, PC)
    BY <1>1, <1>2, <1>3, TargetsAhead DEF Sets
  <1>5. Op(stack[FR].clause, PC) # "C_SOFTIF"
    BY <1>1
  <1> HIDE DEF q
  <1>6. Resumable(stack, Len(stack) + 1, FR, q)
    BY <1>2, <1>3, <1>4, <1>5, Advance
  <1> QED
    BY <1>1, <1>2, <1>6 DEF KInv

LEMMA Nothing_Coded ==
  ASSUME IInv, KInv, CodeChecked, Nothing \/ C_FAIL \/ I_EXITQUERY \/ Uncaught \/ NextSolution
  PROVE  KInv'
  <1>1. CASE Nothing
    <2>1. Continue(stack, BFR) /\ mode = "run" /\ Op(stack[FR].clause, PC) \in {"C_SCUT", "C_END", "I_TRUE"}
      BY <1>1, InstructionIs DEF Nothing
    <2>2. Resumable(stack, Len(stack) + 1, FR, PC + 1) /\ Coded(stack)
      BY <2>1, Behind, RunsCode DEF Sets
    <2> QED
      BY <2>1, <2>2, ContinuedCoded
  <1>2. CASE C_FAIL \/ I_EXITQUERY \/ Uncaught \/ NextSolution
    <2>1. mode # "closed" /\ mode' # "run" /\ stack' = stack
      BY <1>2 DEF C_FAIL, I_EXITQUERY, Uncaught, NextSolution, Is
    <2> QED
      BY <2>1, StoppedCoded
  <1> QED
    BY <1>1, <1>2

(* An instruction sets its variable. *)
LEMMA SetCoded ==
  ASSUME IInv, KInv, CodeChecked, mode = "run", Sets(stack[FR].clause, PC), NEW x, x # 0
  PROVE  LET u == SetVar(Arg(1), x)
         IN  /\ Coded(u) /\ Len(u) = Len(stack) /\ Resumable(u, Len(u) + 1, FR, PC)
             /\ u[FR].clause = stack[FR].clause /\ u[FR].kind = "frame"
             /\ u[FR].variables[Var(stack[FR].clause, PC)] = x
  <1> DEFINE c == stack[FR].clause
             v == Var(c, PC)
             u == SetVar(Arg(1), x)
  <1>1. /\ Whole(stack, FR, BFR) /\ Linked(stack) /\ Coded(stack) /\ IsSeq(stack) /\ Len(stack) \in Nat
        /\ FR \in 1..Len(stack) /\ FR \in Nat /\ stack[FR].kind = "frame"
        /\ DOMAIN stack[FR] = FrameFields /\ FrameCoded(stack, FR)
        /\ Checked(c) /\ PC \in Codes(c) /\ PC \in Nat
        /\ Resumable(stack, Len(stack) + 1, FR, PC)
    <2>1. PC \in Codes(c) /\ Checked(c) /\ FR \in 3..Len(stack) /\ Len(stack) \in Nat
      BY RunsCode
    <2>2. PC \in Nat /\ FR \in 1..Len(stack)
      BY <2>1 DEF Codes, Checked
    <2> QED
      BY <2>1, <2>2, RunsCode
  <1>2. u = VarSetIn(stack, FR, v, x)
    BY FirstArgument DEF SetVar, VarSetIn
  <1>3. v \in DOMAIN stack[FR].variables
    BY <1>1 DEF Checked, VariablesChecked, FrameCoded
  <1>4. /\ Len(u) = Len(stack) /\ (\A a \in 1..Len(stack) : a # FR => u[a] = stack[a])
        /\ u[FR].kind = stack[FR].kind /\ u[FR].parent = stack[FR].parent
        /\ u[FR].goal = stack[FR].goal /\ u[FR].clause = c
        /\ u[FR].programPointer = stack[FR].programPointer
    BY <1>1, <1>2, VarSetCells
  <1>5. /\ DOMAIN u[FR].variables = DOMAIN stack[FR].variables
        /\ u[FR].variables[v] = x
        /\ \A w \in DOMAIN stack[FR].variables : w # v => u[FR].variables[w] = stack[FR].variables[w]
    BY <1>1, <1>2, <1>3, VarSetValues
  <1> HIDE DEF u, v
  <1>6. AsLinked(stack, u, FR)
    BY <1>1, <1>4 DEF AsLinked
  <1>7. ASSUME NEW a \in 1..(Len(stack) + 1), NEW g \in 1..(a - 1), NEW q, Resumable(stack, a, g, q),
               stack[g].kind = "frame", g = FR => \A k \in Codes(c) : SoftCondition(c, PC, k) => q \notin (PC + 1)..k
        PROVE  Resumable(u, a, g, q)
    <2>1. a \in Nat /\ \A b \in 1..(a - 1) : b # FR => u[b] = stack[b]
      BY <1>1, <1>4
    <2>2. SetAs(stack, u, FR, PC, x)
      BY <1>1, <1>5, <1>6 DEF SetAs, v
    <2>4. g = FR => \A k \in Codes(stack[FR].clause) : SoftCondition(stack[FR].clause, PC, k) => q \notin (PC + 1)..k
      BY <1>7
    <2> HIDE DEF c
    <2>5. Resumable(stack, a, g, q) /\ stack[g].kind = "frame"
      BY <1>7
    <2> QED
      BY <2>1, <2>2, <2>4, <2>5, ResumableSet
  <1>8. Resumable(u, Len(u) + 1, FR, PC)
    <2>1. Len(stack) + 1 \in 1..(Len(stack) + 1) /\ FR \in 1..((Len(stack) + 1) - 1)
      BY <1>1
    <2>2. \A k \in Codes(c) : PC \notin (PC + 1)..k
      BY <1>1 DEF Codes, Checked
    <2> QED
      BY <1>1, <1>4, <1>7, <2>1, <2>2
  <1>9. ASSUME NEW a \in 1..Len(stack)
        PROVE  CellCoded(u, a)
    <2>0. CellCoded(stack, a) /\ a \in Nat
      BY <1>1 DEF Coded
    <2>1. ASSUME u[a].kind = "frame" PROVE FrameCoded(u, a)
      <3>1. CASE a = FR
        BY <1>1, <1>4, <1>5, <3>1 DEF FrameCoded
      <3>2. CASE a # FR
        BY <1>4, <2>0, <2>1, <3>2 DEF CellCoded, FrameCoded
      <3> QED
        BY <3>1, <3>2
    <2>2. ASSUME u[a].kind = "CHP_CLAUSE" PROVE u[u[a].frame].goal[1] # "catch"
      <3>1. a # FR
        BY <1>1, <1>4, <2>2
      <3>2. u[a] = stack[a] /\ IsC(stack, a)
        BY <1>4, <2>2, <3>1 DEF IsC
      <3>3. stack[a].frame \in 1..Len(stack)
        BY <1>1, <3>2 DEF Linked, IsF
      <3>4. u[stack[a].frame].goal = stack[stack[a].frame].goal
        BY <1>4, <3>3
      <3> QED
        BY <2>0, <2>2, <3>2, <3>4 DEF CellCoded
    <2>3. ASSUME Returns(u, a) PROVE Resumable(u, a, Own(u, a), Cont(u, a))
      <3>1. Own(u, a) = Own(stack, a) /\ Cont(u, a) = Cont(stack, a) /\ Returns(stack, a)
        BY <1>1, <1>4, <2>3 DEF Returns, Own, Cont
      <3>2. Own(stack, a) \in 1..(a - 1) /\ stack[Own(stack, a)].kind = "frame" /\ a \in 1..(Len(stack) + 1)
        BY <1>1, <2>0, <3>1, OwnBelow DEF IsF
      <3>3. Resumable(stack, a, Own(stack, a), Cont(stack, a))
        BY <2>0, <3>1 DEF CellCoded
      <3>4. ASSUME Own(stack, a) = FR, NEW k \in Codes(c), SoftCondition(c, PC, k)
            PROVE  Cont(stack, a) \notin (PC + 1)..k
        <4>1. a \in 1..((Len(stack) + 1) - 1) /\ PC <= PC
          BY <1>1
        <4>2. Unsoftened(stack, Len(stack) + 1, FR, PC)
          BY <1>1 DEF Resumable
        <4>3. \A b \in 1..((Len(stack) + 1) - 1) : Returns(stack, b) /\ Own(stack, b) = FR => Cont(stack, b) \notin (PC + 1)..k
          BY <1>1, <3>4, <4>1, <4>2 DEF Unsoftened
        <4> QED
          BY <3>1, <3>4, <4>1, <4>3
      <3> QED
        BY <1>7, <3>1, <3>2, <3>3, <3>4
    <2> QED
      BY <2>1, <2>2, <2>3 DEF CellCoded
  <1>10. Coded(u)
    BY <1>4, <1>9 DEF Coded
  <1> QED
    BY <1>1, <1>4, <1>5, <1>8, <1>10 DEF u, v

(* The choice point that an instruction pushes goes on where it jumps to. *)
LEMMA OrCoded ==
  ASSUME IInv, KInv, CodeChecked, mode = "run", NEW s, NEW skip, Or(s, skip), Len(s) = Len(stack),
         Whole(s, FR, BFR), Coded(s), Resumable(s, Len(s) + 1, FR, PC),
         s[FR].clause = stack[FR].clause, s[FR].kind = "frame",
         PC + 1 + skip \in Targets(stack[FR].clause, PC),
         Sets(stack[FR].clause, PC) => s[FR].variables[Var(stack[FR].clause, PC)] # 0,
         Op(stack[FR].clause, PC) = "C_SOFTIF" => s[FR].variables[Var(stack[FR].clause, PC)] = Len(s) + 1
  PROVE  KInv'
  <1> DEFINE c == stack[FR].clause
             to == PC + 1 + skip
             n == Len(s) + 1
             t == Append(s, Choice("CHP_JUMP", FR, BFR, to))
  <1>1. /\ FR \in 3..Len(stack) /\ FR \in Nat /\ Len(stack) \in Nat /\ Checked(c) /\ PC \in Codes(c) /\ PC \in Nat
        /\ FR # 2
    <2>1. PC \in Codes(c) /\ Checked(c)
      BY RunsCode
    <2>2. PC \in Nat
      BY <2>1 DEF Codes, Checked
    <2> QED
      BY <2>1, <2>2, RunsCode
  <1>2. Whole(t, FR, n) /\ Len(t) = n /\ (\A a \in 1..Len(s) : t[a] = s[a]) /\ t[n] = Choice("CHP_JUMP", FR, BFR, to)
    BY <1>1, NewChoice
  <1>3. Continue(t, Len(stack) + 1)
    BY DEF Or
  <1>4. t[n].kind = "CHP_JUMP" /\ t[n].frame = FR /\ t[n].next = to
    BY <1>2 DEF Choice
  <1>5. to \in Codes(c) /\ to \in Targets(c, PC)
    BY <1>1, TargetsAhead
  <1> HIDE DEF t, to
  <1>6. n \in Nat /\ n = Len(s) + 1 /\ FR \in 1..(n - 1) /\ (n - 1) = Len(s) /\ n = Len(t)
        /\ Linked(s) /\ Linked(t)
    BY <1>1, <1>2 DEF Whole, Good
  <1>7. Resumable(s, n, FR, to)
    <2>1. Resumable(s, n, FR, PC) /\ Checked(s[FR].clause) /\ to \in Targets(s[FR].clause, PC)
          /\ to \in Codes(s[FR].clause)
      BY <1>1, <1>5
    <2>2. Sets(s[FR].clause, PC) => s[FR].variables[Var(s[FR].clause, PC)] # 0
      OBVIOUS
    <2> HIDE DEF c, n
    <2> QED
      BY <2>1, <2>2, Advance
  <1>8. Coded(t)
    <2>1. Own(t, n) = FR /\ Cont(t, n) = to /\ t[n].kind # "frame" /\ t[n].kind # "CHP_CLAUSE"
      BY <1>4 DEF Own, Cont
    <2> HIDE DEF n
    <2> QED
      BY <1>2, <1>6, <1>7, <2>1, CodedPush
  <1>9. /\ t[FR] = s[FR] /\ t[FR].clause = c /\ t[FR].kind = "frame"
    BY <1>1, <1>2
  <1>10. Resumable(t, n + 1, FR, PC)
    <2>1. t[n].kind = "CHP_JUMP" /\ t[n].frame = FR /\ t[n].next \in Targets(s[FR].clause, PC)
          /\ Checked(s[FR].clause) /\ s[FR].kind = "frame"
      BY <1>1, <1>4, <1>5
    <2>2. Resumable(s, n, FR, PC) /\ \A b \in 1..(n - 1) : t[b] = s[b]
      BY <1>2, <1>6
    <2> HIDE DEF c, n
    <2> QED
      BY <1>6, <2>1, <2>2, ResumablePushed
  <1>11. Resumable(t, n + 1, FR, PC + 1)
    <2>1. Checked(t[FR].clause) /\ Op(t[FR].clause, PC) \notin {"I_EXIT", "I_EXITFACT"}
      BY <1>1, <1>5, <1>9 DEF Targets
    <2>2. PC + 1 \in Codes(t[FR].clause)
      BY <1>1, <1>9, <2>1, Proceeds
    <2>3. Sets(t[FR].clause, PC) => t[FR].variables[Var(t[FR].clause, PC)] # 0
      BY <1>9
    <2>4. Op(t[FR].clause, PC) = "C_SOFTIF" => JumpBelow(t, n + 1, FR, t[FR].variables[Var(t[FR].clause, PC)])
      <3>1. ASSUME Op(c, PC) = "C_SOFTIF" PROVE JumpBelow(t, n + 1, FR, n)
        <4>1. n \in 1..((n + 1) - 1)
          BY <1>6
        <4> QED
          BY <1>4, <4>1 DEF JumpBelow
      <3> QED
        BY <1>9, <3>1
    <2> HIDE DEF n
    <2> QED
      BY <1>1, <1>10, <2>1, <2>2, <2>3, <2>4, Advance
  <1>12. Len(t) + 1 = n + 1 /\ Continue(t, Len(stack) + 1)
    BY <1>2, <1>3
  <1> HIDE DEF n
  <1> QED
    BY <1>8, <1>11, <1>12, ContinuedCoded

LEMMA C_OR_Coded ==
  ASSUME IInv, KInv, CodeChecked, C_OR
  PROVE  KInv'
  <1>1. mode = "run" /\ Op(stack[FR].clause, PC) = "C_OR" /\ Or(stack, Arg(1))
    BY InstructionIs DEF C_OR
  <1>2. /\ Whole(stack, FR, BFR) /\ Coded(stack) /\ Resumable(stack, Len(stack) + 1, FR, PC)
        /\ stack[FR].kind = "frame"
    BY <1>1, RunsCode
  <1>3. PC + 1 + Arg(1) \in Targets(stack[FR].clause, PC)
    BY <1>1 DEF Targets, Arg
  <1> QED
    BY <1>1, <1>2, <1>3, OrCoded DEF Sets

LEMMA C_IFTHENELSE_Coded ==
  ASSUME IInv, KInv, CodeChecked, C_IFTHENELSE \/ C_SOFTIF
  PROVE  KInv'
  <1> DEFINE c == stack[FR].clause
             x == IF C_SOFTIF THEN Len(stack) + 1 ELSE BFR
             u == SetVar(Arg(1), x)
  <1>1. mode = "run" /\ Op(c, PC) \in {"C_IFTHENELSE", "C_NOT", "C_SOFTIF"} /\ Or(u, Arg(2))
        /\ (Op(c, PC) = "C_SOFTIF" => x = Len(stack) + 1) /\ x \in {BFR, Len(stack) + 1}
    <2>1. CASE C_SOFTIF
      <3>1. mode = "run" /\ Op(c, PC) = "C_SOFTIF"
        BY <2>1, InstructionIs DEF C_SOFTIF
      <3> QED
        BY <2>1, <3>1 DEF C_SOFTIF
    <2>2. CASE ~C_SOFTIF
      <3>1. C_IFTHENELSE
        BY <2>2
      <3>2. mode = "run" /\ Op(c, PC) \in {"C_IFTHENELSE", "C_NOT"}
        BY <3>1, InstructionIs DEF C_IFTHENELSE
      <3> QED
        BY <2>2, <3>1, <3>2 DEF C_IFTHENELSE
    <2> QED
      BY <2>1, <2>2
  <1>2. x \in Nat /\ x >= BFR /\ x # 0
    BY <1>1, Running
  <1>3. Sets(c, PC)
    BY <1>1 DEF Sets
  <1> HIDE DEF x
  <1>4. /\ Coded(u) /\ Len(u) = Len(stack) /\ Resumable(u, Len(u) + 1, FR, PC)
        /\ u[FR].clause = c /\ u[FR].kind = "frame" /\ u[FR].variables[Var(c, PC)] = x
    BY <1>1, <1>2, <1>3, SetCoded
  <1>5. Whole(u, FR, BFR)
    BY <1>1, <1>2, VarSet
  <1>6. PC + 1 + Arg(2) \in Targets(c, PC)
    <2>1. Arg(2) = c.codes[PC][3]
      BY DEF Arg
    <2> QED
      BY <1>1, <2>1 DEF Targets
  <1> HIDE DEF u
  <1>7. Sets(c, PC) => u[FR].variables[Var(c, PC)] # 0
    BY <1>2, <1>4
  <1>8. Op(c, PC) = "C_SOFTIF" => u[FR].variables[Var(c, PC)] = Len(u) + 1
    BY <1>1, <1>4
  <1>9. mode = "run" /\ Or(u, Arg(2))
    BY <1>1
  <1> QED
    BY <1>4, <1>5, <1>6, <1>7, <1>8, <1>9, OrCoded

LEMMA C_IFTHEN_Coded ==
  ASSUME IInv, KInv, CodeChecked, C_IFTHEN
  PROVE  KInv'
  <1> DEFINE c == stack[FR].clause
             u == SetVar(Arg(1), BFR)
  <1>1. mode = "run" /\ Op(c, PC) \in {"C_IFTHEN", "C_SOFTIFTHEN"} /\ Continue(u, BFR)
    BY InstructionIs DEF C_IFTHEN
  <1>2. BFR # 0 /\ Sets(c, PC)
    BY <1>1, Running DEF Sets
  <1>3. /\ Coded(u) /\ Len(u) = Len(stack) /\ Resumable(u, Len(u) + 1, FR, PC)
        /\ u[FR].clause = c /\ u[FR].variables[Var(c, PC)] = BFR
    BY <1>1, <1>2, SetCoded
  <1>4. Checked(c) /\ PC \in Codes(c)
    BY <1>1, RunsCode
  <1> HIDE DEF u
  <1>5. PC + 1 \in Codes(u[FR].clause) /\ Checked(u[FR].clause)
    BY <1>1, <1>3, <1>4, Proceeds
  <1>6. u[FR].variables[Var(u[FR].clause, PC)] # 0 /\ Op(u[FR].clause, PC) # "C_SOFTIF"
    BY <1>1, <1>2, <1>3
  <1>7. Resumable(u, Len(u) + 1, FR, PC + 1)
    <2> DEFINE n == Len(u) + 1
               q == PC + 1
    <2>1. Resumable(u, n, FR, PC) /\ q = PC + 1 /\ q \in Codes(u[FR].clause)
      BY <1>3, <1>5
    <2> HIDE DEF c, n
    <2> QED
      BY <1>5, <1>6, <2>1, Advance DEF n
  <1> QED
    BY <1>1, <1>3, <1>7, ContinuedCoded

(* Other flags, or other links between choice points *)
LEMMA SameCoded ==
  ASSUME NEW s, Linked(s), Coded(s), NEW t, Len(t) = Len(s), \A b \in 1..Len(s) : AsCoded(s, t, b)
  PROVE  /\ Coded(t)
         /\ \A f \in 1..Len(s) : \A q : s[f].kind = "frame" /\ Resumable(s, Len(s) + 1, f, q) =>
              Resumable(t, Len(t) + 1, f, q)
  <1>1. Len(s) \in Nat /\ Len(s) >= 2
    BY DEF Linked, Older
  <1>2. Coded(t)
    <2> DEFINE m == Len(s)
    <2>1. m \in Nat /\ m >= 2 /\ m <= Len(s) /\ m = Len(t) /\ \A b \in 1..m : AsCoded(s, t, b)
      BY <1>1
    <2> HIDE DEF m
    <2> QED
      BY <2>1, CodedSame
  <1>3. ASSUME NEW f \in 1..Len(s), NEW q, s[f].kind = "frame", Resumable(s, Len(s) + 1, f, q)
        PROVE  Resumable(t, Len(s) + 1, f, q)
    <2>1. Len(s) + 1 \in Nat /\ f \in 1..((Len(s) + 1) - 1) /\ \A a \in 1..((Len(s) + 1) - 1) : AsCoded(s, t, a)
      BY <1>1
    <2> QED
      BY <1>3, <2>1, ResumableSame
  <1> QED
    BY <1>2, <1>3

(* The instruction only changes flags or links. *)
LEMMA AlteredCoded ==
  ASSUME IInv, KInv, CodeChecked, mode = "run", ~Sets(stack[FR].clause, PC),
         Op(stack[FR].clause, PC) \notin {"I_EXIT", "I_EXITFACT"},
         NEW t, Len(t) = Len(stack), \A b \in 1..Len(stack) : AsCoded(stack, t, b)
  PROVE  Coded(t) /\ Resumable(t, Len(t) + 1, FR, PC + 1)
  <1>1. Linked(stack) /\ Coded(stack) /\ FR \in 3..Len(stack) /\ Len(stack) \in Nat /\ stack[FR].kind = "frame"
    BY RunsCode
  <1>2. Resumable(stack, Len(stack) + 1, FR, PC + 1) /\ FR \in 1..Len(stack)
    BY <1>1, Behind
  <1> QED
    BY <1>1, <1>2, SameCoded

LEMMA FlagsSame ==
  ASSUME NEW s, IsSeq(s), NEW f \in 1..Len(s), IsF(s, f), DOMAIN s[f] = FrameFields, NEW fl
  PROVE  LET u == FlaggedIn(s, f, fl) IN Len(u) = Len(s) /\ \A b \in 1..Len(s) : AsCoded(s, u, b)
  <1> DEFINE u == FlaggedIn(s, f, fl)
  <1>1. /\ Len(u) = Len(s) /\ \A a \in 1..Len(s) : a # f => u[a] = s[a]
        /\ u[f].kind = s[f].kind /\ u[f].parent = s[f].parent
        /\ u[f].goal = s[f].goal /\ u[f].clause = s[f].clause
        /\ u[f].programPointer = s[f].programPointer /\ u[f].variables = s[f].variables
    BY FlaggedCells
  <1>2. s[f].kind = "frame"
    BY DEF IsF
  <1> HIDE DEF u
  <1>3. \A b \in 1..Len(s) : AsCoded(s, u, b)
    <2> SUFFICES ASSUME NEW b \in 1..Len(s) PROVE AsCoded(s, u, b)
      OBVIOUS
    <2>1. CASE b = f
      BY <1>1, <1>2, <2>1 DEF AsCoded
    <2>2. CASE b # f
      BY <1>1, <2>2 DEF AsCoded
    <2> QED
      BY <2>1, <2>2
  <1> QED
    BY <1>1, <1>3 DEF u

LEMMA C_SOFTCUT_Coded ==
  ASSUME IInv, KInv, CodeChecked, C_SOFTCUT
  PROVE  KInv'
  <1> DEFINE ch == ChoiceVar
  <1>1. mode = "run" /\ Op(stack[FR].clause, PC) = "C_SOFTCUT"
        /\ IF BFR = ch THEN Continue(stack, stack[BFR].parent) ELSE Continue(Unlink(ch), BFR)
    BY InstructionIs DEF C_SOFTCUT
  <1>2. ~Sets(stack[FR].clause, PC) /\ Op(stack[FR].clause, PC) \notin {"I_EXIT", "I_EXITFACT"}
    BY <1>1 DEF Sets
  <1>3. Whole(stack, FR, BFR) /\ Linked(stack) /\ Coded(stack) /\ IsSeq(stack) /\ Len(stack) \in Nat
    BY <1>1, RunsCode
  <1>4. CASE BFR = ch
    <2>1. Resumable(stack, Len(stack) + 1, FR, PC + 1)
      BY <1>1, <1>2, Behind
    <2> QED
      BY <1>1, <1>3, <1>4, <2>1, ContinuedCoded
  <1>5. CASE BFR # ch
    <2> DEFINE t == Unlink(ch)
    <2>1. \A b \in 1..Len(stack) : t[b] = IF b \in ChoiceChain(BFR) /\ stack[b].parent = ch
                                          THEN [stack[b] EXCEPT !.parent = stack[ch].parent] ELSE stack[b]
      BY <1>3 DEF Unlink, IsSeq
    <2>2. Len(t) = Len(stack)
      <3>1. DOMAIN t = 1..Len(stack) /\ DOMAIN stack = 1..Len(stack)
        BY <1>3 DEF Unlink, IsSeq
      <3>2. t = [a \in 1..Len(stack) |-> t[a]]
        BY <1>3, <3>1 DEF Unlink
      <3>3. t \in Seq({t[a] : a \in 1..Len(stack)})
        <4> HIDE DEF t
        <4>1. t \in [1..Len(stack) -> {t[a] : a \in 1..Len(stack)}]
          BY <3>2
        <4> QED
          BY <1>3, <4>1
      <3> HIDE DEF t
      <3> QED
        BY <1>3, <3>1, <3>3, EqualIntervals
    <2>3. ASSUME NEW b \in 1..Len(stack) PROVE AsCoded(stack, t, b)
      <3>1. CASE b \in ChoiceChain(BFR) /\ stack[b].parent = ch
        <4>1. IsC(stack, b)
          BY <1>1, <3>1, Running, GoodFacts DEF ChoiceChain
        <4>2. DOMAIN stack[b] = ChoiceFields /\ stack[b].kind # "frame"
          BY <1>3, <4>1 DEF Whole, Cells, IsC
        <4>3. t[b] = [stack[b] EXCEPT !.parent = stack[ch].parent]
          BY <2>1, <3>1
        <4> HIDE DEF t, ch
        <4>4. t[b].kind = stack[b].kind /\ t[b].frame = stack[b].frame /\ t[b].next = stack[b].next
          BY <4>2, <4>3 DEF ChoiceFields
        <4> QED
          BY <4>2, <4>4 DEF AsCoded
      <3>2. CASE ~(b \in ChoiceChain(BFR) /\ stack[b].parent = ch)
        <4>1. t[b] = stack[b]
          BY <2>1, <3>2
        <4> HIDE DEF t
        <4> QED
          BY <4>1 DEF AsCoded
      <3> QED
        BY <3>1, <3>2
    <2>4. Continue(t, BFR)
      BY <1>1, <1>5
    <2> HIDE DEF t
    <2>5. Coded(t) /\ Resumable(t, Len(t) + 1, FR, PC + 1)
      BY <1>1, <1>2, <2>2, <2>3, AlteredCoded
    <2> QED
      BY <1>1, <2>4, <2>5, ContinuedCoded
  <1> QED
    BY <1>4, <1>5

LEMMA I_EXITCLEANUP_Coded ==
  ASSUME IInv, KInv, CodeChecked, I_EXITCLEANUP
  PROVE  KInv'
  <1>1. mode = "run" /\ Op(stack[FR].clause, PC) = "I_EXITCLEANUP"
    BY InstructionIs DEF I_EXITCLEANUP
  <1>2. ~Sets(stack[FR].clause, PC) /\ Op(stack[FR].clause, PC) \notin {"I_EXIT", "I_EXITFACT"}
    BY <1>1 DEF Sets
  <1>3. /\ Coded(stack) /\ IsSeq(stack) /\ IsF(stack, FR) /\ FR \in 1..Len(stack) /\ DOMAIN stack[FR] = FrameFields
    BY <1>1, RunsCode DEF IsF
  <1>4. CASE Deterministic
    <2> DEFINE t == FlaggedIn(stack, FR, "FR_CATCHED")
    <2>1. Continue(t, stack[BFR].parent)
      BY <1>4 DEF I_EXITCLEANUP, Flagged, FlaggedIn
    <2>2. Len(t) = Len(stack) /\ \A b \in 1..Len(stack) : AsCoded(stack, t, b)
      BY <1>3, FlagsSame
    <2> HIDE DEF t
    <2>3. Coded(t) /\ Resumable(t, Len(t) + 1, FR, PC + 1)
      BY <1>1, <1>2, <2>2, AlteredCoded
    <2> QED
      BY <1>1, <2>1, <2>3, ContinuedCoded
  <1>5. CASE ~Deterministic
    <2>1. Continue(stack, BFR)
      BY <1>5 DEF I_EXITCLEANUP
    <2>2. Resumable(stack, Len(stack) + 1, FR, PC + 1)
      BY <1>1, <1>2, Behind
    <2> QED
      BY <1>1, <1>3, <2>1, <2>2, ContinuedCoded
  <1> QED
    BY <1>4, <1>5

(* catch/3 or setup_call_cleanup/3 calls its goal. *)
LEMMA CatchCoded ==
  ASSUME IInv, KInv, CodeChecked, CodeChecked', mode = "run",
         NEW s, Whole(s, FR, BFR), Len(s) = Len(stack), Coded(s), Resumable(s, Len(s) + 1, FR, PC + 1),
         IsF(s, FR), NEW goal, UserCall(WithCatch(s), Len(stack) + 1, goal, FR, PC + 1)
  PROVE  KInv'
  <1> DEFINE n == Len(s) + 1
             t == WithCatch(s)
  <1>1. FR # 2
    BY RunsCode
  <1>2. t = Append(s, Choice("CHP_CATCH", FR, BFR, 0))
    BY DEF WithCatch
  <1>3. Whole(t, FR, n) /\ Len(t) = n /\ Len(s) \in Nat /\ (\A a \in 1..Len(s) : t[a] = s[a])
        /\ t[n] = Choice("CHP_CATCH", FR, BFR, 0)
    BY <1>1, <1>2, NewChoice
  <1>4. t[n].kind = "CHP_CATCH" /\ ~Returns(t, n)
    BY <1>3 DEF Choice, Returns
  <1>5. PICK g : EnterGoal(log, t, n, g, FR, PC + 1)
    BY DEF UserCall
  <1> HIDE DEF t
  <1>6. Linked(s) /\ Linked(t) /\ n = Len(s) + 1 /\ n = Len(t) /\ n \in Nat /\ n - 1 = Len(s)
    BY <1>3 DEF Whole, Good
  <1>7. FR \in 1..Len(s) /\ s[FR].kind = "frame"
    BY DEF IsF
  <1>8. Coded(t)
    <2>1. t[n].kind # "frame" /\ t[n].kind # "CHP_CLAUSE"
      BY <1>4
    <2> HIDE DEF n
    <2> QED
      BY <1>3, <1>4, <1>6, <2>1, CodedPush
  <1>9. Resumable(t, n, FR, PC + 1)
    <2>1. FR \in 1..(n - 1) /\ \A b \in 1..(n - 1) : AsCoded(s, t, b)
      BY <1>3, <1>6, <1>7 DEF AsCoded
    <2> HIDE DEF n
    <2> QED
      BY <1>6, <1>7, <2>1, ResumableSame
  <1>10. Resumable(t, n + 1, FR, PC + 1)
    <2>1. Softened(t, n + 1, FR, PC + 1)
      <3>1. \A x : JumpBelow(t, n, FR, x) => JumpBelow(t, n + 1, FR, x)
        BY <1>6 DEF JumpBelow
      <3> HIDE DEF n
      <3> QED
        BY <1>9, <3>1 DEF Resumable, Softened
    <2> HIDE DEF n
    <2>2. \A b \in 1..((n + 1) - 1) : Returns(t, b) => b \in 1..(n - 1)
      BY <1>4, <1>6
    <2>3. Unsoftened(t, n + 1, FR, PC + 1)
      BY <1>9, <2>2 DEF Resumable, Unsoftened
    <2>4. Above(t, n + 1, FR)
      <3>1. \A b \in (FR + 1)..((n + 1) - 1) : Returns(t, b) => b \in (FR + 1)..(n - 1)
        BY <1>4, <1>6
      <3> QED
        BY <1>9, <3>1 DEF Resumable, Above
    <2> QED
      BY <1>9, <2>1, <2>3, <2>4 DEF Resumable
  <1>11. Resumable(t, Len(t) + 1, FR, PC + 1)
    BY <1>3, <1>10
  <1> HIDE DEF n
  <1> QED
    BY <1>1, <1>3, <1>5, <1>8, <1>11, EnteredCoded

LEMMA I_CATCH_Coded ==
  ASSUME IInv, KInv, CodeChecked, CodeChecked', I_CATCH
  PROVE  KInv'
  <1>1. mode = "run" /\ Op(stack[FR].clause, PC) = "I_CATCH"
    BY InstructionIs DEF I_CATCH
  <1>2. Whole(stack, FR, BFR) /\ Coded(stack) /\ IsF(stack, FR)
    BY <1>1, RunsCode
  <1>3. Resumable(stack, Len(stack) + 1, FR, PC + 1)
    BY <1>1, Behind DEF Sets
  <1>4. PICK goal : UserCall(WithCatch(stack), Len(stack) + 1, goal, FR, PC + 1)
    BY DEF I_CATCH
  <1> QED
    BY <1>1, <1>2, <1>3, <1>4, CatchCoded

LEMMA I_CALLCLEANUP_Coded ==
  ASSUME IInv, KInv, CodeChecked, CodeChecked', I_CALLCLEANUP
  PROVE  KInv'
  <1> DEFINE s == Flagged(FR, "FR_CLEANUP")
  <1>1. mode = "run" /\ Op(stack[FR].clause, PC) = "I_CALLCLEANUP"
    BY InstructionIs DEF I_CALLCLEANUP
  <1>2. Whole(stack, FR, BFR) /\ IsSeq(stack) /\ IsF(stack, FR) /\ FR \in 1..Len(stack)
        /\ DOMAIN stack[FR] = FrameFields /\ stack[FR].kind = "frame"
    BY <1>1, RunsCode DEF IsF
  <1>3. PICK goal : UserCall(WithCatch(s), Len(stack) + 1, goal, FR, PC + 1)
    BY DEF I_CALLCLEANUP
  <1>4. s = FlaggedIn(stack, FR, "FR_CLEANUP")
    BY DEF Flagged, FlaggedIn
  <1> HIDE DEF s
  <1>5. Whole(s, FR, BFR) /\ s[FR].kind = stack[FR].kind
    BY <1>2, <1>4, WholeFlag
  <1>6. Len(s) = Len(stack) /\ \A b \in 1..Len(stack) : AsCoded(stack, s, b)
    BY <1>2, <1>4, FlagsSame
  <1>7. Coded(s) /\ Resumable(s, Len(s) + 1, FR, PC + 1)
    BY <1>1, <1>6, AlteredCoded DEF Sets
  <1>8. IsF(s, FR)
    BY <1>2, <1>5, <1>6 DEF IsF
  <1> QED
    BY <1>1, <1>3, <1>5, <1>6, <1>7, <1>8, CatchCoded

LEMMA B_THROW_Coded ==
  ASSUME IInv, KInv, CodeChecked, B_THROW
  PROVE  KInv'
  <1>1. /\ catcher' \in Chain(stack)[FR]
        /\ catcher' # 2 => stack' = FlaggedIn(stack, catcher', "FR_CATCHED")
        /\ catcher' = 2 => stack' = stack
        /\ mode' = "unwind" /\ mode = "run"
    BY Caught
  <1>2. Whole(stack, FR, BFR) /\ Linked(stack) /\ Coded(stack) /\ IsSeq(stack)
    BY <1>1, RunsCode
  <1>3. IsF(stack, catcher') /\ catcher' \in 1..Len(stack)
    BY <1>1, Running, GoodFacts DEF IsF
  <1>4. DOMAIN stack[catcher'] = FrameFields
    BY <1>2, <1>3 DEF Whole, Cells, IsF
  <1>5. Coded(stack')
    <2>1. CASE catcher' = 2
      BY <1>1, <1>2, <2>1
    <2>2. CASE catcher' # 2
      <3> DEFINE u == FlaggedIn(stack, catcher', "FR_CATCHED")
      <3>1. Len(u) = Len(stack) /\ \A b \in 1..Len(stack) : AsCoded(stack, u, b)
        BY <1>2, <1>3, <1>4, FlagsSame
      <3> HIDE DEF u
      <3>2. Coded(u)
        BY <1>2, <3>1, SameCoded
      <3> QED
        BY <1>1, <2>2, <3>2 DEF u
    <2> QED
      BY <2>1, <2>2
  <1> QED
    BY <1>1, <1>5 DEF KInv

LEMMA Unwind_Coded ==
  ASSUME IInv, KInv, Unwind
  PROVE  KInv'
  <1>1. mode = "unwind" /\ mode' = "unwind" /\ stack' = SubSeq(stack, 1, FR - 1) /\ FR \in 3..Len(stack)
    BY Unwound DEF Unwind
  <1>2. Linked(stack) /\ IsSeq(stack) /\ Len(stack) \in Nat /\ Coded(stack)
    BY <1>1, Running DEF Good, KInv
  <1>3. FR - 1 \in Nat /\ FR - 1 >= 2 /\ FR - 1 <= Len(stack)
    BY <1>1, <1>2
  <1>4. Coded(SubSeq(stack, 1, FR - 1))
    BY <1>2, <1>3, CodedUpTo
  <1> QED
    BY <1>1, <1>4 DEF KInv

(* catch/3 goes on with its I_EXIT. *)
LEMMA CatchResumes ==
  ASSUME NEW s, NEW f \in Nat, f = Len(s), CallsCatch(s[f].clause)
  PROVE  Resumable(s, f + 1, f, 3)
  <1> DEFINE c == s[f].clause
  <1>1. Codes(c) = 1..3 /\ Op(c, 1) = "I_CATCH" /\ Op(c, 2) = "I_EXITCATCH" /\ Op(c, 3) = "I_EXIT"
    BY DEF CallsCatch, Codes, Op
  <1>2. \A i \in Codes(c) : i = 1 \/ i = 2 \/ i = 3
    BY <1>1
  <1> HIDE DEF c
  <1>3. \A i \in Codes(c) : ~Sets(c, i) /\ Op(c, i) # "C_SOFTIF"
    BY <1>1, <1>2 DEF Sets
  <1>4. \A i, p \in Codes(c) : ~SoftCondition(c, i, p)
    BY <1>3 DEF SoftCondition
  <1>5. Assigned(s, f, 3) /\ Softened(s, f + 1, f, 3) /\ Unsoftened(s, f + 1, f, 3)
    BY <1>3, <1>4 DEF Assigned, Softened, Unsoftened, c
  <1>6. Above(s, f + 1, f)
    BY DEF Above
  <1>7. 3 \in Codes(c)
    BY <1>1
  <1> QED
    BY <1>5, <1>6, <1>7 DEF Resumable, c

LEMMA Recover_Coded ==
  ASSUME IInv, CInv, KInv, CodeChecked', Recover
  PROVE  KInv'
  <1> DEFINE e == Oldest(FR)
             t == SubSeq(stack, 1, FR)
  <1>1. /\ \E g : EnterGoal(log, t, e, g, FR, 3)
        /\ Whole(t, FR, e) /\ FR # 2 /\ FR = catcher
        /\ Len(t) = FR /\ \A a \in 1..FR : t[a] = stack[a]
        /\ FR \in 3..Len(stack)
    BY Recovered
  <1>2. mode = "unwind"
    BY DEF Recover
  <1>3. Linked(stack) /\ IsSeq(stack) /\ Len(stack) \in Nat /\ Coded(stack) /\ IsF(stack, FR)
    BY <1>2, Running DEF Good, KInv
  <1>4. FR \in Nat /\ FR >= 2 /\ FR <= Len(stack) /\ FR \in 1..FR /\ FR \in 1..Len(stack)
    BY <1>1, <1>3
  <1>5. Coded(t)
    BY <1>3, <1>4, CodedUpTo
  <1>6. stack[FR].goal[1] = "catch"
    BY <1>1, <1>2 DEF CInv
  <1>7. CallsCatch(t[FR].clause)
    <2>1. FrameCoded(stack, FR) /\ t[FR] = stack[FR]
      BY <1>1, <1>3, <1>4 DEF Coded, CellCoded, IsF
    <2> HIDE DEF t
    <2> QED
      BY <1>6, <2>1 DEF FrameCoded
  <1> HIDE DEF t, e
  <1>8. Resumable(t, Len(t) + 1, FR, 3)
    BY <1>1, <1>4, <1>7, CatchResumes
  <1>9. PICK g : EnterGoal(log, t, e, g, FR, 3)
    BY <1>1
  <1> QED
    BY <1>1, <1>5, <1>8, <1>9, EnteredCoded

LEMMA BacktrackJump_Coded ==
  ASSUME IInv, KInv, BacktrackJump
  PROVE  KInv'
  <1> DEFINE g == stack[BFR].frame
             t == SubSeq(stack, 1, BFR - 1)
  <1>1. mode = "fail" /\ stack[BFR].kind = "CHP_JUMP" /\ FR' = g /\ PC' = stack[BFR].next
        /\ stack' = UpTo(BFR) /\ mode' = "run"
    BY DEF BacktrackJump
  <1>2. BFR # 1
    BY <1>1, Running DEF Whole, Cells
  <1>3. UpTo(BFR) = t /\ g \in 3..(BFR - 1) /\ BFR \in 1..Len(stack) /\ Len(stack) \in Nat /\ BFR \in Nat
        /\ Len(t) = BFR - 1 /\ (\A a \in 1..(BFR - 1) : t[a] = stack[a]) /\ IsF(t, g)
    BY <1>1, <1>2, FailedBack
  <1>4. Linked(stack) /\ IsSeq(stack) /\ Coded(stack)
    BY <1>1, Running DEF Good, KInv
  <1>5. BFR - 1 \in Nat /\ BFR - 1 >= 2 /\ BFR - 1 <= Len(stack) /\ (BFR - 1) + 1 = BFR /\ g \in 1..(BFR - 1)
    BY <1>3
  <1>6. /\ Coded(t)
        /\ \A f \in 1..(BFR - 1) : \A q : stack[f].kind = "frame" /\ Resumable(stack, (BFR - 1) + 1, f, q) =>
             Resumable(t, (BFR - 1) + 1, f, q)
    BY <1>4, <1>5, CodedUpTo
  <1>7. stack[g].kind = "frame"
    <2>1. t[g] = stack[g] /\ t[g].kind = "frame"
      BY <1>3, <1>5 DEF IsF
    <2> QED
      BY <2>1
  <1>8. Resumable(stack, BFR, g, stack[BFR].next)
    <2>1. Returns(stack, BFR) /\ Own(stack, BFR) = g /\ Cont(stack, BFR) = stack[BFR].next
      BY <1>1, <1>3 DEF Returns, Own, Cont
    <2>2. CellCoded(stack, BFR)
      BY <1>3, <1>4 DEF Coded
    <2> QED
      BY <2>1, <2>2 DEF CellCoded
  <1> HIDE DEF g, t
  <1>9. Resumable(t, Len(t) + 1, g, stack[BFR].next)
    BY <1>3, <1>5, <1>6, <1>7, <1>8
  <1> QED
    BY <1>1, <1>3, <1>6, <1>9 DEF KInv

LEMMA LinkedUpTo ==
  ASSUME NEW s, Linked(s), NEW n \in Nat, n >= 2, n <= Len(s), NEW t, Len(t) = n, \A a \in 1..n : t[a] = s[a]
  PROVE  Linked(t)
  <1>1. Len(s) \in Nat /\ \A a \in 1..n : a \in 1..Len(s) /\ a \in Nat
    BY DEF Linked, Older
  <1>2. \A a \in 1..n : (IsF(t, a) <=> IsF(s, a)) /\ (IsC(t, a) <=> IsC(s, a))
    BY <1>1 DEF IsF, IsC
  <1>3. \A a \in 1..n : s[a].parent \in 0..(a - 1)
    BY <1>1 DEF Linked, Older
  <1>4. Older(t)
    BY <1>3 DEF Older
  <1>5. ASSUME NEW a \in 1..Len(t), t[a].parent # 0
        PROVE  IsF(t, a) <=> IsF(t, t[a].parent)
    <2>1. a \in 1..n /\ a \in 1..Len(s) /\ t[a] = s[a]
      BY <1>1
    <2>2. s[a].parent \in 1..n
      BY <1>3, <1>5, <2>1
    <2>3. IsF(s, a) <=> IsF(s, s[a].parent)
      BY <1>5, <2>1 DEF Linked
    <2> QED
      BY <1>2, <2>1, <2>2, <2>3
  <1>6. ASSUME NEW a \in 1..Len(t), IsC(t, a)
        PROVE  IsF(t, t[a].frame) /\ (t[a].frame < a \/ a = 1)
    <2>1. a \in 1..n /\ a \in 1..Len(s) /\ t[a] = s[a] /\ IsC(s, a)
      BY <1>1, <1>2, <1>6
    <2>2. IsF(s, s[a].frame) /\ (s[a].frame < a \/ a = 1)
      BY <2>1 DEF Linked
    <2>3. s[a].frame \in 1..n
      <3>1. s[1].frame = 2 /\ 2 \in 1..n
        BY DEF Linked
      <3>2. CASE a = 1
        BY <3>1, <3>2
      <3>3. CASE a # 1
        BY <2>1, <2>2, <3>3 DEF IsF
      <3> QED
        BY <3>2, <3>3
    <2> QED
      BY <1>2, <2>1, <2>2, <2>3
  <1>7. IsC(t, 1) /\ IsF(t, 2) /\ t[1].frame = 2 /\ t[2].parent = 0 /\ Len(t) >= 2
    <2>1. 1 \in 1..n /\ 2 \in 1..n
      OBVIOUS
    <2>2. IsC(s, 1) /\ IsF(s, 2) /\ s[1].frame = 2 /\ s[2].parent = 0
      BY DEF Linked
    <2> QED
      BY <1>2, <2>1, <2>2
  <1>8. \A a \in 3..Len(t) : t[a].parent # 0
    <2>1. \A a \in 3..n : a \in 1..n /\ a \in 3..Len(s)
      BY <1>1
    <2> QED
      BY <2>1 DEF Linked
  <1>9. Len(t) >= 3 => IsF(t, 3) /\ t[3].parent = 2
    <2>1. n >= 3 => 3 \in 1..n /\ Len(s) >= 3
      BY <1>1
    <2>2. n >= 3 => IsF(s, 3) /\ s[3].parent = 2
      BY <2>1 DEF Linked
    <2> QED
      BY <1>2, <2>1, <2>2
  <1> QED
    BY <1>4, <1>5, <1>6, <1>7, <1>8, <1>9 DEF Linked

LEMMA BacktrackClause_Coded ==
  ASSUME IInv, KInv, CodeChecked', BacktrackClause
  PROVE  KInv'
  <1> DEFINE f == BFR - 1
             ch == stack[BFR]
             cs == Clauses(stack[f].goal)
             cl == cs[ch.next]
             fr == [stack[f] EXCEPT !.clause = cl, !.variables = [v \in 1..cl.variables |-> 0]]
             low == SubSeq(stack, 1, f - 1)
             t == Append(low, fr)
  <1>1. /\ stack[BFR].frame = f /\ f \in 3..Len(stack) /\ BFR \in 4..Len(stack)
        /\ FR' = f /\ PC' = 1 /\ mode' = "run" /\ mode = "fail" /\ Whole(stack', f, BFR')
        /\ Len(stack') \in Nat /\ Len(stack') >= f
        /\ \A a \in 1..Len(stack') : a > f =>
             stack'[a].kind = "CHP_CLAUSE" /\ stack'[a].frame = f /\ a = f + 1
        /\ stack'[f].kind = "frame"
    BY NextClause
  <1>2. Linked(stack) /\ IsSeq(stack) /\ Coded(stack) /\ Cells(stack) /\ Len(stack) \in Nat /\ stack[BFR].kind = "CHP_CLAUSE"
    BY <1>1, Running DEF Good, KInv, Whole, BacktrackClause
  <1>3. f \in Nat /\ f - 1 \in Nat /\ f - 1 >= 2 /\ f - 1 <= Len(stack) /\ (f - 1) + 1 = f /\ f \in 1..Len(stack)
        /\ BFR \in 1..Len(stack) /\ BFR \in Nat
    BY <1>1, <1>2
  <1>4. IsF(stack, f) /\ DOMAIN stack[f] = FrameFields
    <2>1. IsC(stack, BFR)
      BY <1>2, <1>3 DEF IsC
    <2>2. IsF(stack, f)
      BY <1>1, <1>3, <2>1, <1>2 DEF Linked
    <2> QED
      BY <1>2, <1>3, <2>2 DEF Cells, IsF
  <1>5. \/ stack' = t
        \/ \E q : stack' = Append(t, q)
    <2>1. IF ch.next < Len(cs) THEN stack' = low \o <<fr, Choice("CHP_CLAUSE", f, ch.parent, ch.next + 1)>> ELSE stack' = t
      BY <1>1 DEF BacktrackClause, UpTo
    <2>2. IsSeq(low)
      BY <1>2, <1>3, Shortened
    <2>3. \A q : low \o <<fr, q>> = Append(t, q)
      <3> HIDE DEF low, fr
      <3> QED
        BY <2>2, Joined
    <2> HIDE DEF low, fr, t
    <2> QED
      BY <2>1, <2>3
  <1>6. /\ Coded(low) /\ Len(low) = f - 1 /\ (\A a \in 1..(f - 1) : low[a] = stack[a]) /\ IsSeq(low)
        /\ \A g \in 1..(f - 1) : \A q : stack[g].kind = "frame" /\ Resumable(stack, (f - 1) + 1, g, q) =>
             Resumable(low, (f - 1) + 1, g, q)
    BY <1>2, <1>3, CodedUpTo, Shortened
  <1>7. /\ fr.kind = "frame" /\ fr.parent = stack[f].parent /\ fr.programPointer = stack[f].programPointer
        /\ fr.goal = stack[f].goal /\ fr.clause = cl /\ DOMAIN fr.variables = 1..cl.variables
    <2>1. stack[f].kind = "frame" /\ DOMAIN stack[f] = FrameFields
      BY <1>4 DEF IsF
    <2> HIDE DEF f, cl
    <2> QED
      BY <2>1 DEF FrameFields
  <1>8. stack[f].goal[1] # "catch"
    <2>1. CellCoded(stack, BFR)
      BY <1>2, <1>3 DEF Coded
    <2> QED
      BY <1>1, <1>2, <2>1 DEF CellCoded
  <1>9. Linked(low)
    <2> HIDE DEF low, f
    <2> QED
      BY <1>2, <1>3, <1>6, LinkedUpTo
  <1> HIDE DEF low, fr
  <1>10. IsSeq(t) /\ Len(t) = f /\ (\A a \in 1..(f - 1) : t[a] = low[a]) /\ t[f] = fr
    <2>1. Len(t) = Len(low) + 1 /\ IsSeq(t) /\ (\A a \in 1..Len(low) : t[a] = low[a]) /\ t[Len(low) + 1] = fr
      BY <1>6, Appended
    <2> HIDE DEF t, f
    <2> QED
      BY <1>3, <1>6, <2>1
  <1> HIDE DEF t, cl, cs
  <1>11. Linked(stack') /\ IsSeq(stack')
    BY <1>1 DEF Whole, Good, Cells
  <1>12. Linked(t) /\ \A a \in 1..f : stack'[a] = t[a]
    <2>1. CASE stack' = t
      BY <1>11, <2>1
    <2>2. CASE \E q : stack' = Append(t, q)
      <3>1. PICK q : stack' = Append(t, q)
        BY <2>2
      <3> DEFINE u == Append(t, q)
      <3>2. Len(u) = f + 1 /\ \A a \in 1..f : u[a] = t[a]
        BY <1>10, Appended
      <3> HIDE DEF u, f
      <3>3. Len(stack') = f + 1 /\ \A a \in 1..f : stack'[a] = t[a]
        BY <3>1, <3>2 DEF u
      <3>4. f >= 2 /\ f <= Len(stack')
        BY <1>3, <3>3
      <3>5. \A a \in 1..f : t[a] = stack'[a]
        BY <3>3
      <3>6. Linked(t)
        BY <1>3, <1>10, <1>11, <3>4, <3>5, LinkedUpTo
      <3> QED
        BY <3>3, <3>6
    <2> QED
      BY <1>5, <2>1, <2>2
  <1>13. Coded(t)
    <2>1. ASSUME Returns(t, f) PROVE Resumable(low, f, Own(t, f), Cont(t, f))
      <3>1. Returns(stack, f) /\ Own(stack, f) = Own(t, f) /\ Cont(stack, f) = Cont(t, f)
        BY <1>4, <1>7, <1>10, <2>1 DEF Returns, Own, Cont, IsF
      <3>2. Resumable(stack, f, Own(t, f), Cont(t, f))
        BY <1>2, <1>3, <3>1 DEF Coded, CellCoded
      <3>3. Own(t, f) \in 1..(f - 1) /\ stack[Own(t, f)].kind = "frame"
        BY <1>2, <1>3, <3>1, OwnBelow DEF IsF
      <3> QED
        BY <1>3, <1>6, <3>2, <3>3
    <2>2. FrameCoded(t, f)
      BY <1>7, <1>8, <1>10 DEF FrameCoded
    <2>3. f = Len(low) + 1 /\ f = Len(t) /\ \A a \in 1..Len(low) : t[a] = low[a]
      BY <1>3, <1>6, <1>10
    <2>4. t[f].kind = "frame"
      BY <1>7, <1>10
    <2> HIDE DEF f
    <2> QED
      BY <1>6, <1>9, <1>12, <2>1, <2>2, <2>3, <2>4, CodedPush
  <1>14. Coded(stack')
    <2>1. CASE stack' = t
      BY <1>13, <2>1
    <2>2. CASE \E q : stack' = Append(t, q)
      <3>1. Len(stack') = f + 1
        <4>1. PICK q : stack' = Append(t, q)
          BY <2>2
        <4> DEFINE u == Append(t, q)
        <4>2. Len(u) = f + 1
          BY <1>10, Appended
        <4> HIDE DEF u
        <4> QED
          BY <4>1, <4>2 DEF u
      <3> DEFINE m == f + 1
      <3>2. stack'[m].kind = "CHP_CLAUSE" /\ stack'[m].frame = f
        <4>1. m \in 1..Len(stack') /\ m > f
          BY <1>3, <3>1
        <4> QED
          BY <1>1, <4>1
      <3>3. m = Len(t) + 1 /\ m = Len(stack') /\ f \in 1..Len(t) /\ \A a \in 1..Len(t) : stack'[a] = t[a]
        BY <1>3, <1>10, <1>12, <3>1
      <3>4. t[f].goal[1] # "catch" /\ ~Returns(stack', m)
        BY <1>7, <1>8, <1>10, <3>2 DEF Returns
      <3> HIDE DEF m, f
      <3> QED
        BY <1>11, <1>12, <1>13, <3>2, <3>3, <3>4, CodedPush
    <2> QED
      BY <1>5, <2>1, <2>2
  <1>15. Resumable(stack', Len(stack') + 1, f, 1)
    <2>1. f \in 1..Len(stack')
      BY <1>1, <1>3
    <2>2. IsF(stack', f) /\ f \in DOMAIN stack'
      BY <1>1, <1>11, <2>1 DEF IsF, IsSeq
    <2>3. Checked(stack'[f].clause) /\ 1 \in Codes(stack'[f].clause)
      BY <1>1, <2>2 DEF CodeChecked
    <2>4. \A a \in 1..Len(stack') : a > f => stack'[a].kind = "CHP_CLAUSE"
      BY <1>1
    <2> HIDE DEF f
    <2> QED
      BY <1>11, <2>1, <2>2, <2>3, <2>4, Begins
  <1> QED
    BY <1>1, <1>14, <1>15 DEF KInv

LEMMA BacktrackCatch_Coded ==
  ASSUME IInv, KInv, BacktrackCatch
  PROVE  KInv'
  <1> DEFINE g == stack[BFR].frame
             t == SubSeq(stack, 1, BFR - 1)
  <1>1. mode' = "fail" /\ mode = "fail" /\ BFR # 1 /\ stack' = FlaggedIn(t, g, "FR_CATCHED")
    BY CatchFailed
  <1>2. /\ Whole(t, g, stack[BFR].parent) /\ IsF(t, g) /\ g \in 3..(BFR - 1)
        /\ BFR \in 1..Len(stack) /\ Len(stack) \in Nat /\ Len(t) = BFR - 1
    BY <1>1, FailedBack
  <1>3. Linked(stack) /\ IsSeq(stack) /\ Coded(stack)
    BY <1>1, Running DEF Good, KInv
  <1>4. BFR - 1 \in Nat /\ BFR - 1 >= 2 /\ BFR - 1 <= Len(stack)
    BY <1>2
  <1>5. Coded(t)
    BY <1>3, <1>4, CodedUpTo
  <1> HIDE DEF t
  <1>6. g \in 1..Len(t) /\ IsSeq(t) /\ Linked(t) /\ DOMAIN t[g] = FrameFields
    BY <1>2 DEF Whole, Good, Cells, IsF
  <1> DEFINE u == FlaggedIn(t, g, "FR_CATCHED")
  <1>7. Len(u) = Len(t) /\ \A b \in 1..Len(t) : AsCoded(t, u, b)
    BY <1>2, <1>6, FlagsSame
  <1> HIDE DEF u, g
  <1>8. Coded(u)
    BY <1>5, <1>6, <1>7, SameCoded
  <1> QED
    BY <1>1, <1>8 DEF KInv, u

LEMMA BacktrackTop_Coded ==
  ASSUME IInv, KInv, BacktrackTop
  PROVE  KInv'
  <1>1. mode = "fail" /\ mode' = "done" /\ stack' = SubSeq(stack, 1, 2)
    BY DEF BacktrackTop, QueryFR, UpTo
  <1>2. Linked(stack) /\ IsSeq(stack) /\ Coded(stack) /\ Len(stack) >= 2
    BY <1>1, Running DEF Good, KInv, Linked
  <1>3. Coded(SubSeq(stack, 1, 2))
    BY <1>2, CodedUpTo
  <1> QED
    BY <1>1, <1>3 DEF KInv

LEMMA OpenQuery_Coded ==
  ASSUME CodeChecked', OpenQuery
  PROVE  KInv'
  <1> DEFINE t == <<Choice("CHP_TOP", TopFR, 0, 0), Frame(<<"query">>, NoClause, 0, 0)>>
  <1>1. Whole(t, 2, 1) /\ Len(t) = 2
    BY QueryCells
  <1>2. EnterGoal(<<>>, t, 1, Goal, 2, 0)
    BY DEF OpenQuery, Top, TopFR
  <1>3. t[1].kind = "CHP_TOP" /\ t[1].frame = 2
    BY DEF Choice, TopFR
  <1>4. t[2].kind = "frame" /\ t[2].parent = 0 /\ t[2].goal[1] = "query" /\ t[2].clause = NoClause
        /\ DOMAIN t[2].variables = 1..NoClause.variables
    BY DEF Frame
  <1> HIDE DEF t
  <1>5. Coded(t)
    <2>1. CellCoded(t, 1)
      BY <1>3 DEF CellCoded, Returns
    <2>2. CellCoded(t, 2)
      <3>1. FrameCoded(t, 2)
        BY <1>4 DEF FrameCoded
      <3>2. ~Returns(t, 2)
        BY <1>4 DEF Returns, Own
      <3> QED
        BY <1>4, <3>1, <3>2 DEF CellCoded
    <2>3. \A a \in 1..Len(t) : a = 1 \/ a = 2
      BY <1>1
    <2> QED
      BY <2>1, <2>2, <2>3 DEF Coded
  <1>6. Whole(t, 2, 1) /\ (2 # 2 \/ Len(t) = 2) /\ (2 # 2 => Resumable(t, Len(t) + 1, 2, 0))
    BY <1>1
  <1> QED
    BY <1>2, <1>5, <1>6, EnteredCoded

LEMMA CodedInit ==
  ASSUME Init
  PROVE  KInv
  BY DEF Init, KInv

LEMMA CodedNext ==
  ASSUME IInv, CInv, KInv, CodeChecked, CodeChecked', [Next]_vars
  PROVE  KInv'
  <1>0. ChoicesKnown
    BY CheckedFits DEF CodeFits
  <1>1. ASSUME I_CALL \/ I_USERCALL0 \/ I_DEPART PROVE KInv'
    BY <1>1, I_CALL_Coded, I_DEPART_Coded
  <1>2. ASSUME I_EXIT \/ I_EXITCATCH PROVE KInv'
    BY <1>2, I_EXIT_Coded
  <1>3. ASSUME I_CUT \/ C_CUT \/ C_LCUT PROVE KInv'
    BY <1>0, <1>3, I_CUT_Coded, C_CUT_Coded, C_LCUT_Coded
  <1>4. ~C_LSCUT
    <2> SUFFICES ASSUME C_LSCUT PROVE FALSE
      OBVIOUS
    <2>1. mode = "run" /\ Op(stack[FR].clause, PC) = "C_LSCUT"
      BY InstructionIs DEF C_LSCUT
    <2>2. Checked(stack[FR].clause) /\ PC \in Codes(stack[FR].clause)
      BY <2>1, RunsCode
    <2> QED
      BY <2>1, <2>2 DEF Checked, VariablesChecked
  <1>5. ASSUME C_JMP \/ Nothing \/ C_FAIL \/ I_EXITQUERY \/ Uncaught \/ NextSolution PROVE KInv'
    BY <1>5, Jump_Coded, Nothing_Coded
  <1>6. ASSUME C_OR \/ C_IFTHENELSE \/ C_SOFTIF \/ C_IFTHEN PROVE KInv'
    BY <1>6, C_OR_Coded, C_IFTHENELSE_Coded, C_IFTHEN_Coded
  <1>7. ASSUME C_SOFTCUT \/ I_EXITCLEANUP PROVE KInv'
    BY <1>7, C_SOFTCUT_Coded, I_EXITCLEANUP_Coded
  <1>8. ASSUME I_CATCH \/ I_CALLCLEANUP PROVE KInv'
    BY <1>8, I_CATCH_Coded, I_CALLCLEANUP_Coded
  <1>9. ASSUME B_THROW \/ Unwind \/ Recover PROVE KInv'
    BY <1>9, B_THROW_Coded, Unwind_Coded, Recover_Coded
  <1>10. ASSUME BacktrackJump \/ BacktrackClause \/ BacktrackCatch \/ BacktrackTop PROVE KInv'
    BY <1>10, BacktrackJump_Coded, BacktrackClause_Coded, BacktrackCatch_Coded, BacktrackTop_Coded
  <1>11. ASSUME OpenQuery \/ CloseQuery PROVE KInv'
    <2>1. CloseQuery => mode' = "closed"
      BY DEF CloseQuery
    <2> QED
      BY <1>11, <2>1, OpenQuery_Coded DEF KInv
  <1>12. CASE UNCHANGED vars
    BY <1>12 DEF vars, regs, KInv
  <1> QED
    BY <1>1, <1>2, <1>3, <1>4, <1>5, <1>6, <1>7, <1>8, <1>9, <1>10, <1>11, <1>12 DEF Next, Machine

(* The code that the machine needs, it gets from clauses that pass the check: *)
(* no instruction ever misses the choice point that its variable is to name.  *)
THEOREM CheckedCodeFits == Spec /\ []CodeChecked => []CodeFits
  <1>1. Init => IInv /\ CInv /\ KInv
    BY InvInit, CleanupInit, CodedInit
  <1>2. IInv /\ CInv /\ KInv /\ CodeChecked => CodeFits
    BY CheckedFits
  <1>3. IInv /\ CInv /\ KInv /\ CodeChecked /\ CodeChecked' /\ [Next]_vars => (IInv /\ CInv /\ KInv)'
    <2> SUFFICES ASSUME IInv, CInv, KInv, CodeChecked, CodeChecked', [Next]_vars
                 PROVE  (IInv /\ CInv /\ KInv)'
      OBVIOUS
    <2>1. CodeFits /\ ChoicesKnown
      BY CheckedFits DEF CodeFits
    <2>2. IInv'
      BY <2>1, InvNext
    <2>3. CInv'
      BY <2>1, CleanupNext
    <2>4. KInv'
      BY CodedNext
    <2> QED
      BY <2>2, <2>3, <2>4
  <1> QED
    BY <1>1, <1>2, <1>3, PTL DEF Spec

(* So the machine needs nothing else for what is proved above: on clauses that *)
(* pass the check its registers stay what they are, each frame is left once,   *)
(* and each handler of setup_call_cleanup/3 runs once.                         *)
THEOREM CheckedCodeRuns == Spec /\ []CodeChecked => [](TypeOK /\ FramesLeftOnce /\ CleanupOnce)
  <1>1. CodeFits => ChoicesKnown
    BY DEF CodeFits
  <1>2. Spec /\ []CodeChecked => []CodeFits
    BY CheckedCodeFits
  <1>3. (Spec /\ []ChoicesKnown => []TypeOK) /\ (Spec /\ []ChoicesKnown => []FramesLeftOnce)
    BY TypeCorrect, FramesHold
  <1>4. Spec /\ []CodeFits => []CleanupOnce
    BY CleanupHappensOnce
  <1> QED
    BY <1>1, <1>2, <1>3, <1>4, PTL
=============================================================================
