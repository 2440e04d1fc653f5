------------------------- MODULE ClauseIndex_proofs -------------------------
(***************************************************************************)
(* The clause index, for any clauses, keys, buckets, hash function and     *)
(* limits: the counters of checkDefinition() are exact, the buckets follow *)
(* the chain, the table a frame walks lives, and every frame is served     *)
(* what it must be served.                                                 *)
(*                                                                         *)
(* The argument has three layers: the algebra of Only, the choice of some  *)
(* members of a sequence in their order; what it is for a table to be      *)
(* sound, kept by each operation on tables; and that what a frame was      *)
(* given, and what is ahead of it, make up what it must be given.          *)
(***************************************************************************)
EXTENDS ClauseIndex, WellFoundedInduction, SequenceTheorems, FiniteSetTheorems,
        TLAPS

(* The types; bounds of a table are only compared. *)
PCs == {"idle", "enter", "hash", "scan", "fail"}

Bounds == {0} \cup {Above(n) : n \in Int} \cup {Below(n) : n \in Int}

Tables == [entries : [Bucket -> Seq(Clause)], dirty : [Bucket -> Int], dirtyBuckets : Int,
           size : Int, above : Bounds, below : Bounds]

Typed ==
  /\ chain \in Seq(Clause) /\ gone \in SUBSET Clause /\ number \in Int /\ erased \in Int
  /\ table \in [Table -> Tables]
  /\ index \in Table \cup {Nil} /\ old \in SUBSET Table /\ unused \in SUBSET Table
  /\ pc \in [Frame -> PCs] /\ key \in [Frame -> Key \cup {NoKey}]
  /\ chp \in [Frame -> [table : Table \cup {Nil}, at : Clause \cup {Nil}]]
  /\ view \in [Frame -> SUBSET Clause]
  /\ kept \in [Frame -> Seq(Clause)] /\ got \in [Frame -> Seq(Clause)]
  /\ \A f \in Frame : pc[f] # "idle" => key[f] \in Key

-----------------------------------------------------------------------------
(* Induction, and functions that are defined by recursion. *)
LEMMA NatLeast ==
  ASSUME NEW N \in SUBSET Nat, N # {}
  PROVE  \E n \in N : \A m \in N : n <= m
  <1> DEFINE R == OpToRel(<, Nat)
  <1>1. IsWellFoundedOn(R, Nat)
    BY NatLessThanWellFounded
  <1>2. \A r, s \in Nat : r < s => <<r, s>> \in R
    BY DEF OpToRel
  <1> HIDE DEF R
  <1>3. PICK n \in N : \A m \in N : ~(<<m, n>> \in R)
    BY <1>1, WFMin
  <1>4. \A m \in N : ~(m < n)
    BY <1>2, <1>3
  <1>5. \A m \in N : n <= m
    BY <1>4
  <1> QED
    BY <1>5

(* What holds of the empty sequence, and of a sequence with one more       *)
(* element whenever it holds of the sequence, holds of all sequences.      *)
LEMMA SeqInduction ==
  ASSUME NEW S, NEW T, <<>> \in T,
         \A s \in Seq(S), e \in S : s \in T => Append(s, e) \in T
  PROVE  Seq(S) \subseteq T
  <1> SUFFICES ASSUME NEW r \in Seq(S), r \notin T
               PROVE  FALSE
    OBVIOUS
  <1> DEFINE N == {Len(s) : s \in Seq(S) \ T}
  <1>1. N \in SUBSET Nat /\ N # {}
    <2>1. \A s \in Seq(S) : Len(s) \in Nat
      BY LenProperties
    <2>2. Len(r) \in N
      OBVIOUS
    <2> QED
      BY <2>1, <2>2
  <1>2. PICK n \in N : \A m \in N : n <= m
    BY <1>1, NatLeast
  <1>3. PICK s \in Seq(S) \ T : Len(s) = n
    OBVIOUS
  <1>4. s # <<>>
    OBVIOUS
  <1>5. PICK t \in Seq(S), e \in S : s = Append(t, e)
    BY <1>4, SequenceEmptyOrAppend
  <1>6. Len(s) = Len(t) + 1 /\ Len(t) \in Nat
    BY <1>5, AppendProperties, LenProperties
  <1>7. t \in T
    BY <1>2, <1>3, <1>6, SMTT(30)
  <1> QED
    BY <1>3, <1>5, <1>7

Iterates(X, base, g, k, f) ==
  /\ f \in [0..k -> X] /\ f[0] = base
  /\ \A n \in 1..k : f[n] = g[<<n, f[n - 1]>>]

(* The function that is computed step by step exists. *)
LEMMA Iterate ==
  ASSUME NEW X, NEW base \in X, NEW m \in Nat, NEW g \in [(1..m) \X X -> X]
  PROVE  \E f : Iterates(X, base, g, m, f)
  <1> DEFINE N == {k \in 0..m : ~ \E f : Iterates(X, base, g, k, f)}
  <1> SUFFICES ASSUME N # {}
               PROVE  FALSE
    <2>1. m \in 0..m
      OBVIOUS
    <2> QED
      BY <2>1
  <1>1. PICK k \in N : \A j \in N : k <= j
    <2>1. N \in SUBSET Nat
      OBVIOUS
    <2> QED
      BY <2>1, NatLeast
  <1>2. k # 0
    <2> DEFINE f == [n \in 0..0 |-> base]
    <2>1. Iterates(X, base, g, 0, f)
      BY DEF Iterates
    <2> QED
      BY <1>1, <2>1
  <1>3. k \in 1..m /\ k - 1 \in 0..m /\ ~(k <= k - 1)
    BY <1>1, <1>2
  <1>4. PICK f : Iterates(X, base, g, k - 1, f)
    BY <1>1, <1>3
  <1> DEFINE h == [n \in 0..k |-> IF n = k THEN g[<<k, f[k - 1]>>] ELSE f[n]]
  <1>5. g[<<k, f[k - 1]>>] \in X
    <2>1. f[k - 1] \in X
      BY <1>3, <1>4 DEF Iterates
    <2> QED
      BY <1>3, <2>1
  <1>6. h \in [0..k -> X]
    BY <1>3, <1>4, <1>5 DEF Iterates
  <1>7. Iterates(X, base, g, k, h)
    <2>1. h[0] = base
      BY <1>3, <1>4 DEF Iterates
    <2>2. ASSUME NEW n \in 1..k
          PROVE  h[n] = g[<<n, h[n - 1]>>]
      <3>1. n - 1 \in 0..k /\ n - 1 # k /\ n \in 0..k
        BY <1>3
      <3>2. h[n - 1] = f[n - 1]
        BY <3>1
      <3>3. CASE n = k
        BY <3>1, <3>2, <3>3
      <3>4. CASE n # k
        <4>1. n \in 1..(k - 1)
          BY <1>3, <3>4
        <4>2. h[n] = f[n]
          BY <3>1, <3>4
        <4> QED
          BY <1>4, <3>2, <4>1, <4>2 DEF Iterates
      <3> QED
        BY <3>3, <3>4
    <2> HIDE DEF h
    <2> QED
      BY <1>6, <2>1, <2>2 DEF Iterates
  <1> QED
    BY <1>1, <1>7

SameSteps(m, f, g) ==
  f[0] = g[0] /\ \A n \in 1..m : f[n - 1] = g[n - 1] => f[n] = g[n]

(* Two functions that take the same steps are equal. *)
LEMMA Agree ==
  ASSUME NEW m \in Nat, NEW f, NEW g, SameSteps(m, f, g)
  PROVE  \A n \in 0..m : f[n] = g[n]
  <1> DEFINE N == {n \in 0..m : f[n] # g[n]}
  <1> SUFFICES ASSUME N # {}
               PROVE  FALSE
    OBVIOUS
  <1>1. N \in SUBSET Nat
    OBVIOUS
  <1>2. PICK n \in N : \A j \in N : n <= j
    BY <1>1, NatLeast
  <1>3. n \in 1..m /\ n - 1 \in 0..m /\ ~(n <= n - 1)
    BY <1>2 DEF SameSteps
  <1>4. f[n - 1] = g[n - 1]
    BY <1>2, <1>3
  <1> QED
    BY <1>2, <1>3, <1>4 DEF SameSteps

-----------------------------------------------------------------------------
(* Only: its value on a sequence and on one more element. *)
Chosen(s, S, f) ==
  f = [n \in 0..Len(s) |-> IF n = 0 THEN <<>>
                           ELSE IF s[n] \in S THEN Append(f[n - 1], s[n]) ELSE f[n - 1]]

Chooses(s, S, m, f) ==
  /\ f[0] = <<>>
  /\ \A n \in 1..m :
       f[n] = IF s[n] \in S THEN Append(f[n - 1], s[n]) ELSE f[n - 1]

(* The recursive function inside Only takes its steps. *)
LEMMA ChosenSteps ==
  ASSUME NEW S, NEW T, NEW s \in Seq(S), NEW f, Chosen(s, T, f)
  PROVE  Chooses(s, T, Len(s), f)
  <1>1. Len(s) \in Nat
    BY LenProperties
  <1>2. \A n \in 0..Len(s) :
          f[n] = IF n = 0 THEN <<>>
                 ELSE IF s[n] \in T THEN Append(f[n - 1], s[n]) ELSE f[n - 1]
    BY DEF Chosen
  <1>3. 0 \in 0..Len(s) /\ \A n \in 1..Len(s) : n \in 0..Len(s) /\ n # 0
    BY <1>1
  <1> QED
    BY <1>2, <1>3 DEF Chooses

(* Only is the last step of such a function. *)
LEMMA OnlySteps ==
  ASSUME NEW S, NEW T, NEW s \in Seq(S)
  PROVE  \E f : /\ Chooses(s, T, Len(s), f) /\ Only(s, T) = f[Len(s)]
               /\ f[Len(s)] \in Seq(S)
  <1> DEFINE m == Len(s)
             g == [p \in (1..m) \X Seq(S) |->
                     IF s[p[1]] \in T THEN Append(p[2], s[p[1]]) ELSE p[2]]
  <1>1. m \in Nat /\ \A n \in 1..m : s[n] \in S
    BY LenProperties
  <1>2. g \in [(1..m) \X Seq(S) -> Seq(S)]
    BY <1>1
  <1>3. \A n \in 1..m, x \in Seq(S) :
          g[<<n, x>>] = IF s[n] \in T THEN Append(x, s[n]) ELSE x
    OBVIOUS
  <1> HIDE DEF m, g
  <1>4. PICK h : Iterates(Seq(S), <<>>, g, m, h)
    <2>1. <<>> \in Seq(S)
      OBVIOUS
    <2> QED
      BY <1>1, <1>2, <2>1, Iterate
  <1>5. \A n \in 1..m : n - 1 \in 0..m /\ n \in 0..m
    BY <1>1
  <1>6. \A n \in 1..m : h[n] = IF s[n] \in T THEN Append(h[n - 1], s[n]) ELSE h[n - 1]
    BY <1>3, <1>4, <1>5 DEF Iterates
  <1>7. Chosen(s, T, h)
    <2>1. h = [n \in 0..m |-> h[n]]
      BY <1>4 DEF Iterates
    <2>2. \A n \in 0..m : h[n] = IF n = 0 THEN <<>>
                          ELSE IF s[n] \in T THEN Append(h[n - 1], s[n]) ELSE h[n - 1]
      <3>1. \A n \in 0..m : n # 0 => n \in 1..m
        BY <1>1
      <3> QED
        BY <1>4, <1>6, <3>1 DEF Iterates
    <2>3. h = [n \in 0..m |-> IF n = 0 THEN <<>>
                 ELSE IF s[n] \in T THEN Append(h[n - 1], s[n]) ELSE h[n - 1]]
      BY <2>1, <2>2
    <2> QED
      BY <2>3 DEF Chosen, m
  <1> DEFINE f == CHOOSE f : Chosen(s, T, f)
  <1>8. Chosen(s, T, f)
    BY <1>7
  <1>9. Only(s, T) = f[m]
    BY DEF Only, Chosen, m
  <1> HIDE DEF f
  <1>10. \A n \in 0..m : f[n] = h[n]
    <2>1. Chooses(s, T, m, f)
      BY <1>8, ChosenSteps DEF m
    <2>2. SameSteps(m, f, h)
      BY <1>4, <1>6, <2>1 DEF SameSteps, Chooses, Iterates
    <2> QED
      BY <1>1, <2>2, Agree
  <1>11. Only(s, T) = h[m]
    BY <1>1, <1>9, <1>10
  <1>12. h[m] \in Seq(S) /\ h[0] = <<>>
    BY <1>1, <1>4 DEF Iterates
  <1>13. Chooses(s, T, m, h)
    BY <1>6, <1>12 DEF Chooses
  <1> QED
    BY <1>11, <1>12, <1>13 DEF m

(* What Only does with an empty sequence. *)
LEMMA OnlyEmpty ==
  ASSUME NEW T
  PROVE  Only(<<>>, T) = <<>>
  <1> DEFINE s == <<>>
  <1>1. s \in Seq({})
    OBVIOUS
  <1>2. Len(s) = 0
    OBVIOUS
  <1> HIDE DEF s
  <1>3. PICK f : Chooses(s, T, Len(s), f) /\ Only(s, T) = f[Len(s)]
    BY <1>1, OnlySteps
  <1>4. Only(s, T) = <<>>
    BY <1>2, <1>3 DEF Chooses
  <1> QED
    BY <1>4 DEF s

(* What Only leaves is a sequence. *)
LEMMA OnlyType ==
  ASSUME NEW S, NEW s \in Seq(S), NEW T
  PROVE  Only(s, T) \in Seq(S)
  BY OnlySteps

(* What Only does with one more element. *)
LEMMA OnlyAppend ==
  ASSUME NEW S, NEW s \in Seq(S), NEW e \in S, NEW T
  PROVE  Only(Append(s, e), T) = IF e \in T THEN Append(Only(s, T), e) ELSE Only(s, T)
  <1> DEFINE t == Append(s, e)
             n == Len(s)
  <1>1. /\ n \in Nat /\ t \in Seq(S) /\ Len(t) = n + 1 /\ t[n + 1] = e
        /\ \A i \in 1..n : s[i] = t[i]
    BY AppendProperties, LenProperties
  <1> HIDE DEF t, n
  <1>2. PICK f : Chooses(s, T, n, f) /\ Only(s, T) = f[n]
    BY OnlySteps DEF n
  <1>3. PICK g : Chooses(t, T, n + 1, g) /\ Only(t, T) = g[n + 1]
    <2>1. PICK g : Chooses(t, T, Len(t), g) /\ Only(t, T) = g[Len(t)]
      BY <1>1, OnlySteps
    <2> QED
      BY <1>1, <2>1
  <1>4. SameSteps(n, f, g)
    <2>1. \A i \in 1..n : i \in 1..(n + 1)
      BY <1>1
    <2> QED
      BY <1>1, <1>2, <1>3, <2>1 DEF SameSteps, Chooses
  <1>5. f[n] = g[n]
    <2>1. \A i \in 0..n : f[i] = g[i]
      BY <1>1, <1>4, Agree
    <2> QED
      BY <1>1, <2>1
  <1>6. g[n + 1] = IF e \in T THEN Append(g[n], e) ELSE g[n]
    <2>1. n + 1 \in 1..(n + 1) /\ (n + 1) - 1 = n
      BY <1>1
    <2> QED
      BY <1>1, <1>3, <2>1 DEF Chooses
  <1> QED
    BY <1>2, <1>3, <1>5, <1>6 DEF t

-----------------------------------------------------------------------------
(* The members of a sequence. *)
LEMMA Members ==
  ASSUME NEW S, NEW s \in Seq(S)
  PROVE  /\ ToSet(s) \subseteq S /\ IsFiniteSet(ToSet(s))
         /\ \A c : Contains(s, c) <=> c \in ToSet(s)
         /\ s # <<>> => ToSet(s) # {}
  <1>1. Len(s) \in Nat /\ DOMAIN s = 1..Len(s) /\ s \in [1..Len(s) -> S]
    BY LenProperties
  <1>2. ToSet(s) \subseteq S /\ \A c : Contains(s, c) <=> c \in ToSet(s)
    BY <1>1 DEF ToSet, Contains
  <1>3. IsFiniteSet(ToSet(s))
    <2>1. IsFiniteSet(1..Len(s))
      <3>1. 1 \in Int /\ Len(s) \in Int
        BY <1>1
      <3> QED
        BY <3>1, FS_Interval
    <2>2. \E f \in [1..Len(s) -> S] : ToSet(s) = {f[i] : i \in 1..Len(s)}
      BY <1>1 DEF ToSet
    <2>3. ToSet(s) = {s[i] : i \in 1..Len(s)}
      BY <1>1 DEF ToSet
    <2>4. s \in Surjection(1..Len(s), ToSet(s))
      BY <1>1, <2>3 DEF Surjection
    <2> QED
      BY <2>1, <2>4, FS_Surjection
  <1>4. s # <<>> => ToSet(s) # {}
    <2>1. s # <<>> => Len(s) # 0
      BY EmptySeq
    <2>2. Len(s) # 0 => 1 \in DOMAIN s
      BY <1>1
    <2> QED
      BY <2>1, <2>2 DEF ToSet
  <1> QED
    BY <1>2, <1>3, <1>4

(* One more element at the end. *)
LEMMA MembersAppend ==
  ASSUME NEW S
  PROVE  /\ ToSet(<<>>) = {}
         /\ \A s \in Seq(S), e \in S :
              /\ Append(s, e) \in Seq(S)
              /\ ToSet(Append(s, e)) = ToSet(s) \cup {e}
              /\ IsInjective(s) /\ e \notin ToSet(s) => IsInjective(Append(s, e))
              /\ IsInjective(Append(s, e)) => IsInjective(s) /\ e \notin ToSet(s)
  <1>1. ToSet(<<>>) = {}
    BY DEF ToSet
  <1>2. ASSUME NEW s \in Seq(S), NEW e \in S
        PROVE  /\ Append(s, e) \in Seq(S)
               /\ ToSet(Append(s, e)) = ToSet(s) \cup {e}
               /\ IsInjective(s) /\ e \notin ToSet(s) => IsInjective(Append(s, e))
               /\ IsInjective(Append(s, e)) => IsInjective(s) /\ e \notin ToSet(s)
    <2> DEFINE t == Append(s, e)
               n == Len(s)
    <2>1. /\ t \in Seq(S) /\ n \in Nat /\ DOMAIN s = 1..n /\ DOMAIN t = 1..(n + 1)
          /\ t[n + 1] = e /\ \A i \in 1..n : t[i] = s[i]
      BY AppendProperties, LenProperties
    <2> HIDE DEF t, n
    <2>2. \A i \in 1..(n + 1) : i = n + 1 \/ i \in 1..n
      BY <2>1
    <2>3. n + 1 \in 1..(n + 1) /\ n + 1 \notin 1..n /\ \A i \in 1..n : i \in 1..(n + 1)
      BY <2>1
    <2>4. ToSet(t) = ToSet(s) \cup {e}
      BY <2>1, <2>2, <2>3 DEF ToSet
    <2>5. IsInjective(s) /\ e \notin ToSet(s) => IsInjective(t)
      BY <2>1, <2>2, <2>3 DEF ToSet, IsInjective
    <2>6. IsInjective(t) => IsInjective(s) /\ e \notin ToSet(s)
      BY <2>1, <2>2, <2>3 DEF ToSet, IsInjective
    <2> QED
      BY <2>1, <2>4, <2>5, <2>6 DEF t
  <1> QED
    BY <1>1, <1>2

(* One sequence behind another. *)
LEMMA MembersConcat ==
  ASSUME NEW S, NEW s \in Seq(S), NEW t \in Seq(S)
  PROVE  s \o t \in Seq(S) /\ ToSet(s \o t) = ToSet(s) \cup ToSet(t)
  <1> DEFINE u == s \o t
             m == Len(s)
             n == Len(t)
  <1>1. /\ u \in Seq(S) /\ m \in Nat /\ n \in Nat
        /\ DOMAIN s = 1..m /\ DOMAIN t = 1..n /\ DOMAIN u = 1..(m + n)
        /\ \A i \in 1..(m + n) : u[i] = IF i <= m THEN s[i] ELSE t[i - m]
    BY ConcatProperties, LenProperties
  <1> HIDE DEF u, m, n
  <1>2. \A i \in 1..(m + n) : IF i <= m THEN i \in 1..m ELSE i - m \in 1..n
    BY <1>1
  <1>3. \A i \in 1..m : i \in 1..(m + n) /\ i <= m
    BY <1>1
  <1>4. \A i \in 1..n : i + m \in 1..(m + n) /\ ~(i + m <= m) /\ (i + m) - m = i
    BY <1>1
  <1>5. ToSet(u) \subseteq ToSet(s) \cup ToSet(t)
    BY <1>1, <1>2 DEF ToSet
  <1>6. ToSet(s) \subseteq ToSet(u)
    BY <1>1, <1>3 DEF ToSet
  <1>7. ToSet(t) \subseteq ToSet(u)
    <2>1. \A i \in 1..n : u[i + m] = t[i]
      BY <1>1, <1>4
    <2>2. ASSUME NEW i \in 1..n
          PROVE  t[i] \in ToSet(u)
      <3>1. i + m \in DOMAIN u /\ t[i] = u[i + m]
        BY <1>1, <1>4, <2>1
      <3> QED
        BY <3>1 DEF ToSet
    <2>3. ToSet(t) = {t[i] : i \in 1..n}
      BY <1>1 DEF ToSet
    <2> QED
      BY <2>2, <2>3
  <1> QED
    BY <1>1, <1>5, <1>6, <1>7 DEF u

(* Append is associative with concatenation. *)
LEMMA AppendOut ==
  ASSUME NEW S, NEW s \in Seq(S), NEW t \in Seq(S), NEW e \in S
  PROVE  s \o Append(t, e) = Append(s \o t, e)
  <1>1. /\ <<e>> \in Seq(S) /\ Append(t, e) = t \o <<e>> /\ s \o t \in Seq(S)
        /\ Append(s \o t, e) = (s \o t) \o <<e>>
    BY AppendIsConcat, ConcatProperties
  <1>2. (s \o t) \o <<e>> = s \o (t \o <<e>>)
    BY <1>1, ConcatAssociative
  <1> QED
    BY <1>1, <1>2

-----------------------------------------------------------------------------
(* The algebra of Only. *)
LEMMA OnlyMembers ==
  ASSUME NEW S, NEW s \in Seq(S), NEW T
  PROVE  /\ Only(s, T) \in Seq(S) /\ ToSet(Only(s, T)) = ToSet(s) \cap T
         /\ IsInjective(s) => IsInjective(Only(s, T))
  <1> DEFINE Good(t) == /\ ToSet(Only(t, T)) = ToSet(t) \cap T
                        /\ IsInjective(t) => IsInjective(Only(t, T))
             G == {t \in Seq(S) : Good(t)}
  <1>1. <<>> \in G
    <2>1. Only(<<>>, T) = <<>> /\ ToSet(<<>>) = {} /\ <<>> \in Seq(S)
      BY OnlyEmpty, MembersAppend
    <2> QED
      BY <2>1
  <1>2. ASSUME NEW t \in Seq(S), NEW e \in S, t \in G
        PROVE  Append(t, e) \in G
    <2>1. /\ Only(t, T) \in Seq(S)
          /\ Only(Append(t, e), T) = IF e \in T THEN Append(Only(t, T), e) ELSE Only(t, T)
      BY OnlyType, OnlyAppend
    <2>2. /\ Append(t, e) \in Seq(S) /\ ToSet(Append(t, e)) = ToSet(t) \cup {e}
          /\ IsInjective(Append(t, e)) => IsInjective(t) /\ e \notin ToSet(t)
      BY MembersAppend
    <2>3. /\ ToSet(Append(Only(t, T), e)) = ToSet(Only(t, T)) \cup {e}
          /\ IsInjective(Only(t, T)) /\ e \notin ToSet(Only(t, T)) =>
               IsInjective(Append(Only(t, T), e))
      BY <2>1, MembersAppend
    <2>4. Good(t)
      BY <1>2
    <2>5. Good(Append(t, e))
      <3>1. CASE e \in T
        BY <2>1, <2>2, <2>3, <2>4, <3>1
      <3>2. CASE e \notin T
        BY <2>1, <2>2, <2>4, <3>2
      <3> QED
        BY <3>1, <3>2
    <2> HIDE DEF Good
    <2> QED
      BY <2>2, <2>5
  <1> HIDE DEF Good
  <1>3. Seq(S) \subseteq G
    <2> HIDE DEF G
    <2> QED
      BY <1>1, <1>2, SeqInduction
  <1>4. Good(s)
    BY <1>3
  <1>5. Only(s, T) \in Seq(S)
    BY OnlyType
  <1> QED
    BY <1>4, <1>5 DEF Good

(* To choose twice is to choose from both. *)
LEMMA OnlyOnly ==
  ASSUME NEW S, NEW s \in Seq(S), NEW A, NEW B
  PROVE  Only(Only(s, A), B) = Only(s, A \cap B)
  <1> DEFINE G == {t \in Seq(S) : Only(Only(t, A), B) = Only(t, A \cap B)}
  <1>1. <<>> \in G
    <2>1. <<>> \in Seq(S) /\ \A T : Only(<<>>, T) = <<>>
      BY OnlyEmpty
    <2> QED
      BY <2>1
  <1>2. ASSUME NEW t \in Seq(S), NEW e \in S, t \in G
        PROVE  Append(t, e) \in G
    <2>1. /\ Only(t, A) \in Seq(S)
          /\ Only(Append(t, e), A) = IF e \in A THEN Append(Only(t, A), e) ELSE Only(t, A)
      BY OnlyType, OnlyAppend
    <2>2. Only(Append(Only(t, A), e), B) =
            IF e \in B THEN Append(Only(Only(t, A), B), e) ELSE Only(Only(t, A), B)
      BY <2>1, OnlyAppend
    <2>3. Only(Append(t, e), A \cap B) =
            IF e \in A \cap B THEN Append(Only(t, A \cap B), e) ELSE Only(t, A \cap B)
      BY OnlyAppend
    <2>4. Append(t, e) \in Seq(S)
      BY MembersAppend
    <2>5. Only(Only(t, A), B) = Only(t, A \cap B)
      BY <1>2
    <2>6. Only(Only(Append(t, e), A), B) = Only(Append(t, e), A \cap B)
      <3>1. CASE e \in A /\ e \in B
        BY <2>1, <2>2, <2>3, <2>5, <3>1
      <3>2. CASE e \in A /\ e \notin B
        BY <2>1, <2>2, <2>3, <2>5, <3>2
      <3>3. CASE e \notin A
        BY <2>1, <2>3, <2>5, <3>3
      <3> QED
        BY <3>1, <3>2, <3>3
    <2> QED
      BY <2>4, <2>6
  <1> HIDE DEF G
  <1>3. s \in G
    BY <1>1, <1>2, SeqInduction
  <1> QED
    BY <1>3 DEF G

(* Only looks at the elements that are there. *)
LEMMA OnlySame ==
  ASSUME NEW S, NEW s \in Seq(S), NEW A, NEW B, ToSet(s) \cap A = ToSet(s) \cap B
  PROVE  Only(s, A) = Only(s, B)
  <1> DEFINE G == {t \in Seq(S) : ToSet(t) \cap A = ToSet(t) \cap B => Only(t, A) = Only(t, B)}
  <1>1. <<>> \in G
    <2>1. <<>> \in Seq(S) /\ \A T : Only(<<>>, T) = <<>>
      BY OnlyEmpty
    <2> QED
      BY <2>1
  <1>2. ASSUME NEW t \in Seq(S), NEW e \in S, t \in G
        PROVE  Append(t, e) \in G
    <2>1. Append(t, e) \in Seq(S) /\ ToSet(Append(t, e)) = ToSet(t) \cup {e}
      BY MembersAppend
    <2>2. /\ Only(Append(t, e), A) = IF e \in A THEN Append(Only(t, A), e) ELSE Only(t, A)
          /\ Only(Append(t, e), B) = IF e \in B THEN Append(Only(t, B), e) ELSE Only(t, B)
      BY OnlyAppend
    <2>3. ASSUME ToSet(Append(t, e)) \cap A = ToSet(Append(t, e)) \cap B
          PROVE  Only(Append(t, e), A) = Only(Append(t, e), B)
      <3>1. ToSet(t) \cap A = ToSet(t) \cap B /\ (e \in A <=> e \in B)
        BY <2>1, <2>3
      <3>2. Only(t, A) = Only(t, B)
        BY <1>2, <3>1
      <3> QED
        BY <2>2, <3>1, <3>2
    <2> QED
      BY <2>1, <2>3
  <1> HIDE DEF G
  <1>3. s \in G
    BY <1>1, <1>2, SeqInduction
  <1> QED
    BY <1>3 DEF G

(* Everything is chosen. *)
LEMMA OnlyAll ==
  ASSUME NEW S, NEW s \in Seq(S), NEW A, ToSet(s) \subseteq A
  PROVE  Only(s, A) = s
  <1> DEFINE G == {t \in Seq(S) : Only(t, S) = t}
  <1>1. <<>> \in G
    <2>1. <<>> \in Seq(S) /\ Only(<<>>, S) = <<>>
      BY OnlyEmpty
    <2> QED
      BY <2>1
  <1>2. ASSUME NEW t \in Seq(S), NEW e \in S, t \in G
        PROVE  Append(t, e) \in G
    <2>1. Only(Append(t, e), S) = Append(Only(t, S), e)
      BY OnlyAppend
    <2>2. Append(t, e) \in Seq(S)
      BY MembersAppend
    <2> QED
      BY <1>2, <2>1, <2>2
  <1> HIDE DEF G
  <1>3. s \in G
    BY <1>1, <1>2, SeqInduction
  <1>4. Only(s, S) = s
    BY <1>3 DEF G
  <1>5. ToSet(s) \cap A = ToSet(s) \cap S
    BY Members
  <1>6. Only(s, A) = Only(s, S)
    BY <1>5, OnlySame
  <1> QED
    BY <1>4, <1>6

(* Nothing is chosen. *)
LEMMA OnlyNone ==
  ASSUME NEW S, NEW s \in Seq(S), NEW A
  PROVE  Only(s, A) = <<>> <=> ToSet(s) \cap A = {}
  <1>1. Only(s, A) \in Seq(S) /\ ToSet(Only(s, A)) = ToSet(s) \cap A
    BY OnlyMembers
  <1>2. Only(s, A) # <<>> => ToSet(Only(s, A)) # {}
    BY <1>1, Members
  <1>3. ToSet(<<>>) = {}
    BY MembersAppend
  <1> QED
    BY <1>1, <1>2, <1>3

(* Only goes through a sequence from left to right. *)
LEMMA OnlyConcat ==
  ASSUME NEW S, NEW s \in Seq(S), NEW t \in Seq(S), NEW T
  PROVE  Only(s \o t, T) = Only(s, T) \o Only(t, T)
  <1> DEFINE G == {u \in Seq(S) : Only(s \o u, T) = Only(s, T) \o Only(u, T)}
  <1>0. Only(s, T) \in Seq(S)
    BY OnlyType
  <1>1. <<>> \in G
    <2>1. <<>> \in Seq(S) /\ Only(<<>>, T) = <<>>
      BY OnlyEmpty
    <2>2. s \o <<>> = s /\ Only(s, T) \o <<>> = Only(s, T)
      BY <1>0, ConcatEmptySeq
    <2> QED
      BY <2>1, <2>2
  <1>2. ASSUME NEW u \in Seq(S), NEW e \in S, u \in G
        PROVE  Append(u, e) \in G
    <2>1. s \o u \in Seq(S) /\ Only(u, T) \in Seq(S) /\ Append(u, e) \in Seq(S)
      BY MembersConcat, OnlyType, MembersAppend
    <2>2. s \o Append(u, e) = Append(s \o u, e)
      BY AppendOut
    <2>3. Only(s, T) \o Append(Only(u, T), e) = Append(Only(s, T) \o Only(u, T), e)
      BY <1>0, <2>1, AppendOut
    <2>4. Only(Append(u, e), T) = IF e \in T THEN Append(Only(u, T), e) ELSE Only(u, T)
      BY OnlyAppend
    <2>5. Only(Append(s \o u, e), T) =
            IF e \in T THEN Append(Only(s \o u, T), e) ELSE Only(s \o u, T)
      BY <2>1, OnlyAppend
    <2>6. Only(s \o u, T) = Only(s, T) \o Only(u, T)
      BY <1>2
    <2>7. Only(s \o Append(u, e), T) = Only(s, T) \o Only(Append(u, e), T)
      BY <2>2, <2>3, <2>4, <2>5, <2>6
    <2> QED
      BY <2>1, <2>7
  <1> HIDE DEF G
  <1>3. t \in G
    BY <1>1, <1>2, SeqInduction
  <1> QED
    BY <1>3 DEF G

(* A clause is added at either end. *)
LEMMA AddMembers ==
  ASSUME NEW S, NEW s \in Seq(S), NEW c \in S, NEW where
  PROVE  /\ Add(s, c, where) \in Seq(S)
         /\ ToSet(Add(s, c, where)) = ToSet(s) \cup {c}
         /\ IsInjective(s) /\ c \notin ToSet(s) => IsInjective(Add(s, c, where))
  <1>1. CASE where = "CL_START"
    <2> DEFINE u == <<c>>
               t == u \o s
               n == Len(s)
    <2>0. u \in Seq(S) /\ Len(u) = 1 /\ u[1] = c /\ ToSet(u) = {c}
      BY DEF ToSet
    <2> HIDE DEF u
    <2>1. t \in Seq(S) /\ ToSet(t) = {c} \cup ToSet(s)
      BY <2>0, MembersConcat
    <2>2. /\ n \in Nat /\ DOMAIN s = 1..n /\ DOMAIN t = 1..(n + 1)
          /\ t[1] = c /\ \A i \in 2..(n + 1) : t[i] = s[i - 1]
      <3>1. /\ n \in Nat /\ DOMAIN s = 1..n /\ Len(t) = 1 + n /\ DOMAIN t = 1..Len(t)
        BY <2>0, <2>1, LenProperties, ConcatProperties
      <3>2. \A i \in 1..(1 + n) : t[i] = IF i <= 1 THEN u[i] ELSE s[i - 1]
        <4>1. \A i \in 1..(Len(u) + Len(s)) :
                t[i] = IF i <= Len(u) THEN u[i] ELSE s[i - Len(u)]
          BY <2>0, ConcatProperties
        <4> HIDE DEF t
        <4> QED
          BY <2>0, <4>1
      <3>3. 1 \in 1..(1 + n) /\ \A i \in 2..(n + 1) : i \in 1..(1 + n) /\ ~(i <= 1)
        BY <3>1
      <3> HIDE DEF t, n
      <3>4. t[1] = c
        BY <2>0, <3>2, <3>3
      <3>5. \A i \in 2..(n + 1) : t[i] = s[i - 1]
        BY <3>2, <3>3
      <3> QED
        BY <3>1, <3>4, <3>5
    <2> HIDE DEF t, n
    <2>3. ASSUME IsInjective(s), c \notin ToSet(s)
          PROVE  IsInjective(t)
      <3>1. \A i \in 1..(n + 1) : i = 1 \/ (i \in 2..(n + 1) /\ i - 1 \in 1..n)
        BY <2>2
      <3>2. \A i \in 2..(n + 1) : t[i] # c
        BY <2>2, <2>3, <3>1 DEF ToSet
      <3>3. ASSUME NEW i \in 2..(n + 1), NEW j \in 2..(n + 1), t[i] = t[j]
            PROVE  i = j
        <4>1. i - 1 \in 1..n /\ j - 1 \in 1..n /\ s[i - 1] = s[j - 1]
          BY <2>2, <3>3
        <4>2. i - 1 = j - 1
          BY <2>2, <2>3, <4>1 DEF IsInjective
        <4> QED
          BY <2>2, <4>2
      <3>4. \A i, j \in 1..(n + 1) : t[i] = t[j] => i = j
        BY <2>2, <3>1, <3>2, <3>3
      <3> QED
        BY <2>2, <3>4 DEF IsInjective
    <2> QED
      BY <1>1, <2>1, <2>3 DEF Add, t, u
  <1>2. CASE where # "CL_START"
    BY <1>2, MembersAppend DEF Add
  <1> QED
    BY <1>1, <1>2

(* One clause, chosen or not. *)
LEMMA OnlyOne ==
  ASSUME NEW c, NEW T
  PROVE  Only(<<c>>, T) = IF c \in T THEN <<c>> ELSE <<>>
  <1>1. <<>> \in Seq({c}) /\ c \in {c} /\ Append(<<>>, c) = <<c>>
    OBVIOUS
  <1>2. Only(Append(<<>>, c), T) = IF c \in T THEN Append(Only(<<>>, T), c) ELSE Only(<<>>, T)
    BY <1>1, OnlyAppend
  <1>3. Only(<<>>, T) = <<>>
    BY OnlyEmpty
  <1> QED
    BY <1>1, <1>2, <1>3

(* A clause that is added at either end of what is chosen from. *)
LEMMA OnlyAdd ==
  ASSUME NEW S, NEW s \in Seq(S), NEW c \in S, NEW where, NEW T
  PROVE  Only(Add(s, c, where), T) =
           IF c \in T THEN Add(Only(s, T), c, where) ELSE Only(s, T)
  <1>1. CASE where = "CL_START"
    <2> DEFINE u == <<c>>
    <2>1. u \in Seq(S) /\ Only(s, T) \in Seq(S)
      BY OnlyType
    <2> HIDE DEF u
    <2>2. Only(u \o s, T) = Only(u, T) \o Only(s, T)
      BY <2>1, OnlyConcat
    <2>3. <<>> \o Only(s, T) = Only(s, T)
      BY <2>1, ConcatEmptySeq
    <2> QED
      BY <1>1, <2>2, <2>3, OnlyOne DEF Add, u
  <1>2. CASE where # "CL_START"
    BY <1>2, OnlyAppend DEF Add
  <1> QED
    BY <1>1, <1>2

(* Clauses that go do not change what is kept of the others. *)
LEMMA WithoutMembers ==
  ASSUME NEW s \in Seq(Clause), NEW A
  PROVE  /\ Without(s, A) \in Seq(Clause)
         /\ ToSet(Without(s, A)) = ToSet(s) \ A
         /\ IsInjective(s) => IsInjective(Without(s, A))
  <1> DEFINE B == Clause \ A
  <1>1. /\ Only(s, B) \in Seq(Clause) /\ ToSet(Only(s, B)) = ToSet(s) \cap B
        /\ IsInjective(s) => IsInjective(Only(s, B))
    BY OnlyMembers
  <1>2. ToSet(s) \cap B = ToSet(s) \ A
    BY Members
  <1> HIDE DEF B
  <1> QED
    BY <1>1, <1>2 DEF Without, B

(* Clauses that were not chosen can be taken away. *)
LEMMA OnlyWithout ==
  ASSUME NEW s \in Seq(Clause), NEW A, NEW T \in SUBSET Clause, T \cap A = {}
  PROVE  Only(Without(s, A), T) = Only(s, T)
  <1> DEFINE B == Clause \ A
  <1>1. Only(Only(s, B), T) = Only(s, B \cap T)
    BY OnlyOnly
  <1>2. B \cap T = T
    OBVIOUS
  <1> HIDE DEF B
  <1> QED
    BY <1>1, <1>2 DEF Without, B

-----------------------------------------------------------------------------
(* The first place of a sequence where there is one of T. *)
LEMMA FirstPlace ==
  ASSUME NEW S, NEW s \in Seq(S), NEW T
  PROVE  /\ First(s, T) \in 0..Len(s)
         /\ First(s, T) = 0 <=> ToSet(s) \cap T = {}
         /\ First(s, T) # 0 => /\ s[First(s, T)] \in T
                               /\ \A j \in 1..Len(s) : s[j] \in T => First(s, T) <= j
  <1> DEFINE I == {i \in 1..Len(s) : s[i] \in T}
  <1>1. Len(s) \in Nat /\ DOMAIN s = 1..Len(s)
    BY LenProperties
  <1>2. First(s, T) = IF I # {} THEN Min(I) ELSE 0
    BY DEF First, SelectInSeq
  <1>3. I = {} <=> ToSet(s) \cap T = {}
    BY <1>1 DEF ToSet
  <1>4. ASSUME I # {}
        PROVE  Min(I) \in I /\ \A j \in I : Min(I) <= j
    <2>1. I \in SUBSET Nat
      BY <1>1
    <2>2. \E i \in I : \A j \in I : i <= j
      BY <1>4, <2>1, NatLeast
    <2> HIDE DEF I
    <2> QED
      BY <2>2 DEF Min
  <1>5. CASE I = {}
    BY <1>1, <1>2, <1>3, <1>5
  <1>6. CASE I # {}
    <2>1. First(s, T) \in I /\ \A j \in I : First(s, T) <= j
      BY <1>2, <1>4, <1>6
    <2>2. First(s, T) \in 1..Len(s) /\ s[First(s, T)] \in T
      BY <2>1
    <2>3. \A j \in 1..Len(s) : s[j] \in T => First(s, T) <= j
      BY <2>1
    <2>4. First(s, T) \in 0..Len(s) /\ First(s, T) # 0
      BY <1>1, <2>2
    <2> HIDE DEF I
    <2> QED
      BY <1>3, <1>6, <2>2, <2>3, <2>4
  <1> QED
    BY <1>5, <1>6

(* The two parts of a sequence. *)
LEMMA Before ==
  ASSUME NEW S, NEW s \in Seq(S), NEW i \in 1..(Len(s) + 1)
  PROVE  /\ SubSeq(s, 1, i - 1) \in Seq(S)
         /\ ToSet(SubSeq(s, 1, i - 1)) = {s[j] : j \in 1..(i - 1)}
  <1> DEFINE n == Len(s)
             u == SubSeq(s, 1, i - 1)
  <1>1. n \in Nat /\ \A j \in 1..n : s[j] \in S
    BY LenProperties
  <1>2. i \in Int /\ 1 \in Int /\ i - 1 \in Int /\ n \in Int /\ i \in 1..(n + 1)
    BY <1>1
  <1>3. \A j \in 1..(i - 1) : s[j] \in S
    BY <1>1, <1>2
  <1>4. /\ u \in Seq(S) /\ Len(u) = IF 1 <= i - 1 THEN (i - 1) - 1 + 1 ELSE 0
        /\ \A j \in 1..((i - 1) - 1 + 1) : u[j] = s[1 + j - 1]
    BY <1>2, <1>3, SubSeqProperties
  <1> HIDE DEF u, n
  <1>5. (IF 1 <= i - 1 THEN (i - 1) - 1 + 1 ELSE 0) = i - 1
    BY <1>2
  <1>6. \A j \in 1..(i - 1) : j \in 1..((i - 1) - 1 + 1) /\ 1 + j - 1 = j
    BY <1>2
  <1>7. Len(u) = i - 1 /\ \A j \in 1..(i - 1) : u[j] = s[j]
    BY <1>4, <1>5, <1>6
  <1>8. DOMAIN u = 1..(i - 1)
    BY <1>4, <1>7, LenProperties
  <1>9. ToSet(u) = {s[j] : j \in 1..(i - 1)}
    BY <1>7, <1>8 DEF ToSet
  <1> QED
    BY <1>4, <1>9 DEF u

(* The part from a place on. *)
LEMMA After ==
  ASSUME NEW S, NEW s \in Seq(S), NEW i \in 1..(Len(s) + 1)
  PROVE  /\ SubSeq(s, i, Len(s)) \in Seq(S)
         /\ Len(SubSeq(s, i, Len(s))) = Len(s) - i + 1
         /\ \A j \in 1..(Len(s) - i + 1) : SubSeq(s, i, Len(s))[j] = s[i + j - 1]
  <1> DEFINE n == Len(s)
             t == SubSeq(s, i, n)
  <1>1. n \in Nat /\ \A j \in 1..n : s[j] \in S
    BY LenProperties
  <1>2. i \in Int /\ n \in Int /\ i \in 1..(n + 1) /\ i <= n + 1
    BY <1>1
  <1>3. \A j \in i..n : s[j] \in S
    BY <1>1, <1>2
  <1>4. /\ t \in Seq(S) /\ Len(t) = IF i <= n THEN n - i + 1 ELSE 0
        /\ \A j \in 1..(n - i + 1) : t[j] = s[i + j - 1]
    BY <1>2, <1>3, SubSeqProperties
  <1> HIDE DEF t, n
  <1>5. (IF i <= n THEN n - i + 1 ELSE 0) = n - i + 1
    BY <1>2
  <1> QED
    BY <1>4, <1>5 DEF t, n

(* Both parts make up the sequence. *)
LEMMA Split ==
  ASSUME NEW S, NEW s \in Seq(S), NEW i \in 1..(Len(s) + 1)
  PROVE  SubSeq(s, 1, i - 1) \o SubSeq(s, i, Len(s)) = s
  <1>1. Len(s) \in Nat
    BY LenProperties
  <1>2. 1 \in 1..(Len(s) + 1) /\ i - 1 \in (1 - 1)..Len(s) /\ Len(s) \in (i - 1)..Len(s)
    BY <1>1
  <1>3. SubSeq(s, 1, i - 1) \o SubSeq(s, (i - 1) + 1, Len(s)) = SubSeq(s, 1, Len(s))
    BY <1>2, ConcatAdjacentSubSeq
  <1>4. (i - 1) + 1 = i
    BY <1>1
  <1>5. SubSeq(s, 1, Len(s)) = s
    BY SubSeqFull
  <1> QED
    BY <1>3, <1>4, <1>5

-----------------------------------------------------------------------------
(* Tables. *)
In(b) == {c \in Clause : b \in BucketsOf(c)}
Keyed == {c \in Clause : KeyOf[c] # NoKey}

(* A clause that matches a key is in the bucket of the key. *)
LEMMA BucketFacts ==
  ASSUME NEW c \in Clause
  PROVE  /\ \A k \in Key : HashIndex[k] \in Bucket /\ (Matches(c, k) => HashIndex[k] \in BucketsOf(c))
         /\ KeyOf[c] # NoKey => BucketsOf(c) \subseteq Bucket /\ BucketsOf(c) # {}
         /\ BucketsOf(c) \subseteq Bucket
  BY KeyAssumption DEF BucketsOf, Matches

(* What addClauseToIndex() does to each field of a table. *)
LEMMA AddFields ==
  ASSUME NEW x \in Tables, NEW c \in Clause, NEW where
  PROVE  LET y == AddClauseToIndex(x, c, where) IN
         /\ y \in Tables /\ y.dirty = x.dirty /\ y.dirtyBuckets = x.dirtyBuckets
         /\ y.size = x.size + One(c)
         /\ \A b \in Bucket : y.entries[b] = IF b \in BucketsOf(c)
                                              THEN Add(x.entries[b], c, where)
                                              ELSE x.entries[b]
  <1> DEFINE e == [b \in Bucket |-> IF b \in BucketsOf(c) THEN Add(x.entries[b], c, where)
                                    ELSE x.entries[b]]
             n == x.size + One(c)
             y == [x EXCEPT !.entries = e, !.size = n]
  <1>1. e \in [Bucket -> Seq(Clause)]
    <2>1. ASSUME NEW b \in Bucket
          PROVE  (IF b \in BucketsOf(c) THEN Add(x.entries[b], c, where)
                  ELSE x.entries[b]) \in Seq(Clause)
      <3>1. x.entries[b] \in Seq(Clause)
        BY DEF Tables
      <3> QED
        BY <3>1, AddMembers
    <2> QED
      BY <2>1
  <1>2. n \in Int
    BY DEF One, Tables
  <1>3. AddClauseToIndex(x, c, where) = y
    BY DEF AddClauseToIndex
  <1>4. \A b \in Bucket : e[b] = IF b \in BucketsOf(c) THEN Add(x.entries[b], c, where)
                                 ELSE x.entries[b]
    OBVIOUS
  <1> HIDE DEF e, n
  <1>5. y \in Tables
    BY <1>1, <1>2 DEF Tables
  <1>6. /\ y.dirty = x.dirty /\ y.dirtyBuckets = x.dirtyBuckets
        /\ y.size = n /\ y.entries = e
    BY DEF Tables
  <1> HIDE DEF y
  <1> QED
    BY <1>3, <1>4, <1>5, <1>6 DEF n

(* An empty table is a table. *)
LEMMA NewTable ==
  NoTable \in Tables
  BY DEF NoTable, Tables, Bounds

(* The function by which Filled is defined. *)
Filling(s, f) ==
  f = [n \in 0..Len(s) |-> IF n = 0 THEN NoTable
                           ELSE AddClauseToIndex(f[n - 1], s[n], "CL_END")]

Fills(s, m, f) ==
  /\ f[0] = NoTable
  /\ \A n \in 1..m : f[n] = AddClauseToIndex(f[n - 1], s[n], "CL_END")

(* The recursive function inside Filled takes its steps. *)
LEMMA FillingSteps ==
  ASSUME NEW s \in Seq(Clause), NEW f, Filling(s, f)
  PROVE  Fills(s, Len(s), f)
  <1>1. Len(s) \in Nat
    BY LenProperties
  <1>2. \A n \in 0..Len(s) :
          f[n] = IF n = 0 THEN NoTable ELSE AddClauseToIndex(f[n - 1], s[n], "CL_END")
    BY DEF Filling
  <1>3. 0 \in 0..Len(s) /\ \A n \in 1..Len(s) : n \in 0..Len(s) /\ n # 0
    BY <1>1
  <1> QED
    BY <1>2, <1>3 DEF Fills

(* Filled is the last step of such a function. *)
LEMMA FilledSteps ==
  ASSUME NEW s \in Seq(Clause)
  PROVE  \E f : /\ Fills(s, Len(s), f) /\ Filled(s) = f[Len(s)]
               /\ f[Len(s)] \in Tables
  <1> DEFINE m == Len(s)
             g == [p \in (1..m) \X Tables |-> AddClauseToIndex(p[2], s[p[1]], "CL_END")]
  <1>1. m \in Nat /\ \A n \in 1..m : s[n] \in Clause
    BY LenProperties
  <1>2. g \in [(1..m) \X Tables -> Tables]
    BY <1>1, AddFields
  <1>3. \A n \in 1..m, x \in Tables : g[<<n, x>>] = AddClauseToIndex(x, s[n], "CL_END")
    OBVIOUS
  <1> HIDE DEF m, g
  <1>4. PICK h : Iterates(Tables, NoTable, g, m, h)
    BY <1>1, <1>2, Iterate, NewTable
  <1>5. \A n \in 1..m : n - 1 \in 0..m /\ n \in 0..m
    BY <1>1
  <1>6. \A n \in 1..m : h[n] = AddClauseToIndex(h[n - 1], s[n], "CL_END")
    BY <1>3, <1>4, <1>5 DEF Iterates
  <1>7. Filling(s, h)
    <2>1. h = [n \in 0..m |-> h[n]]
      BY <1>4 DEF Iterates
    <2>2. \A n \in 0..m : h[n] = IF n = 0 THEN NoTable
                          ELSE AddClauseToIndex(h[n - 1], s[n], "CL_END")
      <3>1. \A n \in 0..m : n # 0 => n \in 1..m
        BY <1>1
      <3> QED
        BY <1>4, <1>6, <3>1 DEF Iterates
    <2>3. h = [n \in 0..m |-> IF n = 0 THEN NoTable
                              ELSE AddClauseToIndex(h[n - 1], s[n], "CL_END")]
      BY <2>1, <2>2
    <2> QED
      BY <2>3 DEF Filling, m
  <1> DEFINE f == CHOOSE f : Filling(s, f)
  <1>8. Filling(s, f)
    BY <1>7
  <1>9. Filled(s) = f[m]
    BY DEF Filled, Filling, m
  <1> HIDE DEF f
  <1>10. \A n \in 0..m : f[n] = h[n]
    <2>1. Fills(s, m, f)
      BY <1>8, FillingSteps DEF m
    <2>2. SameSteps(m, f, h)
      BY <1>4, <1>6, <2>1 DEF SameSteps, Fills, Iterates
    <2> QED
      BY <1>1, <2>2, Agree
  <1>11. Filled(s) = h[m]
    BY <1>1, <1>9, <1>10
  <1>12. h[m] \in Tables /\ h[0] = NoTable
    BY <1>1, <1>4 DEF Iterates
  <1>13. Fills(s, m, h)
    BY <1>6, <1>12 DEF Fills
  <1> QED
    BY <1>11, <1>12, <1>13 DEF m

(* A table of no clauses. *)
LEMMA FilledEmpty ==
  Filled(<<>>) = NoTable
  <1> DEFINE s == <<>>
  <1>1. s \in Seq(Clause)
    OBVIOUS
  <1>2. Len(s) = 0
    OBVIOUS
  <1> HIDE DEF s
  <1>3. PICK f : Fills(s, Len(s), f) /\ Filled(s) = f[Len(s)]
    BY <1>1, FilledSteps
  <1>4. Filled(s) = NoTable
    BY <1>2, <1>3 DEF Fills
  <1> QED
    BY <1>4 DEF s

(* A table of one clause more. *)
LEMMA FilledAppend ==
  ASSUME NEW s \in Seq(Clause), NEW e \in Clause
  PROVE  Filled(Append(s, e)) = AddClauseToIndex(Filled(s), e, "CL_END")
  <1> DEFINE t == Append(s, e)
             n == Len(s)
  <1>1. /\ n \in Nat /\ t \in Seq(Clause) /\ Len(t) = n + 1 /\ t[n + 1] = e
        /\ \A i \in 1..n : s[i] = t[i]
    BY AppendProperties, LenProperties
  <1> HIDE DEF t, n
  <1>2. PICK f : Fills(s, n, f) /\ Filled(s) = f[n]
    BY FilledSteps DEF n
  <1>3. PICK g : Fills(t, n + 1, g) /\ Filled(t) = g[n + 1]
    <2>1. PICK g : Fills(t, Len(t), g) /\ Filled(t) = g[Len(t)]
      BY <1>1, FilledSteps
    <2> QED
      BY <1>1, <2>1
  <1>4. SameSteps(n, f, g)
    <2>1. \A i \in 1..n : i \in 1..(n + 1)
      BY <1>1
    <2> QED
      BY <1>1, <1>2, <1>3, <2>1 DEF SameSteps, Fills
  <1>5. f[n] = g[n]
    <2>1. \A i \in 0..n : f[i] = g[i]
      BY <1>1, <1>4, Agree
    <2> QED
      BY <1>1, <2>1
  <1>6. g[n + 1] = AddClauseToIndex(g[n], e, "CL_END")
    <2>1. n + 1 \in 1..(n + 1) /\ (n + 1) - 1 = n
      BY <1>1
    <2> QED
      BY <1>1, <1>3, <2>1 DEF Fills
  <1> QED
    BY <1>2, <1>3, <1>5, <1>6 DEF t

(* A table that is built has the clauses in their order. *)
BuiltOf(s, x) ==
  /\ x \in Tables
  /\ \A b \in Bucket : x.entries[b] = Only(s, In(b)) /\ x.dirty[b] = 0
  /\ x.dirtyBuckets = 0
  /\ IsInjective(s) => x.size = Cardinality(ToSet(s) \cap Keyed)

(* What hashDefinition() makes of a sequence of clauses: each bucket has   *)
(* those of its own, in their order, and size counts those with a key.     *)
LEMMA FilledBuilt ==
  ASSUME NEW s \in Seq(Clause)
  PROVE  BuiltOf(s, Filled(s))
  <1> DEFINE G == {t \in Seq(Clause) : BuiltOf(t, Filled(t))}
  <1>1. <<>> \in G
    <2> DEFINE e == <<>>
    <2>0. Filled(e) = NoTable /\ NoTable \in Tables /\ e \in Seq(Clause)
      BY FilledEmpty, NewTable
    <2>1. \A T : Only(e, T) = <<>>
      BY OnlyEmpty
    <2>2. ToSet(e) \cap Keyed = {} /\ Cardinality({}) = 0
      BY MembersAppend, FS_EmptySet
    <2> HIDE DEF e
    <2>3. BuiltOf(e, NoTable)
      BY <2>0, <2>1, <2>2 DEF BuiltOf, NoTable
    <2>4. e \in G
      BY <2>0, <2>3
    <2> QED
      BY <2>4 DEF e
  <1>2. ASSUME NEW t \in Seq(Clause), NEW e \in Clause, t \in G
        PROVE  Append(t, e) \in G
    <2> DEFINE x == Filled(t)
               u == Append(t, e)
    <2> USE DEF G
    <2>1. BuiltOf(t, x)
      BY <1>2
    <2>2. x \in Tables /\ Filled(u) = AddClauseToIndex(x, e, "CL_END")
      BY <2>1, FilledAppend DEF BuiltOf
    <2> DEFINE y == Filled(u)
    <2>3. /\ y.dirty = x.dirty /\ y.dirtyBuckets = x.dirtyBuckets /\ y.size = x.size + One(e)
          /\ \A b \in Bucket : y.entries[b] = IF b \in BucketsOf(e) THEN Add(x.entries[b], e, "CL_END")
                                              ELSE x.entries[b]
      BY <2>2, AddFields
    <2>4. y \in Tables
      BY <2>2, AddFields
    <2>5. /\ u \in Seq(Clause) /\ ToSet(u) = ToSet(t) \cup {e}
          /\ IsInjective(u) => IsInjective(t) /\ e \notin ToSet(t)
      BY MembersAppend
    <2> HIDE DEF G, x, y
    <2>6. ASSUME NEW b \in Bucket
          PROVE  y.entries[b] = Only(u, In(b)) /\ y.dirty[b] = 0
      <3>1. Only(u, In(b)) = IF e \in In(b) THEN Append(Only(t, In(b)), e) ELSE Only(t, In(b))
        BY OnlyAppend
      <3>2. e \in In(b) <=> b \in BucketsOf(e)
        BY DEF In
      <3> HIDE DEF u
      <3> QED
        BY <2>1, <2>3, <3>1, <3>2 DEF BuiltOf, Add
    <2>7. ASSUME IsInjective(u)
          PROVE  y.size = Cardinality(ToSet(u) \cap Keyed)
      <3>1. IsInjective(t) /\ e \notin ToSet(t)
        BY <2>5, <2>7
      <3>2. x.size = Cardinality(ToSet(t) \cap Keyed)
        BY <2>1, <3>1 DEF BuiltOf
      <3>3. IsFiniteSet(ToSet(t) \cap Keyed)
        <4>1. IsFiniteSet(ToSet(t)) /\ ToSet(t) \cap Keyed \in SUBSET ToSet(t)
          BY Members
        <4> QED
          BY <4>1, FS_Subset
      <3>4. CASE e \in Keyed
        <4>1. ToSet(u) \cap Keyed = (ToSet(t) \cap Keyed) \cup {e}
          BY <2>5, <3>4
        <4>2. Cardinality((ToSet(t) \cap Keyed) \cup {e}) = Cardinality(ToSet(t) \cap Keyed) + 1
          BY <3>1, <3>3, FS_AddElement
        <4>3. One(e) = 1
          BY <3>4 DEF One, Keyed
        <4> QED
          BY <2>3, <3>2, <4>1, <4>2, <4>3
      <3>5. CASE e \notin Keyed
        <4>1. ToSet(u) \cap Keyed = ToSet(t) \cap Keyed
          BY <2>5, <3>5
        <4>2. One(e) = 0
          BY <3>5 DEF One, Keyed
        <4>3. Cardinality(ToSet(t) \cap Keyed) \in Nat
          BY <3>3, FS_CardinalityType
        <4>4. x.size + 0 = x.size
          BY <3>2, <4>3
        <4> QED
          BY <2>3, <3>2, <4>1, <4>2, <4>4
      <3> QED
        BY <3>4, <3>5
    <2>8. y.dirtyBuckets = 0
      BY <2>1, <2>3 DEF BuiltOf
    <2>9. BuiltOf(u, y)
      BY <2>4, <2>6, <2>7, <2>8 DEF BuiltOf
    <2> QED
      BY <2>5, <2>9 DEF G, y
  <1> HIDE DEF G
  <1>3. s \in G
    BY <1>1, <1>2, SeqInduction
  <1> QED
    BY <1>3 DEF G

-----------------------------------------------------------------------------
(* What makes a table sound for the clauses s of which those of G are erased. *)
Dirty(x, b, G) == Cardinality(ToSet(x.entries[b]) \cap G)

Listed(x) == {c \in Clause : KeyOf[c] # NoKey /\ \E b \in Bucket : Contains(x.entries[b], c)}

Exact(x, G) ==
  /\ \A b \in Bucket : x.dirty[b] = Dirty(x, b, G)
  /\ x.dirtyBuckets = Cardinality({b \in Bucket : Dirty(x, b, G) > 0})
  /\ x.size = Cardinality(Listed(x))

PlacedIn(x, s, G) ==
  \A b \in Bucket : /\ ToSet(x.entries[b]) \subseteq ToSet(s) \cap In(b)
                    /\ (ToSet(s) \ G) \cap In(b) \subseteq ToSet(x.entries[b])

LiveFor(k, G) == {c \in Clause \ G : Matches(c, k)}

Follows(x, s, G) ==
  \A k \in Key : Only(x.entries[HashIndex[k]], LiveFor(k, G)) = Only(s, LiveFor(k, G))

Once(x) == \A b \in Bucket : IsInjective(x.entries[b])

(* A table agrees with a chain s of which the clauses in G are erased. *)
Sound(x, s, G) ==
  x \in Tables /\ Once(x) /\ Exact(x, G) /\ PlacedIn(x, s, G) /\ Follows(x, s, G)

(* A bucket is a sequence of clauses, and those of them in G can be        *)
(* counted.                                                                *)
LEMMA BucketSeq ==
  ASSUME NEW x \in Tables, NEW b \in Bucket
  PROVE  /\ x.entries[b] \in Seq(Clause) /\ x.dirty[b] \in Int
         /\ ToSet(x.entries[b]) \subseteq Clause
         /\ \A c : Contains(x.entries[b], c) <=> c \in ToSet(x.entries[b])
         /\ \A G : /\ IsFiniteSet(ToSet(x.entries[b]) \cap G) /\ Dirty(x, b, G) \in Nat
                   /\ Dirty(x, b, G) = 0 <=> ToSet(x.entries[b]) \cap G = {}
  <1>1. x.entries[b] \in Seq(Clause) /\ x.dirty[b] \in Int
    BY DEF Tables
  <1> DEFINE s == ToSet(x.entries[b])
  <1>2. /\ s \subseteq Clause /\ IsFiniteSet(s)
        /\ \A c : Contains(x.entries[b], c) <=> c \in s
    BY <1>1, Members
  <1> HIDE DEF s
  <1>3. ASSUME NEW G
        PROVE  /\ IsFiniteSet(s \cap G) /\ Cardinality(s \cap G) \in Nat
               /\ Cardinality(s \cap G) = 0 <=> s \cap G = {}
    <2>1. s \cap G \in SUBSET s
      OBVIOUS
    <2>2. IsFiniteSet(s \cap G)
      BY <1>2, <2>1, FS_Subset
    <2> QED
      BY <2>2, FS_CardinalityType, FS_EmptySet
  <1> QED
    BY <1>1, <1>2, <1>3 DEF s, Dirty

(* The clauses with a key that a sound table lists. *)
LEMMA ListedFacts ==
  ASSUME NEW x, NEW s \in Seq(Clause), NEW G, Sound(x, s, G)
  PROVE  /\ Listed(x) \subseteq ToSet(s) \cap Keyed
         /\ (ToSet(s) \cap Keyed) \ G \subseteq Listed(x)
         /\ IsFiniteSet(Listed(x))
  <1>1. x \in Tables /\ PlacedIn(x, s, G)
    BY DEF Sound
  <1>2. Listed(x) \subseteq ToSet(s) \cap Keyed
    BY <1>1, BucketSeq DEF Listed, PlacedIn, Keyed
  <1>3. ASSUME NEW c \in (ToSet(s) \cap Keyed) \ G
        PROVE  c \in Listed(x)
    <2>1. c \in Clause /\ KeyOf[c] # NoKey
      BY DEF Keyed
    <2>2. PICK b \in Bucket : b \in BucketsOf(c)
      BY <2>1, BucketFacts
    <2>3. c \in ToSet(x.entries[b])
      BY <1>1, <2>1, <2>2 DEF PlacedIn, In
    <2> QED
      BY <1>1, <2>1, <2>3, BucketSeq DEF Listed
  <1>4. IsFiniteSet(Listed(x))
    <2>1. IsFiniteSet(ToSet(s)) /\ Listed(x) \in SUBSET ToSet(s)
      BY <1>2, Members
    <2> QED
      BY <2>1, FS_Subset
  <1> QED
    BY <1>2, <1>3, <1>4

(* addClauseToIndex() keeps a table sound. *)
LEMMA AddSound ==
  ASSUME NEW x, NEW s \in Seq(Clause), NEW G \in SUBSET Clause, Sound(x, s, G),
         NEW c \in Clause, c \notin ToSet(s), c \notin G, NEW where
  PROVE  Sound(AddClauseToIndex(x, c, where), Add(s, c, where), G)
  <1> DEFINE y == AddClauseToIndex(x, c, where)
             t == Add(s, c, where)
  <1>1. x \in Tables /\ Once(x) /\ Exact(x, G) /\ PlacedIn(x, s, G) /\ Follows(x, s, G)
    BY DEF Sound
  <1>2. /\ y \in Tables /\ y.dirty = x.dirty /\ y.dirtyBuckets = x.dirtyBuckets
        /\ y.size = x.size + One(c)
        /\ \A b \in Bucket : y.entries[b] = IF b \in BucketsOf(c)
                                             THEN Add(x.entries[b], c, where)
                                             ELSE x.entries[b]
    BY <1>1, AddFields
  <1>3. t \in Seq(Clause) /\ ToSet(t) = ToSet(s) \cup {c}
    BY AddMembers
  <1> HIDE DEF y, t
  <1>4. ASSUME NEW b \in Bucket
        PROVE  /\ c \notin ToSet(x.entries[b])
               /\ ToSet(y.entries[b]) = ToSet(x.entries[b]) \cup {d \in {c} : b \in BucketsOf(d)}
               /\ IsInjective(y.entries[b])
    <2>1. x.entries[b] \in Seq(Clause) /\ c \notin ToSet(x.entries[b]) /\ IsInjective(x.entries[b])
      BY <1>1, BucketSeq DEF PlacedIn, Once
    <2>2. /\ ToSet(Add(x.entries[b], c, where)) = ToSet(x.entries[b]) \cup {c}
          /\ IsInjective(Add(x.entries[b], c, where))
      BY <2>1, AddMembers
    <2> QED
      BY <1>2, <2>1, <2>2
  <1>5. \A b \in Bucket : Dirty(y, b, G) = Dirty(x, b, G)
    <2>1. ASSUME NEW b \in Bucket
          PROVE  ToSet(y.entries[b]) \cap G = ToSet(x.entries[b]) \cap G
      BY <1>4
    <2> QED
      BY <2>1 DEF Dirty
  <1>6. Listed(y) = Listed(x) \cup ({c} \cap Keyed)
    <2>1. \A d : d \in Listed(x) <=>
            d \in Keyed /\ \E b \in Bucket : d \in ToSet(x.entries[b])
      BY <1>1, BucketSeq DEF Listed, Keyed
    <2>2. \A d : d \in Listed(y) <=>
            d \in Keyed /\ \E b \in Bucket : d \in ToSet(y.entries[b])
      BY <1>2, BucketSeq DEF Listed, Keyed
    <2>3. c \in Keyed => \E b \in Bucket : b \in BucketsOf(c)
      BY BucketFacts DEF Keyed
    <2>4. \A d : (\E b \in Bucket : d \in ToSet(y.entries[b]))
                   <=> \/ \E b \in Bucket : d \in ToSet(x.entries[b])
                       \/ d = c /\ \E b \in Bucket : b \in BucketsOf(c)
      BY <1>4
    <2>5. \A d : d \in Listed(y) <=> d \in Listed(x) \cup ({c} \cap Keyed)
      BY <2>1, <2>2, <2>3, <2>4
    <2> QED
      BY <2>5
  <1>7. y.size = Cardinality(Listed(y))
    <2>1. c \notin Listed(x) /\ IsFiniteSet(Listed(x)) /\ x.size = Cardinality(Listed(x))
      BY <1>1, ListedFacts DEF Exact
    <2>2. Cardinality(Listed(x) \cup {c}) = Cardinality(Listed(x)) + 1
      BY <2>1, FS_AddElement
    <2>3. CASE c \in Keyed
      <3>1. One(c) = 1 /\ Listed(y) = Listed(x) \cup {c}
        BY <1>6, <2>3 DEF One, Keyed
      <3> QED
        BY <1>2, <2>1, <2>2, <3>1
    <2>4. CASE c \notin Keyed
      <3>1. One(c) = 0 /\ Listed(y) = Listed(x)
        BY <1>6, <2>4 DEF One, Keyed
      <3>2. x.size + 0 = x.size
        BY <1>1 DEF Tables
      <3> QED
        BY <1>2, <2>1, <3>1, <3>2
    <2> QED
      BY <2>3, <2>4
  <1>8. Exact(y, G)
    <2>1. {b \in Bucket : Dirty(y, b, G) > 0} = {b \in Bucket : Dirty(x, b, G) > 0}
      BY <1>5
    <2> QED
      BY <1>1, <1>2, <1>5, <1>7, <2>1 DEF Exact
  <1>9. PlacedIn(y, t, G)
    BY <1>1, <1>3, <1>4 DEF PlacedIn, In
  <1>10. Follows(y, t, G)
    <2> SUFFICES ASSUME NEW k \in Key
                 PROVE  Only(y.entries[HashIndex[k]], LiveFor(k, G)) = Only(t, LiveFor(k, G))
      BY DEF Follows
    <2> DEFINE b == HashIndex[k]
               L == LiveFor(k, G)
    <2>1. b \in Bucket /\ x.entries[b] \in Seq(Clause)
      BY <1>1, BucketFacts, BucketSeq
    <2>2. Only(x.entries[b], L) = Only(s, L)
      BY <1>1 DEF Follows
    <2>3. c \in L => b \in BucketsOf(c)
      BY BucketFacts DEF LiveFor
    <2> HIDE DEF b, L
    <2>4. Only(t, L) = IF c \in L THEN Add(Only(s, L), c, where) ELSE Only(s, L)
      BY OnlyAdd DEF t
    <2>5. Only(Add(x.entries[b], c, where), L)
            = IF c \in L THEN Add(Only(x.entries[b], L), c, where) ELSE Only(x.entries[b], L)
      BY <2>1, OnlyAdd
    <2>6. y.entries[b] = IF b \in BucketsOf(c) THEN Add(x.entries[b], c, where) ELSE x.entries[b]
      BY <1>2, <2>1
    <2>7. Only(y.entries[b], L) = Only(t, L)
      BY <2>2, <2>3, <2>4, <2>5, <2>6
    <2> QED
      BY <2>7 DEF b, L
  <1>11. Once(y)
    BY <1>4 DEF Once
  <1> QED
    BY <1>2, <1>8, <1>9, <1>10, <1>11 DEF Sound, y, t

(* What deleteActiveClauseFromIndex() does to each field of a table. *)
LEMMA EraseFields ==
  ASSUME NEW x \in Tables, NEW c \in Clause
  PROVE  LET y == DeleteActiveClauseFromIndex(x, c) IN
         /\ y \in Tables /\ y.entries = x.entries /\ y.size = x.size
         /\ y.dirtyBuckets = x.dirtyBuckets + Cardinality({b \in BucketsOf(c) : x.dirty[b] = 0})
         /\ \A b \in Bucket : y.dirty[b] = IF b \in BucketsOf(c) THEN x.dirty[b] + 1 ELSE x.dirty[b]
  <1> DEFINE e == [b \in Bucket |-> IF b \in BucketsOf(c) THEN x.dirty[b] + 1 ELSE x.dirty[b]]
             D == {b \in BucketsOf(c) : x.dirty[b] = 0}
             n == x.dirtyBuckets + Cardinality(D)
             y == [x EXCEPT !.dirty = e, !.dirtyBuckets = n]
  <1>1. e \in [Bucket -> Int]
    BY DEF Tables
  <1>2. n \in Int
    <2>1. D \in SUBSET Bucket
      BY BucketFacts
    <2>2. IsFiniteSet(D)
      BY <2>1, FiniteAssumption, FS_Subset
    <2>3. Cardinality(D) \in Nat
      BY <2>2, FS_CardinalityType
    <2> HIDE DEF D
    <2> QED
      BY <2>3 DEF Tables
  <1>3. DeleteActiveClauseFromIndex(x, c) = y
    BY DEF DeleteActiveClauseFromIndex
  <1>4. \A b \in Bucket : e[b] = IF b \in BucketsOf(c) THEN x.dirty[b] + 1 ELSE x.dirty[b]
    OBVIOUS
  <1> HIDE DEF e, n
  <1>5. y \in Tables
    BY <1>1, <1>2 DEF Tables
  <1>6. /\ y.entries = x.entries /\ y.size = x.size
        /\ y.dirtyBuckets = n /\ y.dirty = e
    BY DEF Tables
  <1> HIDE DEF y
  <1> QED
    BY <1>3, <1>4, <1>5, <1>6 DEF n

(* deleteActiveClauseFromIndex() keeps a table sound. *)
LEMMA EraseSound ==
  ASSUME NEW x, NEW s \in Seq(Clause), NEW G \in SUBSET Clause, Sound(x, s, G),
         NEW c \in Clause, c \in ToSet(s), c \notin G
  PROVE  Sound(DeleteActiveClauseFromIndex(x, c), s, G \cup {c})
  <1> DEFINE y == DeleteActiveClauseFromIndex(x, c)
             H == G \cup {c}
  <1>1. x \in Tables /\ Once(x) /\ Exact(x, G) /\ PlacedIn(x, s, G) /\ Follows(x, s, G)
    BY DEF Sound
  <1>2. /\ y \in Tables /\ y.entries = x.entries /\ y.size = x.size
        /\ y.dirtyBuckets = x.dirtyBuckets + Cardinality({b \in BucketsOf(c) : x.dirty[b] = 0})
        /\ \A b \in Bucket : y.dirty[b] = IF b \in BucketsOf(c) THEN x.dirty[b] + 1 ELSE x.dirty[b]
    BY <1>1, EraseFields
  <1> HIDE DEF y
  <1>3. ASSUME NEW b \in Bucket
        PROVE  Dirty(y, b, H) = IF b \in BucketsOf(c) THEN Dirty(x, b, G) + 1 ELSE Dirty(x, b, G)
    <2> DEFINE E == ToSet(x.entries[b])
    <2>1. IsFiniteSet(E \cap G) /\ c \notin E \cap G
      BY <1>1, BucketSeq
    <2>2. c \in E <=> b \in BucketsOf(c)
      BY <1>1 DEF PlacedIn, In
    <2> HIDE DEF E
    <2>3. E \cap H = IF b \in BucketsOf(c) THEN (E \cap G) \cup {c} ELSE E \cap G
      BY <2>2
    <2>4. Cardinality((E \cap G) \cup {c}) = Cardinality(E \cap G) + 1
      BY <2>1, FS_AddElement
    <2>5. Dirty(y, b, H) = Cardinality(E \cap H) /\ Dirty(x, b, G) = Cardinality(E \cap G)
      BY <1>2 DEF Dirty, E
    <2> QED
      BY <2>3, <2>4, <2>5
  <1>4. \A b \in Bucket : y.dirty[b] = Dirty(y, b, H)
    BY <1>1, <1>2, <1>3 DEF Exact
  <1>5. y.dirtyBuckets = Cardinality({b \in Bucket : Dirty(y, b, H) > 0})
    <2> DEFINE N == {b \in BucketsOf(c) : x.dirty[b] = 0}
               O == {b \in Bucket : Dirty(x, b, G) > 0}
    <2>1. BucketsOf(c) \subseteq Bucket /\ \A b \in Bucket : Dirty(x, b, G) \in Nat
      BY <1>1, BucketFacts, BucketSeq
    <2>2. {b \in Bucket : Dirty(y, b, H) > 0} = O \cup N
      <3>1. ASSUME NEW b \in Bucket
            PROVE  Dirty(y, b, H) > 0 <=> Dirty(x, b, G) > 0 \/ (b \in BucketsOf(c) /\ x.dirty[b] = 0)
        <4>1. Dirty(x, b, G) \in Nat /\ x.dirty[b] = Dirty(x, b, G)
          BY <1>1, <2>1 DEF Exact
        <4>2. Dirty(y, b, H) = IF b \in BucketsOf(c) THEN Dirty(x, b, G) + 1 ELSE Dirty(x, b, G)
          BY <1>3
        <4> QED
          BY <4>1, <4>2
      <3> QED
        BY <2>1, <3>1
    <2>3. O \cap N = {}
      BY <1>1, <2>1 DEF Exact
    <2>4. IsFiniteSet(O) /\ IsFiniteSet(N)
      <3>1. O \in SUBSET Bucket /\ N \in SUBSET Bucket
        BY <2>1
      <3> QED
        BY <3>1, FiniteAssumption, FS_Subset
    <2>5. x.dirtyBuckets = Cardinality(O) /\ y.dirtyBuckets = x.dirtyBuckets + Cardinality(N)
      BY <1>1, <1>2 DEF Exact
    <2> HIDE DEF O, N
    <2>6. Cardinality(O \cup N) = Cardinality(O) + Cardinality(N)
      <3>1. Cardinality(O \cup N) = Cardinality(O) + Cardinality(N) - Cardinality(O \cap N)
        BY <2>4, FS_Union
      <3>2. Cardinality(O) \in Nat /\ Cardinality(N) \in Nat /\ Cardinality(O \cap N) = 0
        BY <2>3, <2>4, FS_CardinalityType, FS_EmptySet
      <3> QED
        BY <3>1, <3>2
    <2> QED
      BY <2>2, <2>5, <2>6
  <1>6. Listed(y) = Listed(x)
    BY <1>2 DEF Listed
  <1>7. Exact(y, H)
    BY <1>1, <1>2, <1>4, <1>5, <1>6 DEF Exact
  <1>8. PlacedIn(y, s, H) /\ Once(y)
    BY <1>1, <1>2 DEF PlacedIn, Once
  <1>9. Follows(y, s, H)
    <2> SUFFICES ASSUME NEW k \in Key
                 PROVE  Only(x.entries[HashIndex[k]], LiveFor(k, H)) = Only(s, LiveFor(k, H))
      BY <1>2 DEF Follows
    <2> DEFINE e == x.entries[HashIndex[k]]
               A == LiveFor(k, G)
               B == LiveFor(k, H)
    <2>1. e \in Seq(Clause) /\ Only(e, A) = Only(s, A)
      BY <1>1, BucketFacts, BucketSeq, KeyAssumption DEF Follows
    <2>2. A \cap B = B
      BY DEF LiveFor
    <2> HIDE DEF e, A, B
    <2>3. Only(Only(e, A), B) = Only(e, B) /\ Only(Only(s, A), B) = Only(s, B)
      BY <2>1, <2>2, OnlyOnly
    <2>4. Only(e, B) = Only(s, B)
      BY <2>1, <2>3
    <2> QED
      BY <2>4 DEF e, B
  <1> QED
    BY <1>2, <1>7, <1>8, <1>9 DEF Sound, y

(* What delClauseFromIndex() does to each field of a table. *)
LEMMA UnlinkFields ==
  ASSUME NEW x \in Tables, NEW c \in Clause
  PROVE  LET y == DelClauseFromIndex(x, c) IN
         /\ y \in Tables /\ y.dirty = x.dirty /\ y.dirtyBuckets = x.dirtyBuckets
         /\ y.size = x.size - One(c)
         /\ \A b \in Bucket : y.entries[b] = Without(x.entries[b], {c})
  <1> DEFINE e == [b \in Bucket |-> Without(x.entries[b], {c})]
             n == x.size - One(c)
             y == [x EXCEPT !.entries = e, !.size = n]
  <1>1. e \in [Bucket -> Seq(Clause)]
    <2>1. ASSUME NEW b \in Bucket
          PROVE  Without(x.entries[b], {c}) \in Seq(Clause)
      <3>1. x.entries[b] \in Seq(Clause)
        BY DEF Tables
      <3> QED
        BY <3>1, OnlyType DEF Without
    <2> QED
      BY <2>1
  <1>2. n \in Int
    BY DEF One, Tables
  <1>3. DelClauseFromIndex(x, c) = y
    BY DEF DelClauseFromIndex
  <1>4. \A b \in Bucket : e[b] = Without(x.entries[b], {c})
    OBVIOUS
  <1> HIDE DEF e, n
  <1>5. y \in Tables
    BY <1>1, <1>2 DEF Tables
  <1>6. /\ y.dirty = x.dirty /\ y.dirtyBuckets = x.dirtyBuckets
        /\ y.size = n /\ y.entries = e
    BY DEF Tables
  <1> HIDE DEF y
  <1> QED
    BY <1>3, <1>4, <1>5, <1>6 DEF n

(* delClauseFromIndex() keeps a table sound. *)
LEMMA UnlinkSound ==
  ASSUME NEW x, NEW s \in Seq(Clause), NEW G \in SUBSET Clause, Sound(x, s, G),
         NEW c \in Clause, c \in ToSet(s), c \notin G
  PROVE  Sound(DelClauseFromIndex(x, c), Without(s, {c}), G \cup {c})
  <1> DEFINE y == DelClauseFromIndex(x, c)
             t == Without(s, {c})
             H == G \cup {c}
  <1>1. x \in Tables /\ Once(x) /\ Exact(x, G) /\ PlacedIn(x, s, G) /\ Follows(x, s, G)
    BY DEF Sound
  <1>2. /\ y \in Tables /\ y.dirty = x.dirty /\ y.dirtyBuckets = x.dirtyBuckets
        /\ y.size = x.size - One(c)
        /\ \A b \in Bucket : y.entries[b] = Without(x.entries[b], {c})
    BY <1>1, UnlinkFields
  <1>3. ToSet(t) = ToSet(s) \ {c}
    BY WithoutMembers
  <1> HIDE DEF y, t
  <1>4. ASSUME NEW b \in Bucket
        PROVE  ToSet(y.entries[b]) = ToSet(x.entries[b]) \ {c} /\ IsInjective(y.entries[b])
    <2>1. x.entries[b] \in Seq(Clause) /\ IsInjective(x.entries[b])
      BY <1>1, BucketSeq DEF Once
    <2>2. /\ ToSet(Without(x.entries[b], {c})) = ToSet(x.entries[b]) \ {c}
          /\ IsInjective(Without(x.entries[b], {c}))
      BY <2>1, WithoutMembers
    <2> QED
      BY <1>2, <2>2
  <1>5. \A b \in Bucket : Dirty(y, b, H) = Dirty(x, b, G)
    <2>1. ASSUME NEW b \in Bucket
          PROVE  ToSet(y.entries[b]) \cap H = ToSet(x.entries[b]) \cap G
      BY <1>4
    <2> QED
      BY <2>1 DEF Dirty
  <1>6. Listed(y) = Listed(x) \ {c}
    <2>1. \A d : d \in Listed(x) <=>
            d \in Keyed /\ \E b \in Bucket : d \in ToSet(x.entries[b])
      BY <1>1, BucketSeq DEF Listed, Keyed
    <2>2. \A d : d \in Listed(y) <=>
            d \in Keyed /\ \E b \in Bucket : d \in ToSet(y.entries[b])
      BY <1>2, BucketSeq DEF Listed, Keyed
    <2>3. \A d : (\E b \in Bucket : d \in ToSet(y.entries[b]))
                   <=> d # c /\ \E b \in Bucket : d \in ToSet(x.entries[b])
      BY <1>4
    <2>4. \A d : d \in Listed(y) <=> d \in Listed(x) \ {c}
      BY <2>1, <2>2, <2>3
    <2> QED
      BY <2>4
  <1>7. y.size = Cardinality(Listed(y))
    <2>1. /\ IsFiniteSet(Listed(x)) /\ x.size = Cardinality(Listed(x))
          /\ c \in Listed(x) <=> c \in Keyed
      <3>1. Listed(x) \subseteq Keyed /\ (ToSet(s) \cap Keyed) \ G \subseteq Listed(x)
        BY ListedFacts
      <3> QED
        BY <1>1, <3>1, ListedFacts DEF Exact
    <2>2. Cardinality(Listed(x) \ {c})
            = IF c \in Listed(x) THEN Cardinality(Listed(x)) - 1 ELSE Cardinality(Listed(x))
      BY <2>1, FS_RemoveElement
    <2>3. One(c) = IF c \in Keyed THEN 1 ELSE 0
      BY DEF One, Keyed
    <2>4. x.size \in Int
      BY <1>1 DEF Tables
    <2> QED
      BY <1>2, <1>6, <2>1, <2>2, <2>3, <2>4
  <1>8. Exact(y, H)
    <2>1. {b \in Bucket : Dirty(y, b, H) > 0} = {b \in Bucket : Dirty(x, b, G) > 0}
      BY <1>5
    <2> QED
      BY <1>1, <1>2, <1>5, <1>7, <2>1 DEF Exact
  <1>9. PlacedIn(y, t, H)
    BY <1>1, <1>3, <1>4 DEF PlacedIn
  <1>10. Follows(y, t, H)
    <2> SUFFICES ASSUME NEW k \in Key
                 PROVE  Only(y.entries[HashIndex[k]], LiveFor(k, H)) = Only(t, LiveFor(k, H))
      BY DEF Follows
    <2> DEFINE e == x.entries[HashIndex[k]]
               A == LiveFor(k, G)
               B == LiveFor(k, H)
    <2>0. HashIndex[k] \in Bucket
      BY KeyAssumption
    <2>1. /\ e \in Seq(Clause) /\ Only(e, A) = Only(s, A)
          /\ y.entries[HashIndex[k]] = Without(e, {c})
      <3>1. e \in Seq(Clause) /\ Only(e, A) = Only(s, A)
        BY <1>1, <2>0, BucketSeq DEF Follows
      <3>2. y.entries[HashIndex[k]] = Without(e, {c})
        BY <1>2, <2>0
      <3> QED
        BY <3>1, <3>2
    <2>2. A \cap B = B /\ B \in SUBSET Clause /\ B \cap {c} = {}
      BY DEF LiveFor
    <2> HIDE DEF e, A, B
    <2>3. Only(Only(e, A), B) = Only(e, B) /\ Only(Only(s, A), B) = Only(s, B)
      BY <2>1, <2>2, OnlyOnly
    <2>4. Only(Without(e, {c}), B) = Only(e, B) /\ Only(t, B) = Only(s, B)
      BY <2>1, <2>2, OnlyWithout DEF t
    <2>5. Only(y.entries[HashIndex[k]], B) = Only(t, B)
      BY <2>1, <2>3, <2>4
    <2> QED
      BY <2>5 DEF B
  <1>11. Once(y)
    BY <1>4 DEF Once
  <1> QED
    BY <1>2, <1>8, <1>9, <1>10, <1>11 DEF Sound, y, t

(* What gcClauseBucket() does to each field of a table. *)
LEMMA GcFields ==
  ASSUME NEW x \in Tables,
         \A c \in gone : c \in Clause,
         NEW D, D = {c \in gone : \E b \in Bucket :
                       x.dirty[b] > 0 /\ KeyOf[c] # NoKey /\ Contains(x.entries[b], c)},
         Cardinality(D) \in Nat
  PROVE  LET y == GcBuckets(x) IN
         /\ y \in Tables /\ y.dirtyBuckets = 0
         /\ y.size = x.size - Cardinality(D)
         /\ \A b \in Bucket : /\ y.entries[b] = IF x.dirty[b] > 0 THEN Without(x.entries[b], gone)
                                                ELSE x.entries[b]
                              /\ y.dirty[b] = 0
  <1> DEFINE e == [b \in Bucket |-> IF x.dirty[b] > 0 THEN Without(x.entries[b], gone)
                                    ELSE x.entries[b]]
             d == [b \in Bucket |-> 0]
             n == x.size - Cardinality(D)
             y == [x EXCEPT !.entries = e, !.dirty = d, !.dirtyBuckets = 0, !.size = n]
  <1>1. e \in [Bucket -> Seq(Clause)]
    <2>1. ASSUME NEW b \in Bucket
          PROVE  (IF x.dirty[b] > 0 THEN Without(x.entries[b], gone)
                  ELSE x.entries[b]) \in Seq(Clause)
      <3>1. x.entries[b] \in Seq(Clause)
        BY DEF Tables
      <3>2. Without(x.entries[b], gone) \in Seq(Clause)
        BY <3>1, OnlyType DEF Without
      <3> QED
        BY <3>1, <3>2
    <2> QED
      BY <2>1
  <1>2. n \in Int /\ d \in [Bucket -> Int]
    BY DEF Tables
  <1>3. GcBuckets(x) = y
    BY DEF GcBuckets
  <1>4. \A b \in Bucket : /\ e[b] = IF x.dirty[b] > 0 THEN Without(x.entries[b], gone)
                                    ELSE x.entries[b]
                          /\ d[b] = 0
    OBVIOUS
  <1> HIDE DEF e, n, d
  <1>5. y \in Tables
    <2> DEFINE z == [x EXCEPT !.entries = e, !.dirty = d]
    <2>1. z \in Tables
      BY <1>1, <1>2 DEF Tables
    <2> DEFINE o == 0
               u == [z EXCEPT !.dirtyBuckets = o]
    <2>0. o \in Int
      OBVIOUS
    <2>2. y = [u EXCEPT !.size = n]
      OBVIOUS
    <2> HIDE DEF z, o
    <2>3. u \in Tables
      BY <2>0, <2>1 DEF Tables
    <2> HIDE DEF u
    <2>4. [u EXCEPT !.size = n] \in Tables
      BY <1>2, <2>3 DEF Tables
    <2> QED
      BY <2>2, <2>4
  <1>6. /\ y.dirty = d /\ y.dirtyBuckets = 0
        /\ y.size = n /\ y.entries = e
    BY DEF Tables
  <1> HIDE DEF y
  <1> QED
    BY <1>3, <1>4, <1>5, <1>6 DEF n

(* Cleaning keeps a table sound. *)
LEMMA GcSound ==
  ASSUME NEW x, NEW s \in Seq(Clause), gone \in SUBSET Clause, Sound(x, s, gone)
  PROVE  Sound(GcBuckets(x), Without(s, gone), gone)
  <1> DEFINE y == GcBuckets(x)
             t == Without(s, gone)
             D == {c \in gone : \E b \in Bucket :
                     x.dirty[b] > 0 /\ KeyOf[c] # NoKey /\ Contains(x.entries[b], c)}
  <1>1. /\ x \in Tables /\ Once(x) /\ Exact(x, gone) /\ PlacedIn(x, s, gone)
        /\ Follows(x, s, gone)
    BY DEF Sound
  <1>2. D = Listed(x) \cap gone
    <2>1. ASSUME NEW c \in gone, NEW b \in Bucket, Contains(x.entries[b], c)
          PROVE  x.dirty[b] > 0
      <3>1. c \in ToSet(x.entries[b]) \cap gone
        BY <1>1, <2>1, BucketSeq
      <3>2. Dirty(x, b, gone) \in Nat /\ Dirty(x, b, gone) # 0
        BY <1>1, <3>1, BucketSeq
      <3> QED
        BY <1>1, <3>2 DEF Exact
    <2> QED
      BY <2>1 DEF Listed
  <1>3. IsFiniteSet(Listed(x)) /\ x.size = Cardinality(Listed(x))
    BY <1>1, ListedFacts DEF Exact
  <1>4. Cardinality(D) \in Nat
    <2>1. D \in SUBSET Listed(x)
      BY <1>2
    <2>2. IsFiniteSet(D)
      BY <1>3, <2>1, FS_Subset
    <2> QED
      BY <2>2, FS_CardinalityType
  <1>5. /\ y \in Tables /\ y.dirtyBuckets = 0
        /\ y.size = x.size - Cardinality(D)
        /\ \A b \in Bucket : /\ y.entries[b] = IF x.dirty[b] > 0 THEN Without(x.entries[b], gone)
                                               ELSE x.entries[b]
                             /\ y.dirty[b] = 0
    <2>1. \A c \in gone : c \in Clause
      OBVIOUS
    <2> QED
      BY <1>1, <1>4, <2>1, GcFields
  <1>6. ToSet(t) = ToSet(s) \ gone
    BY WithoutMembers
  <1> HIDE DEF y, t, D
  <1>7. ASSUME NEW b \in Bucket
        PROVE  /\ y.entries[b] = Without(x.entries[b], gone)
               /\ ToSet(y.entries[b]) = ToSet(x.entries[b]) \ gone
               /\ IsInjective(y.entries[b])
    <2>1. x.entries[b] \in Seq(Clause) /\ IsInjective(x.entries[b])
      BY <1>1, BucketSeq DEF Once
    <2>2. /\ ToSet(Without(x.entries[b], gone)) = ToSet(x.entries[b]) \ gone
          /\ IsInjective(Without(x.entries[b], gone))
      BY <2>1, WithoutMembers
    <2>3. CASE x.dirty[b] > 0
      BY <1>5, <2>2, <2>3
    <2>4. CASE ~(x.dirty[b] > 0)
      <3>1. Dirty(x, b, gone) = 0
        <4>1. Dirty(x, b, gone) \in Nat /\ x.dirty[b] = Dirty(x, b, gone)
          BY <1>1, BucketSeq DEF Exact
        <4> QED
          BY <2>4, <4>1
      <3>2. ToSet(x.entries[b]) \cap gone = {} /\ ToSet(x.entries[b]) \subseteq Clause
        BY <1>1, <3>1, BucketSeq
      <3>3. Without(x.entries[b], gone) = x.entries[b]
        <4>1. ToSet(x.entries[b]) \subseteq Clause \ gone
          BY <3>2
        <4> QED
          BY <2>1, <4>1, OnlyAll DEF Without
      <3> QED
        BY <1>5, <2>2, <2>4, <3>3
    <2> QED
      BY <2>3, <2>4
  <1>8. \A b \in Bucket : Dirty(y, b, gone) = 0
    <2>1. ASSUME NEW b \in Bucket
          PROVE  ToSet(y.entries[b]) \cap gone = {}
      BY <1>7
    <2> QED
      BY <1>5, <2>1, BucketSeq
  <1>9. Listed(y) = Listed(x) \ gone
    <2>1. \A d : d \in Listed(x) <=>
            d \in Keyed /\ \E b \in Bucket : d \in ToSet(x.entries[b])
      BY <1>1, BucketSeq DEF Listed, Keyed
    <2>2. \A d : d \in Listed(y) <=>
            d \in Keyed /\ \E b \in Bucket : d \in ToSet(y.entries[b])
      BY <1>5, BucketSeq DEF Listed, Keyed
    <2> QED
      BY <1>7, <2>1, <2>2
  <1>10. y.size = Cardinality(Listed(y))
    <2>1. Cardinality(Listed(x) \ gone) = Cardinality(Listed(x)) - Cardinality(Listed(x) \cap gone)
      BY <1>3, FS_Difference
    <2> QED
      BY <1>2, <1>3, <1>5, <1>9, <2>1
  <1>11. Exact(y, gone)
    <2>1. {b \in Bucket : Dirty(y, b, gone) > 0} = {}
      BY <1>8
    <2>2. Cardinality({}) = 0
      BY FS_EmptySet
    <2> QED
      BY <1>5, <1>8, <1>10, <2>1, <2>2 DEF Exact
  <1>12. PlacedIn(y, t, gone)
    BY <1>1, <1>6, <1>7 DEF PlacedIn
  <1>13. Follows(y, t, gone)
    <2> SUFFICES ASSUME NEW k \in Key
                 PROVE  Only(y.entries[HashIndex[k]], LiveFor(k, gone)) = Only(t, LiveFor(k, gone))
      BY DEF Follows
    <2> DEFINE e == x.entries[HashIndex[k]]
               A == LiveFor(k, gone)
    <2>0. HashIndex[k] \in Bucket
      BY KeyAssumption
    <2>1. /\ e \in Seq(Clause) /\ Only(e, A) = Only(s, A)
          /\ y.entries[HashIndex[k]] = Without(e, gone)
      BY <1>1, <1>7, <2>0, BucketSeq DEF Follows
    <2>2. A \in SUBSET Clause /\ A \cap gone = {}
      BY DEF LiveFor
    <2> HIDE DEF e, A
    <2>3. Only(Without(e, gone), A) = Only(e, A) /\ Only(t, A) = Only(s, A)
      BY <2>1, <2>2, OnlyWithout DEF t
    <2>4. Only(y.entries[HashIndex[k]], A) = Only(t, A)
      BY <2>1, <2>3
    <2> QED
      BY <2>4 DEF A
  <1>14. Once(y)
    BY <1>7 DEF Once
  <1> QED
    BY <1>5, <1>11, <1>12, <1>13, <1>14 DEF Sound, y, t

(* A table that hashDefinition() built is sound. *)
LEMMA HashedSound ==
  ASSUME chain \in Seq(Clause), IsInjective(chain), gone \in SUBSET Clause, NEW i
  PROVE  Sound(Hashed(i), chain, gone)
  <1> DEFINE s == Without(chain, gone)
             x == Filled(s)
             y == [x EXCEPT !.above = Above(x.size), !.below = Below(x.size)]
  <1>1. s \in Seq(Clause) /\ ToSet(s) = ToSet(chain) \ gone /\ IsInjective(s)
    BY WithoutMembers
  <1>2. BuiltOf(s, x)
    BY <1>1, FilledBuilt
  <1>3. Hashed(i) = y
    BY DEF Hashed
  <1> HIDE DEF s, x
  <1>4. x \in Tables /\ Above(x.size) \in Bounds /\ Below(x.size) \in Bounds
    <2>1. x \in Tables /\ x.size \in Int
      BY <1>2 DEF BuiltOf, Tables
    <2> QED
      BY <2>1 DEF Bounds
  <1>5. /\ y \in Tables /\ y.entries = x.entries /\ y.dirty = x.dirty
        /\ y.dirtyBuckets = x.dirtyBuckets /\ y.size = x.size
    <2> DEFINE a == Above(x.size)
               b == Below(x.size)
    <2>1. a \in Bounds /\ b \in Bounds
      BY <1>4
    <2>2. y = [x EXCEPT !.above = a, !.below = b]
      OBVIOUS
    <2> HIDE DEF a, b, y
    <2>3. y \in Tables
      BY <1>4, <2>1, <2>2 DEF Tables
    <2> QED
      BY <1>4, <2>2, <2>3 DEF Tables
  <1> HIDE DEF y
  <1>6. ASSUME NEW b \in Bucket
        PROVE  /\ y.entries[b] = Only(s, In(b)) /\ y.dirty[b] = 0
               /\ ToSet(y.entries[b]) = (ToSet(chain) \ gone) \cap In(b)
               /\ IsInjective(y.entries[b])
    <2>1. y.entries[b] = Only(s, In(b)) /\ y.dirty[b] = 0
      BY <1>2, <1>5 DEF BuiltOf
    <2>2. ToSet(Only(s, In(b))) = ToSet(s) \cap In(b) /\ IsInjective(Only(s, In(b)))
      BY <1>1, OnlyMembers
    <2> QED
      BY <1>1, <2>1, <2>2
  <1>7. \A b \in Bucket : Dirty(y, b, gone) = 0
    <2>1. ASSUME NEW b \in Bucket
          PROVE  ToSet(y.entries[b]) \cap gone = {}
      BY <1>6
    <2> QED
      BY <1>5, <2>1, BucketSeq
  <1>8. PlacedIn(y, chain, gone) /\ Once(y)
    BY <1>6 DEF PlacedIn, Once
  <1>9. Listed(y) = ToSet(s) \cap Keyed
    <2>1. \A d : d \in Listed(y) <=>
            d \in Keyed /\ \E b \in Bucket : d \in ToSet(y.entries[b])
      BY <1>5, BucketSeq DEF Listed, Keyed
    <2>2. \A d \in Keyed : \E b \in Bucket : d \in In(b)
      BY BucketFacts DEF Keyed, In
    <2> QED
      BY <1>1, <1>6, <2>1, <2>2
  <1>10. Exact(y, gone)
    <2>1. {b \in Bucket : Dirty(y, b, gone) > 0} = {}
      BY <1>7
    <2>2. Cardinality({}) = 0
      BY FS_EmptySet
    <2>3. y.size = Cardinality(Listed(y)) /\ y.dirtyBuckets = 0
      BY <1>1, <1>2, <1>5, <1>9 DEF BuiltOf
    <2> QED
      BY <1>6, <1>7, <2>1, <2>2, <2>3 DEF Exact
  <1>11. Follows(y, chain, gone)
    <2> SUFFICES ASSUME NEW k \in Key
                 PROVE  Only(y.entries[HashIndex[k]], LiveFor(k, gone))
                          = Only(chain, LiveFor(k, gone))
      BY DEF Follows
    <2> DEFINE A == LiveFor(k, gone)
               B == In(HashIndex[k])
    <2>1. y.entries[HashIndex[k]] = Only(s, B)
      BY <1>6, KeyAssumption
    <2>2. A \in SUBSET Clause /\ A \cap gone = {} /\ B \cap A = A
      BY BucketFacts DEF LiveFor, In
    <2> HIDE DEF A, B
    <2>3. Only(Only(s, B), A) = Only(s, A)
      BY <1>1, <2>2, OnlyOnly
    <2>4. Only(s, A) = Only(chain, A)
      BY <2>2, OnlyWithout DEF s
    <2>5. Only(y.entries[HashIndex[k]], A) = Only(chain, A)
      BY <2>1, <2>3, <2>4
    <2> QED
      BY <2>5 DEF A
  <1> QED
    BY <1>3, <1>5, <1>8, <1>10, <1>11 DEF Sound

-----------------------------------------------------------------------------
(* The rest of s from its first a. *)
From(s, a) == LET i == First(s, {a}) IN IF i = 0 THEN <<>> ELSE SubSeq(s, i, Len(s))

(* Nothing is ahead of who is nowhere. *)
LEMMA FromNone ==
  ASSUME NEW S, NEW s \in Seq(S), NEW a, a \notin ToSet(s)
  PROVE  From(s, a) = <<>>
  <1>1. ToSet(s) \cap {a} = {}
    OBVIOUS
  <1>2. First(s, {a}) = 0
    BY <1>1, FirstPlace
  <1> QED
    BY <1>2 DEF From

(* What is ahead starts where one is. *)
LEMMA FromSplits ==
  ASSUME NEW S, NEW s \in Seq(S), NEW a, a \in ToSet(s)
  PROVE  /\ From(s, a) \in Seq(S) /\ Len(From(s, a)) > 0 /\ From(s, a)[1] = a
         /\ \E p \in Seq(S) : s = p \o From(s, a) /\ a \notin ToSet(p)
  <1> DEFINE i == First(s, {a})
             n == Len(s)
             t == SubSeq(s, i, n)
  <1>1. /\ n \in Nat /\ i \in 0..n
        /\ i = 0 <=> ToSet(s) \cap {a} = {}
        /\ i # 0 => s[i] \in {a} /\ \A j \in 1..n : s[j] \in {a} => i <= j
    BY FirstPlace, LenProperties
  <1>2. i \in 1..n /\ s[i] = a
    BY <1>1
  <1> HIDE DEF i
  <1>3. i \in 1..(Len(s) + 1)
    BY <1>1, <1>2
  <1>4. /\ t \in Seq(S) /\ Len(t) = n - i + 1
        /\ \A j \in 1..(n - i + 1) : t[j] = s[i + j - 1]
    BY <1>3, After
  <1>8. /\ SubSeq(s, 1, i - 1) \in Seq(S)
        /\ ToSet(SubSeq(s, 1, i - 1)) = {s[j] : j \in 1..(i - 1)}
    BY <1>3, Before
  <1>9. s = SubSeq(s, 1, i - 1) \o t
    BY <1>3, Split
  <1> HIDE DEF n, t
  <1>5. Len(t) > 0 /\ t[1] = a
    <2>1. 1 \in 1..(n - i + 1) /\ i + 1 - 1 = i
      BY <1>1, <1>2
    <2> QED
      BY <1>1, <1>2, <1>4, <2>1
  <1>6. From(s, a) = t
    BY <1>1, <1>2 DEF From, i, t, n
  <1>7. a \notin ToSet(SubSeq(s, 1, i - 1))
    <2>2. \A j \in 1..(i - 1) : j \in 1..n /\ ~(i <= j)
      BY <1>1, <1>2
    <2>3. \A j \in 1..(i - 1) : s[j] # a
      BY <1>1, <1>2, <2>2
    <2> QED
      BY <1>8, <2>3
  <1> QED
    BY <1>4, <1>5, <1>6, <1>7, <1>8, <1>9

(* What starts where one is, is ahead. *)
LEMMA FromIs ==
  ASSUME NEW S, NEW p \in Seq(S), NEW q \in Seq(S), NEW a,
         Len(q) > 0, q[1] = a, a \notin ToSet(p)
  PROVE  From(p \o q, a) = q
  <1> DEFINE s == p \o q
             i == First(s, {a})
             m == Len(p)
             n == Len(q)
  <1>1. /\ s \in Seq(S) /\ m \in Nat /\ n \in Nat /\ n > 0 /\ Len(s) = m + n
        /\ ToSet(s) = ToSet(p) \cup ToSet(q) /\ DOMAIN q = 1..n /\ DOMAIN p = 1..m
        /\ \A j \in 1..(m + n) : s[j] = IF j <= m THEN p[j] ELSE q[j - m]
    BY ConcatProperties, MembersConcat, LenProperties
  <1>2. a \in ToSet(q)
    <2>1. 1 \in DOMAIN q
      BY <1>1
    <2> QED
      BY <2>1 DEF ToSet
  <1>3. /\ i \in 0..Len(s)
        /\ i = 0 <=> ToSet(s) \cap {a} = {}
        /\ i # 0 => /\ s[i] \in {a}
                    /\ \A j \in 1..Len(s) : s[j] \in {a} => i <= j
    BY <1>1, FirstPlace
  <1> HIDE DEF s, i, m, n
  <1>4. i \in 1..(m + n) /\ s[i] = a /\ \A j \in 1..(m + n) : s[j] = a => i <= j
    BY <1>1, <1>2, <1>3
  <1>5. i = m + 1
    <2>1. ~(i <= m)
      <3>1. ASSUME i <= m
            PROVE  FALSE
        <4>1. i \in DOMAIN p /\ p[i] = a
          BY <1>1, <1>4, <3>1
        <4> QED
          BY <4>1 DEF ToSet
      <3> QED
        BY <3>1
    <2>2. m + 1 \in 1..(m + n) /\ ~(m + 1 <= m) /\ (m + 1) - m = 1
      BY <1>1
    <2>3. s[m + 1] = a
      BY <1>1, <2>2
    <2>4. i <= m + 1
      BY <1>4, <2>2, <2>3
    <2> QED
      BY <1>1, <1>4, <2>1, <2>4
  <1>6. SubSeq(s, m + 1, m + n) = q
    <2> DEFINE t == SubSeq(s, m + 1, Len(s))
    <2>1. m + 1 \in 1..(Len(s) + 1)
      BY <1>1
    <2>2. /\ t \in Seq(S) /\ Len(t) = Len(s) - (m + 1) + 1
          /\ \A j \in 1..(Len(s) - (m + 1) + 1) : t[j] = s[(m + 1) + j - 1]
      BY <1>1, <2>1, After
    <2> HIDE DEF t
    <2>3. Len(s) - (m + 1) + 1 = n
      BY <1>1
    <2>4. \A j \in 1..n : /\ (m + 1) + j - 1 = m + j /\ m + j \in 1..(m + n)
                          /\ ~(m + j <= m) /\ (m + j) - m = j
      BY <1>1
    <2>5. \A j \in 1..n : t[j] = q[j]
      BY <1>1, <2>2, <2>3, <2>4
    <2>6. t = q
      BY <2>2, <2>3, <2>5, SeqEqual DEF n
    <2> QED
      BY <1>1, <2>6 DEF t
  <1>7. From(s, a) = SubSeq(s, i, Len(s))
    <2>1. i # 0
      BY <1>4
    <2> QED
      BY <2>1 DEF From, i, s
  <1> QED
    BY <1>1, <1>5, <1>6, <1>7 DEF s

(* A sequence without duplicates has no element in two of its parts. *)
LEMMA PartsApart ==
  ASSUME NEW S, NEW p \in Seq(S), NEW q \in Seq(S), IsInjective(p \o q)
  PROVE  ToSet(p) \cap ToSet(q) = {}
  <1> DEFINE s == p \o q
             m == Len(p)
             n == Len(q)
  <1>1. /\ m \in Nat /\ n \in Nat /\ DOMAIN s = 1..(m + n)
        /\ DOMAIN q = 1..n /\ DOMAIN p = 1..m
        /\ \A j \in 1..(m + n) : s[j] = IF j <= m THEN p[j] ELSE q[j - m]
    <2>1. s \in Seq(S) /\ Len(s) = m + n
      BY ConcatProperties
    <2> QED
      BY <2>1, ConcatProperties, LenProperties
  <1> HIDE DEF s, m, n
  <1> SUFFICES ASSUME NEW i \in 1..m, NEW j \in 1..n, p[i] = q[j]
               PROVE  FALSE
    BY <1>1 DEF ToSet
  <1>2. i \in 1..(m + n) /\ i <= m /\ j + m \in 1..(m + n) /\ ~(j + m <= m) /\ (j + m) - m = j
    BY <1>1
  <1>3. s[i] = p[i] /\ s[j + m] = q[j]
    BY <1>1, <1>2
  <1>4. i = j + m
    BY <1>1, <1>2, <1>3 DEF IsInjective, s
  <1> QED
    BY <1>1, <1>4

(* A new clause is not what a walk was to find. *)
LEMMA FromAdd ==
  ASSUME NEW s \in Seq(Clause), NEW c \in Clause, c \notin ToSet(s), NEW where,
         NEW a, a # c, NEW K, c \notin K
  PROVE  Only(From(Add(s, c, where), a), K) = Only(From(s, a), K)
  <1> DEFINE t == Add(s, c, where)
  <1>1. t \in Seq(Clause) /\ ToSet(t) = ToSet(s) \cup {c}
    BY AddMembers
  <1>2. CASE a \notin ToSet(s)
    <2>1. a \notin ToSet(t)
      BY <1>1, <1>2
    <2> QED
      BY <1>1, <1>2, <2>1, FromNone
  <1>3. CASE a \in ToSet(s)
    <2> DEFINE q == From(s, a)
    <2>1. q \in Seq(Clause) /\ Len(q) > 0 /\ q[1] = a
      BY <1>3, FromSplits
    <2>2. PICK p \in Seq(Clause) : s = p \o q /\ a \notin ToSet(p)
      BY <1>3, FromSplits
    <2> HIDE DEF q
    <2>3. CASE where = "CL_START"
      <3> DEFINE u == <<c>>
      <3>1. u \in Seq(Clause) /\ ToSet(u) = {c}
        BY DEF ToSet
      <3>2. t = u \o s
        BY <2>3 DEF Add
      <3> HIDE DEF u, t
      <3>3. u \o p \in Seq(Clause) /\ ToSet(u \o p) = {c} \cup ToSet(p)
        BY <3>1, MembersConcat
      <3>4. t = (u \o p) \o q
        BY <2>1, <2>2, <3>1, <3>2, ConcatAssociative, SMTT(30)
      <3>5. a \notin ToSet(u \o p)
        BY <2>2, <3>3
      <3>6. From(t, a) = q
        BY <2>1, <3>3, <3>4, <3>5, FromIs
      <3> QED
        BY <3>6 DEF t, q
    <2>4. CASE where # "CL_START"
      <3> DEFINE v == Append(q, c)
      <3>1. /\ v \in Seq(Clause) /\ Len(v) = Len(q) + 1
            /\ \A i \in 1..Len(q) : v[i] = q[i]
        BY <2>1, AppendProperties
      <3>2. Len(v) > 0 /\ v[1] = a
        <4>1. Len(q) \in Nat /\ 1 \in 1..Len(q)
          BY <2>1, LenProperties
        <4> QED
          BY <2>1, <3>1, <4>1
      <3>3. t = p \o v
        <4>1. t = Append(s, c)
          BY <2>4 DEF Add
        <4>2. p \o v = Append(p \o q, c)
          BY <2>1, <2>2, AppendOut
        <4> QED
          BY <2>2, <4>1, <4>2
      <3>4. Only(v, K) = Only(q, K)
        BY <2>1, OnlyAppend
      <3> HIDE DEF v, t
      <3>5. From(t, a) = v
        BY <2>2, <3>1, <3>2, <3>3, FromIs
      <3> QED
        BY <3>4, <3>5 DEF t, q
    <2> QED
      BY <2>3, <2>4
  <1> QED
    BY <1>2, <1>3

-----------------------------------------------------------------------------
(* What a frame is served, as it starts a search and as it goes on. *)
LEMMA SearchServes ==
  ASSUME chain \in Seq(Clause), NEW s \in Seq(Clause), NEW L, NEW V, V \subseteq L,
         Only(s, L) = Only(chain, L)
  PROVE  /\ Only(chain, V) \in Seq(Clause) /\ ToSet(Only(chain, V)) = ToSet(chain) \cap V
         /\ Only(s, ToSet(Only(chain, V))) = Only(chain, V)
  <1> DEFINE K == ToSet(Only(chain, V))
  <1>1. Only(chain, V) \in Seq(Clause) /\ K = ToSet(chain) \cap V
    BY OnlyMembers
  <1>2. L \cap K = K /\ ToSet(chain) \cap K = ToSet(chain) \cap V
    BY <1>1
  <1> HIDE DEF K
  <1>3. Only(Only(s, L), K) = Only(s, K) /\ Only(Only(chain, L), K) = Only(chain, K)
    BY <1>2, OnlyOnly
  <1>4. Only(chain, K) = Only(chain, V)
    BY <1>2, OnlySame
  <1> QED
    BY <1>1, <1>3, <1>4 DEF K

(* The frame that is at a looks at w for one of T and goes on to b. *)
GoesOn(w, a, T, s, i, r, n, j, b) ==
  /\ s = From(w, a) /\ i = First(s, T) /\ i # 0
  /\ r = SubSeq(s, i + 1, Len(s)) /\ n = First(r, T)
  /\ j = IF n # 0 /\ n <= MaxSearch THEN n ELSE MaxSearch
  /\ b = IF j <= Len(r) THEN r[j] ELSE Nil

(* It is given one clause, and none of K is between that one and b. *)
Gives(w, K, s, i, b) ==
  /\ s[i] \in Clause /\ b \in Clause \cup {Nil}
  /\ b # Nil => b \in ToSet(w)
  /\ Only(s, K) = Only(<<s[i]>>, K) \o Only(From(w, b), K)

(* nextClauseFromBucket() gives one clause and leaves none of K behind. *)
LEMMA NextServes ==
  ASSUME NEW w \in Seq(Clause), IsInjective(w), NEW a, NEW T, NEW K, K \subseteq T,
         NEW s, NEW i, NEW r, NEW n, NEW j, NEW b, GoesOn(w, a, T, s, i, r, n, j, b)
  PROVE  Gives(w, K, s, i, b)
  <1>1. a \in ToSet(w)
    <2>1. ASSUME a \notin ToSet(w)
          PROVE  FALSE
      <3>1. s = <<>> /\ First(s, T) # 0
        BY <2>1, FromNone DEF GoesOn
      <3> DEFINE e == <<>>
      <3>2. e \in Seq(Clause) /\ ToSet(e) = {}
        BY MembersAppend
      <3>3. ToSet(e) \cap T = {}
        BY <3>2
      <3> HIDE DEF e
      <3>4. First(e, T) = 0
        BY <3>2, <3>3, FirstPlace
      <3> QED
        BY <3>1, <3>4 DEF e
    <2> QED
      BY <2>1
  <1>2. s \in Seq(Clause)
    BY <1>1, FromSplits DEF GoesOn
  <1>3. PICK p \in Seq(Clause) : w = p \o s
    <2>1. PICK p \in Seq(Clause) : w = p \o From(w, a)
      BY <1>1, FromSplits
    <2> QED
      BY <2>1 DEF GoesOn
  <1>4. /\ Len(s) \in Nat /\ i \in 1..Len(s) /\ s[i] \in T /\ s[i] \in Clause
        /\ \A k \in 1..Len(s) : s[k] \in T => i <= k
    <2>1. /\ Len(s) \in Nat /\ i \in 0..Len(s) /\ s[i] \in T
          /\ \A k \in 1..Len(s) : s[k] \in T => i <= k
      BY <1>2, FirstPlace, LenProperties DEF GoesOn
    <2>2. i \in 1..Len(s)
      BY <2>1 DEF GoesOn
    <2>3. s[i] \in Clause
      BY <1>2, <2>2, ElementOfSeq
    <2> QED
      BY <2>1, <2>2, <2>3
  <1> DEFINE q == SubSeq(s, 1, i)
  <1>5. q \in Seq(Clause) /\ r \in Seq(Clause) /\ s = q \o r
    <2> DEFINE k == i + 1
    <2>1. k \in 1..(Len(s) + 1) /\ k - 1 = i
      BY <1>4
    <2>2. r = SubSeq(s, k, Len(s))
      BY DEF GoesOn
    <2> HIDE DEF k
    <2>3. SubSeq(s, 1, k - 1) \o SubSeq(s, k, Len(s)) = s
      BY <1>2, <2>1, Split
    <2>4. SubSeq(s, k, Len(s)) \in Seq(Clause) /\ SubSeq(s, 1, k - 1) \in Seq(Clause)
      BY <1>2, <2>1, Before, After
    <2> QED
      BY <2>1, <2>2, <2>3, <2>4
  <1>6. Only(q, K) = Only(<<s[i]>>, K)
    <2> DEFINE o == SubSeq(s, 1, i - 1)
    <2>2. o \in Seq(Clause) /\ ToSet(o) = {s[l] : l \in 1..(i - 1)}
      <3>1. i \in 1..(Len(s) + 1)
        BY <1>4
      <3> QED
        BY <1>2, <3>1, Before
    <2>3. ToSet(o) \cap K = {}
      <3>1. \A l \in 1..(i - 1) : l \in 1..Len(s) /\ ~(i <= l)
        BY <1>4
      <3>2. \A l \in 1..(i - 1) : s[l] \notin T
        BY <1>4, <3>1
      <3> QED
        BY <2>2, <3>2
    <2>4. q = o \o <<s[i]>>
      <3>1. 1 \in 1..Len(s) /\ i \in 1..Len(s)
        BY <1>4
      <3> QED
        BY <1>2, <3>1, SubSeqRecursiveSecond
    <2> DEFINE u == <<s[i]>>
    <2>5. u \in Seq(Clause)
      BY <1>4
    <2> HIDE DEF o, q, u
    <2>6. Only(o \o u, K) = Only(o, K) \o Only(u, K)
      <3>1. o \in Seq(Clause)
        BY <2>2
      <3> QED
        BY ONLY <2>5, <3>1, OnlyConcat, SMTT(30)
    <2>7. Only(o, K) = <<>>
      BY <2>2, <2>3, OnlyNone
    <2>8. Only(u, K) \in Seq(Clause)
      BY <2>5, OnlyType
    <2>9. <<>> \o Only(u, K) = Only(u, K)
      BY <2>8, ConcatEmptySeq
    <2> QED
      BY <2>4, <2>6, <2>7, <2>9 DEF u
  <1> HIDE DEF q
  <1>7. Only(s, K) = Only(q, K) \o Only(r, K)
    <2>1. Only(q \o r, K) = Only(q, K) \o Only(r, K)
      <3>1. q \in Seq(Clause) /\ r \in Seq(Clause)
        BY <1>5
      <3> QED
        BY ONLY <3>1, OnlyConcat, SMTT(30)
    <2> QED
      BY <1>5, <2>1
  <1>8. /\ Len(r) \in Nat /\ n \in 0..Len(r)
        /\ n = 0 <=> ToSet(r) \cap T = {}
        /\ n # 0 => \A k \in 1..Len(r) : r[k] \in T => n <= k
    <2>1. n = First(r, T)
      BY DEF GoesOn
    <2>2. /\ First(r, T) \in 0..Len(r)
          /\ First(r, T) = 0 <=> ToSet(r) \cap T = {}
          /\ First(r, T) # 0 => \A k \in 1..Len(r) : r[k] \in T => First(r, T) <= k
      BY <1>5, FirstPlace
    <2>3. Len(r) \in Nat
      BY <1>5, LenProperties
    <2> QED
      BY <2>1, <2>2, <2>3
  <1>9. j \in Nat \ {0} /\ (n = 0 \/ j <= n)
    <2>1. MaxSearch \in Nat \ {0} /\ n \in Nat
      BY <1>8, NatAssumption
    <2>2. j = IF n # 0 /\ n <= MaxSearch THEN n ELSE MaxSearch
      BY DEF GoesOn
    <2> QED
      BY ONLY <2>1, <2>2
  <1>10. CASE j <= Len(r)
    <2> DEFINE r1 == SubSeq(r, 1, j - 1)
               r2 == SubSeq(r, j, Len(r))
    <2>1. b = r[j] /\ j \in 1..Len(r)
      <3>1. b = IF j <= Len(r) THEN r[j] ELSE Nil
        BY DEF GoesOn
      <3>2. Len(r) \in Nat
        BY <1>8
      <3> QED
        BY ONLY <1>9, <1>10, <3>1, <3>2
    <2>0. j \in 1..(Len(r) + 1)
      BY <1>8, <2>1
    <2>2. b \in Clause
      BY <1>5, <2>1, ElementOfSeq
    <2>3. r1 \in Seq(Clause) /\ r2 \in Seq(Clause)
      BY <1>5, <2>0, Before, After
    <2>12. r1 \o r2 = r
      BY <1>5, <2>0, Split
    <2>13. /\ Len(r2) = Len(r) - j + 1
           /\ \A k \in 1..(Len(r) - j + 1) : r2[k] = r[j + k - 1]
      BY <1>5, <2>0, After
    <2>4. ToSet(r1) = {r[l] : l \in 1..(j - 1)}
      BY <1>5, <2>0, Before
    <2> HIDE DEF r1, r2
    <2>5. ToSet(r1) \cap K = {}
      <3>0. ToSet(r1 \o r2) = ToSet(r1) \cup ToSet(r2)
        BY ONLY <2>3, MembersConcat
      <3>1. ToSet(r1) \subseteq ToSet(r)
        BY <2>12, <3>0
      <3>2. CASE n = 0
        BY <1>8, <3>1, <3>2
      <3>3. CASE n # 0
        <4>1. \A l \in 1..(j - 1) : l \in 1..Len(r) /\ ~(n <= l)
          BY <1>8, <1>9, <2>1, <3>3
        <4>2. \A l \in 1..(j - 1) : r[l] \notin T
          BY <1>8, <3>3, <4>1
        <4> QED
          BY <2>4, <4>2
      <3> QED
        BY <3>2, <3>3
    <2>6. Len(r2) > 0 /\ r2[1] = b
      <3>1. 1 \in 1..(Len(r) - j + 1) /\ j + 1 - 1 = j /\ Len(r) - j + 1 > 0
        BY <1>8, <2>1
      <3> QED
        BY <2>1, <2>13, <3>1
    <2>7. Only(r, K) = Only(r2, K)
      <3>1. Only(r1 \o r2, K) = Only(r1, K) \o Only(r2, K)
        BY ONLY <2>3, OnlyConcat, SMTT(30)
      <3>2. Only(r1, K) = <<>>
        BY <2>3, <2>5, OnlyNone
      <3>3. Only(r2, K) \in Seq(Clause)
        BY <2>3, OnlyType
      <3>4. <<>> \o Only(r2, K) = Only(r2, K)
        BY <3>3, ConcatEmptySeq
      <3> QED
        BY <2>12, <3>1, <3>2, <3>4
    <2> DEFINE x == p \o q
               z == x \o r1
    <2>8. z \in Seq(Clause) /\ w = z \o r2
      <3>1. x \in Seq(Clause)
        BY <1>5, MembersConcat
      <3>2. z \in Seq(Clause)
        <4> HIDE DEF x
        <4>1. r1 \in Seq(Clause) /\ x \in Seq(Clause)
          BY <2>3, <3>1
        <4> QED
          BY ONLY <4>1, MembersConcat
      <3>3. w = x \o r
        <4>1. p \o (q \o r) = (p \o q) \o r
          BY <1>3, <1>5, ConcatAssociative, SMTT(30)
        <4> QED
          BY <1>3, <1>5, <4>1
      <3> HIDE DEF x
      <3>4. x \o (r1 \o r2) = z \o r2
        <4>1. x \o (r1 \o r2) = (x \o r1) \o r2
          BY <2>3, <3>1, ConcatAssociative, SMTT(30)
        <4> QED
          BY <4>1
      <3> HIDE DEF z
      <3> QED
        BY <2>12, <3>2, <3>3, <3>4
    <2> HIDE DEF z
    <2>9. ToSet(z) \cap ToSet(r2) = {} /\ ToSet(w) = ToSet(z) \cup ToSet(r2)
      BY <2>3, <2>8, PartsApart, MembersConcat
    <2>10. b \in ToSet(r2)
      <3>1. DOMAIN r2 = 1..Len(r2) /\ Len(r2) \in Nat
        BY <2>3, LenProperties
      <3>2. 1 \in DOMAIN r2
        BY <2>6, <3>1
      <3> QED
        BY <2>6, <3>2 DEF ToSet
    <2>11. From(w, b) = r2
      BY <2>3, <2>6, <2>8, <2>9, <2>10, FromIs
    <2> QED
      BY <1>4, <1>6, <1>7, <2>2, <2>7, <2>9, <2>10, <2>11 DEF Gives
  <1>11. CASE ~(j <= Len(r))
    <2>1. b = Nil /\ n = 0
      BY <1>8, <1>9, <1>11 DEF GoesOn
    <2>2. ToSet(r) \cap K = {}
      BY <1>8, <2>1
    <2>3. Only(r, K) = <<>>
      BY <1>5, <2>2, OnlyNone
    <2>4. Nil \notin ToSet(w)
      BY Members, NilAssumption
    <2>5. From(w, b) = <<>>
      BY <2>1, <2>4, FromNone
    <2>6. Only(From(w, b), K) = <<>>
      BY <2>5, OnlyEmpty
    <2> QED
      BY <1>4, <1>6, <1>7, <2>1, <2>3, <2>6 DEF Gives
  <1> QED
    BY <1>10, <1>11

-----------------------------------------------------------------------------
(* The counters of the chain are exact. *)
Counts ==
  /\ number = Cardinality(ToSet(chain) \ gone)
  /\ erased = Cardinality(ToSet(chain) \cap gone)

(* A clause is in a sequence once. *)
Distinct == IsInjective(chain) /\ \A i \in Table : Once(table[i])

(* A table is not built yet, in use, or old. *)
Apart == unused \cap old = {} /\ index \notin unused \cup old

TableSound == index # Nil => Sound(table[index], chain, gone)

(* What a frame is still to be given is ahead of it. *)
ScanAt(f) ==
  /\ chp[f].table # Nil => chp[f].table \in old \cup {index}
  /\ chp[f].at # Nil => chp[f].at \in ToSet(Walked(f))
  /\ ToSet(kept[f]) \subseteq Suits(f) \cap ToSet(chain)
  /\ Only(got[f], ToSet(kept[f])) \o Only(Ahead(f), ToSet(kept[f])) = kept[f]

WalkAt(f) ==
  /\ pc[f] \in {"idle", "enter", "hash"} => got[f] = <<>>
  /\ pc[f] = "scan" => ScanAt(f)
  /\ pc[f] = "fail" => Only(got[f], ToSet(kept[f])) = kept[f]

Walking == \A f \in Frame : WalkAt(f)

(* The inductive invariant: the types, the counters of the chain,          *)
(* sequences without duplicates, the table apart from the old and the new  *)
(* ones, the table sound, and every frame served so far and still to be    *)
(* served.                                                                 *)
IndexInv ==
  Typed /\ Counts /\ Distinct /\ Apart /\ TableSound /\ Walking

SameFrame(g) ==
  /\ pc'[g] = pc[g] /\ key'[g] = key[g] /\ chp'[g] = chp[g] /\ view'[g] = view[g]
  /\ kept'[g] = kept[g] /\ got'[g] = got[g]

(* What a frame walks is a sequence without duplicates. *)
LEMMA WalkedSeq ==
  ASSUME Typed, Distinct, NEW f \in Frame, pc[f] # "idle"
  PROVE  /\ Walked(f) \in Seq(Clause) /\ IsInjective(Walked(f))
         /\ Ahead(f) = From(Walked(f), chp[f].at) /\ Ahead(f) \in Seq(Clause)
         /\ chp[f].table \in Table \cup {Nil} /\ chp[f].at \in Clause \cup {Nil}
         /\ key[f] \in Key /\ HashIndex[key[f]] \in Bucket
  <1>1. key[f] \in Key /\ HashIndex[key[f]] \in Bucket
    BY KeyAssumption DEF Typed
  <1>2. chp[f].table \in Table \cup {Nil} /\ chp[f].at \in Clause \cup {Nil}
    BY DEF Typed
  <1>3. Walked(f) \in Seq(Clause) /\ IsInjective(Walked(f))
    <2>1. CASE chp[f].table = Nil
      BY <2>1 DEF Walked, Typed, Distinct
    <2>2. CASE chp[f].table # Nil
      <3>1. chp[f].table \in Table /\ table[chp[f].table] \in Tables /\ Once(table[chp[f].table])
        BY <1>2, <2>2 DEF Typed, Distinct
      <3>2. Walked(f) = table[chp[f].table].entries[HashIndex[key[f]]]
        BY <2>2 DEF Walked
      <3> QED
        BY <1>1, <3>1, <3>2, BucketSeq DEF Once
    <2> QED
      BY <2>1, <2>2
  <1>4. Ahead(f) = From(Walked(f), chp[f].at)
    BY DEF Ahead, From
  <1>5. From(Walked(f), chp[f].at) \in Seq(Clause)
    <2>1. CASE chp[f].at \in ToSet(Walked(f))
      BY <1>3, <2>1, FromSplits
    <2>2. CASE chp[f].at \notin ToSet(Walked(f))
      <3>1. From(Walked(f), chp[f].at) = <<>>
        BY <1>3, <2>2, FromNone
      <3> QED
        BY <3>1
    <2> QED
      BY <2>1, <2>2
  <1> QED
    BY <1>1, <1>2, <1>3, <1>4, <1>5

(* A frame is not disturbed by an operation that leaves what is kept of    *)
(* what is ahead of it.                                                    *)
LEMMA WalkKept ==
  ASSUME NEW g \in Frame, SameFrame(g), WalkAt(g),
         pc[g] = "scan" =>
           /\ ToSet(chain) \subseteq ToSet(chain')
           /\ chp[g].table # Nil => chp[g].table \in old' \cup {index'}
           /\ chp[g].at \in ToSet(Walked(g)) => chp[g].at \in ToSet(Walked(g)')
           /\ Only(Ahead(g)', ToSet(kept[g])) = Only(Ahead(g), ToSet(kept[g]))
  PROVE  WalkAt(g)'
  <1>1. Suits(g)' = Suits(g)
    BY DEF SameFrame, Suits
  <1>2. CASE pc[g] = "scan"
    <2>1. ScanAt(g)
      BY <1>2 DEF WalkAt
    <2> DEFINE K == ToSet(kept[g])
               A == Ahead(g)
               B == Ahead(g)'
               W == Walked(g)'
    <2>2. ToSet(kept'[g]) = K /\ ToSet(chain') = ToSet(chain)'
      BY DEF SameFrame
    <2>3. chp'[g].table # Nil => chp'[g].table \in old' \cup {index'}
      BY <1>2 DEF SameFrame
    <2>4. chp'[g].at # Nil => chp'[g].at \in ToSet(W)
      BY <1>2, <2>1 DEF SameFrame, ScanAt
    <2>5. K \subseteq Suits(g)' \cap ToSet(chain')
      BY <1>1, <1>2, <2>1 DEF ScanAt
    <2>6. Only(got'[g], K) \o Only(B, K) = kept'[g]
      BY <1>2, <2>1 DEF SameFrame, ScanAt
    <2>7. ScanAt(g)'
      BY <2>2, <2>3, <2>4, <2>5, <2>6 DEF ScanAt
    <2> QED
      BY <1>2, <2>7 DEF WalkAt, SameFrame
  <1>3. CASE pc[g] # "scan"
    BY <1>3 DEF WalkAt, SameFrame
  <1> QED
    BY <1>2, <1>3

(* The table after an operation on the chain. *)
LEMMA IndexUpdated ==
  ASSUME Typed, Distinct, Apart, NEW drop, NEW new, UpdateIndex(drop, new),
         index # Nil /\ ~drop => Sound(new, chain', gone')
  PROVE  /\ table' \in [Table -> Tables] /\ index' \in Table \cup {Nil} /\ old' \in SUBSET Table
         /\ Apart' /\ TableSound' /\ \A i \in Table : Once(table'[i])
         /\ \A i \in Table : i \in old \cup {index} => i \in old' \cup {index'}
         /\ \A i \in Table : table'[i] = table[i] \/ (i = index /\ ~drop /\ table'[i] = new)
  <1>1. /\ table \in [Table -> Tables] /\ index \in Table \cup {Nil} /\ old \in SUBSET Table
        /\ \A i \in Table : Once(table[i])
        /\ Nil \notin Table /\ unused' = unused
        /\ unused \cap old = {} /\ index \notin unused \cup old
    BY NilAssumption DEF Typed, Distinct, Apart, UpdateIndex
  <1>2. CASE index = Nil
    <2>1. table' = table /\ index' = index /\ old' = old
      BY <1>2 DEF UpdateIndex
    <2> QED
      BY <1>1, <1>2, <2>1 DEF Apart, TableSound
  <1>3. CASE index # Nil /\ drop
    <2>1. table' = table /\ index' = Nil /\ old' = old \cup {index}
      BY <1>3 DEF UpdateIndex, ReplaceIndex
    <2>2. Nil \notin unused \cup old
      BY <1>1 DEF Typed
    <2> QED
      BY <1>1, <1>3, <2>1, <2>2 DEF Apart, TableSound
  <1>4. CASE index # Nil /\ ~drop
    <2>1. table' = [table EXCEPT ![index] = new] /\ index' = index /\ old' = old
      BY <1>4 DEF UpdateIndex
    <2>2. new \in Tables /\ Once(new) /\ Sound(new, chain', gone')
      BY <1>4 DEF Sound
    <2>3. \A i \in Table : table'[i] = IF i = index THEN new ELSE table[i]
      BY <1>1, <2>1
    <2>4. TableSound'
      BY <1>1, <1>4, <2>1, <2>2, <2>3 DEF TableSound
    <2> QED
      BY <1>1, <1>4, <2>1, <2>2, <2>3, <2>4 DEF Apart
  <1> QED
    BY <1>2, <1>3, <1>4

-----------------------------------------------------------------------------
(* An empty table has no duplicates. *)
LEMMA NewOnce ==
  Once(NoTable)
  <1> DEFINE e == <<>>
  <1>1. \A b \in Bucket : NoTable.entries[b] = e
    BY DEF NoTable
  <1>2. IsInjective(e)
    BY DEF IsInjective
  <1> QED
    BY <1>1, <1>2 DEF Once

(* The facts of the invariant that the operations use. *)
LEMMA IndexTypes ==
  ASSUME IndexInv
  PROVE  /\ chain \in Seq(Clause) /\ IsInjective(chain) /\ gone \in SUBSET Clause
         /\ ToSet(chain) \subseteq Clause /\ IsFiniteSet(ToSet(chain))
         /\ \A c : Contains(chain, c) <=> c \in ToSet(chain)
         /\ number = Cardinality(ToSet(chain) \ gone) /\ number \in Nat
         /\ erased = Cardinality(ToSet(chain) \cap gone) /\ erased \in Nat
         /\ index # Nil => index \in Table /\ Sound(table[index], chain, gone)
  <1>1. /\ chain \in Seq(Clause) /\ IsInjective(chain) /\ gone \in SUBSET Clause
        /\ index \in Table \cup {Nil}
    BY DEF IndexInv, Typed, Distinct
  <1>2. /\ ToSet(chain) \subseteq Clause /\ IsFiniteSet(ToSet(chain))
        /\ \A c : Contains(chain, c) <=> c \in ToSet(chain)
    BY <1>1, Members
  <1>3. IsFiniteSet(ToSet(chain) \ gone) /\ IsFiniteSet(ToSet(chain) \cap gone)
    BY <1>2, FS_Difference, FS_Intersection
  <1>4. Cardinality(ToSet(chain) \ gone) \in Nat /\ Cardinality(ToSet(chain) \cap gone) \in Nat
    BY <1>3, FS_CardinalityType
  <1> QED
    BY <1>1, <1>2, <1>4 DEF IndexInv, Counts, TableSound

(* A frame that walks the same clauses stays where it is. *)
LEMMA Elsewhere ==
  ASSUME NEW g \in Frame, SameFrame(g), WalkAt(g), chain' = chain,
         pc[g] = "scan" => /\ Walked(g)' = Walked(g)
                           /\ chp[g].table # Nil => chp[g].table \in old' \cup {index'}
  PROVE  WalkAt(g)'
  <1>1. pc[g] = "scan" => Ahead(g)' = Ahead(g)
    <2>1. Ahead(g)' = From(Walked(g)', chp'[g].at) /\ Ahead(g) = From(Walked(g), chp[g].at)
      BY DEF Ahead, From
    <2> QED
      BY <2>1 DEF SameFrame
  <1> QED
    BY <1>1, WalkKept

(* A frame is not disturbed when nothing changes. *)
LEMMA UnchangedWalk ==
  ASSUME NEW g \in Frame, SameFrame(g), WalkAt(g), UNCHANGED <<chain, table, old, index>>
  PROVE  WalkAt(g)'
  <1>1. Walked(g)' = Walked(g)
    BY DEF Walked, SameFrame
  <1>2. pc[g] = "scan" /\ chp[g].table # Nil => chp[g].table \in old' \cup {index'}
    BY DEF WalkAt, ScanAt
  <1> QED
    BY <1>1, <1>2, Elsewhere

(* The invariant holds at the start. *)
LEMMA InitHolds ==
  ASSUME Init
  PROVE  IndexInv
  <1>0. Start \in Seq(Clause) /\ IsInjective(Start)
    BY StartAssumption
  <1>1. Typed
    <2>1. NoTable \in Tables
      BY NewTable
    <2> DEFINE e == <<>>
    <2>2. e \in Seq(Clause) /\ Nowhere \in [table : Table \cup {Nil}, at : Clause \cup {Nil}]
      BY DEF Nowhere
    <2>3. Len(Start) \in Int
      BY <1>0
    <2> QED
      BY <1>0, <2>1, <2>2, <2>3 DEF Init, Typed, PCs
  <1>2. Counts
    <2>1. ToSet(chain) \ gone = ToSet(Start) /\ ToSet(chain) \cap gone = {}
      BY DEF Init
    <2>2. Cardinality(ToSet(Start)) = Len(Start)
      <3> DEFINE n == Len(Start)
      <3>1. n \in Nat /\ DOMAIN Start = 1..n
        BY <1>0, LenProperties
      <3>2. Start \in Bijection(1..n, ToSet(Start))
        <4>1. Start \in [1..n -> ToSet(Start)]
          BY <1>0, <3>1 DEF ToSet
        <4>2. \A y \in ToSet(Start) : \E j \in 1..n : Start[j] = y
          BY <3>1 DEF ToSet
        <4>3. IsInjective(Start)
          BY <1>0
        <4>4. Start \in Injection(1..n, ToSet(Start))
          BY <4>1, <4>3 DEF Injection
        <4>5. Start \in Surjection(1..n, ToSet(Start))
          BY <4>1, <4>2 DEF Surjection
        <4> QED
          BY <4>4, <4>5 DEF Bijection
      <3>3. ExistsBijection(1..n, ToSet(Start))
        BY <3>2 DEF ExistsBijection
      <3>4. IsFiniteSet(ToSet(Start))
        BY <1>0, Members
      <3>5. Cardinality(1..n) = n /\ IsFiniteSet(1..n)
        <4>1. n \in Int /\ 1 \in Int
          BY <3>1
        <4>2. /\ IsFiniteSet(1..n)
              /\ Cardinality(1..n) = IF 1 > n THEN 0 ELSE n - 1 + 1
          BY <4>1, FS_Interval
        <4> HIDE DEF n
        <4>3. (IF 1 > n THEN 0 ELSE n - 1 + 1) = n
          BY <3>1
        <4> QED
          BY <4>2, <4>3
      <3> QED
        BY <3>3, <3>4, <3>5, FS_Bijection
    <2>3. Cardinality({}) = 0
      BY FS_EmptySet
    <2> QED
      BY <2>1, <2>2, <2>3 DEF Init, Counts
  <1>3. Distinct
    BY <1>0, NewOnce DEF Init, Distinct
  <1>4. Apart /\ TableSound
    <2>1. Nil \notin Table
      BY NilAssumption
    <2> QED
      BY <2>1 DEF Init, Apart, TableSound
  <1>5. Walking
    BY DEF Init, Walking, WalkAt
  <1> QED
    BY <1>1, <1>2, <1>3, <1>4, <1>5 DEF IndexInv

(* A stuttering step keeps it. *)
LEMMA StutterKeeps ==
  ASSUME IndexInv, UNCHANGED vars
  PROVE  IndexInv'
  <1>1. Typed'
    BY DEF IndexInv, Typed, vars, defVars, indexVars, frameVars
  <1>2. Counts' /\ Distinct' /\ Apart' /\ TableSound'
    BY DEF IndexInv, Counts, Distinct, Apart, TableSound, vars, defVars, indexVars
  <1>3. ASSUME NEW g \in Frame
        PROVE  WalkAt(g)'
    <2>1. SameFrame(g) /\ UNCHANGED <<chain, table, old, index>>
      BY DEF SameFrame, vars, defVars, indexVars, frameVars
    <2> QED
      BY <2>1, UnchangedWalk DEF IndexInv, Walking
  <1> QED
    BY <1>1, <1>2, <1>3 DEF IndexInv, Walking
-----------------------------------------------------------------------------
(* A clause that is added is nobody's, wherever it is walked. *)
LEMMA AddedAside ==
  ASSUME NEW w \in Seq(Clause), NEW v, NEW c \in Clause, NEW where,
         v = w \/ (c \notin ToSet(w) /\ v = Add(w, c, where)),
         NEW a, a \in ToSet(w) \cup {Nil}, NEW K, c \notin K
  PROVE  (a \in ToSet(w) => a \in ToSet(v)) /\ Only(From(v, a), K) = Only(From(w, a), K)
  <1>1. CASE v = w
    BY <1>1
  <1>2. CASE c \notin ToSet(w) /\ v = Add(w, c, where)
    <2>1. ToSet(v) = ToSet(w) \cup {c}
      BY <1>2, AddMembers
    <2>2. a # c
      BY <1>2, NilAssumption
    <2>3. Only(From(v, a), K) = Only(From(w, a), K)
      BY <1>2, <2>2, FromAdd
    <2> QED
      BY <2>1, <2>3
  <1> QED
    BY <1>1, <1>2

(* A clause is added: what is ahead of a frame may grow, but not by a      *)
(* clause the frame must be given.                                         *)
LEMMA AssertKeeps ==
  ASSUME IndexInv, NEW c \in Clause, NEW where, AssertProcedure(c, where)
  PROVE  IndexInv'
  <1> DEFINE new  == AddClauseToIndex(table[index], c, where)
             drop == index # Nil /\ TooBig(table[index])
  <1>1. /\ chain \in Seq(Clause) /\ IsInjective(chain) /\ gone \in SUBSET Clause
        /\ ToSet(chain) \subseteq Clause /\ IsFiniteSet(ToSet(chain))
        /\ number = Cardinality(ToSet(chain) \ gone) /\ number \in Nat
        /\ erased = Cardinality(ToSet(chain) \cap gone) /\ erased \in Nat
        /\ index # Nil => index \in Table /\ Sound(table[index], chain, gone)
    BY IndexTypes
  <1>2. c \notin ToSet(chain) /\ c \notin gone
    BY IndexTypes DEF AssertProcedure
  <1>3. /\ chain' = Add(chain, c, where) /\ number' = number + 1 /\ gone' = gone /\ erased' = erased
        /\ UpdateIndex(drop, new)
        /\ pc' = pc /\ key' = key /\ chp' = chp /\ view' = view /\ kept' = kept /\ got' = got
    BY DEF AssertProcedure, frameVars
  <1>4. index # Nil => Sound(new, chain', gone')
    BY <1>1, <1>2, <1>3, AddSound
  <1> HIDE DEF new, drop
  <1>5. /\ table' \in [Table -> Tables] /\ index' \in Table \cup {Nil} /\ old' \in SUBSET Table
        /\ Apart' /\ TableSound' /\ \A i \in Table : Once(table'[i])
        /\ \A i \in Table : i \in old \cup {index} => i \in old' \cup {index'}
        /\ \A i \in Table : table'[i] = table[i] \/ (i = index /\ ~drop /\ table'[i] = new)
    BY <1>3, <1>4, IndexUpdated DEF IndexInv
  <1>6. chain' \in Seq(Clause) /\ ToSet(chain') = ToSet(chain) \cup {c} /\ IsInjective(chain')
    BY <1>1, <1>2, <1>3, AddMembers
  <1>7. Typed'
    <2>1. unused' = unused
      BY <1>3 DEF UpdateIndex
    <2> QED
      BY <1>1, <1>3, <1>5, <1>6, <2>1 DEF IndexInv, Typed
  <1>8. Counts'
    <2>1. ToSet(chain') \ gone' = (ToSet(chain) \ gone) \cup {c} /\ ToSet(chain') \cap gone' = ToSet(chain) \cap gone
      BY <1>2, <1>3, <1>6
    <2> DEFINE L == ToSet(chain) \ gone
    <2>2. IsFiniteSet(L) /\ c \notin L
      BY <1>1, <1>2, FS_Difference
    <2> HIDE DEF L
    <2>3. Cardinality(L \cup {c}) = Cardinality(L) + 1
      BY <2>2, FS_AddElement
    <2> QED
      BY <1>1, <1>3, <2>1, <2>3 DEF Counts, L
  <1>9. Distinct'
    BY <1>5, <1>6 DEF Distinct
  <1>10. ASSUME NEW g \in Frame
         PROVE  WalkAt(g)'
    <2>1. SameFrame(g) /\ WalkAt(g)
      BY <1>3 DEF SameFrame, IndexInv, Walking
    <2> DEFINE w == Walked(g)
               v == Walked(g)'
               a == chp[g].at
               K == ToSet(kept[g])
    <2>2. ASSUME pc[g] = "scan"
          PROVE  /\ ToSet(chain) \subseteq ToSet(chain')
                 /\ chp[g].table # Nil => chp[g].table \in old' \cup {index'}
                 /\ a \in ToSet(w) => a \in ToSet(v)
                 /\ Only(Ahead(g)', K) = Only(Ahead(g), K)
      <3>1. ScanAt(g)
        BY <2>1, <2>2 DEF WalkAt
      <3>2. /\ w \in Seq(Clause) /\ Ahead(g) = From(w, a)
            /\ chp[g].table \in Table \cup {Nil}
            /\ key[g] \in Key /\ HashIndex[key[g]] \in Bucket
        BY <2>2, WalkedSeq DEF IndexInv
      <3>3. v = w \/ (c \notin ToSet(w) /\ v = Add(w, c, where))
        <4>1. CASE chp[g].table = Nil
          <5>1. w = chain /\ v = chain'
            BY <1>3, <4>1 DEF Walked
          <5> QED
            BY <1>2, <1>3, <5>1
        <4>2. CASE chp[g].table # Nil
          <5> DEFINE i == chp[g].table
                     b == HashIndex[key[g]]
          <5>1. i \in Table /\ b \in Bucket /\ w = table[i].entries[b] /\ v = table'[i].entries[b]
            BY <1>3, <3>2, <4>2 DEF Walked
          <5> HIDE DEF i, b, w, v
          <5>2. CASE table'[i] = table[i]
            BY <5>1, <5>2
          <5>3. CASE i = index /\ table'[i] = new
            <6>1. Sound(table[i], chain, gone)
              BY <1>1, <5>1, <5>3, NilAssumption
            <6>2. table[i] \in Tables /\ c \notin ToSet(w)
              BY <1>2, <5>1, <6>1 DEF Sound, PlacedIn
            <6>3. v = w \/ v = Add(w, c, where)
              BY <5>1, <5>3, <6>2, AddFields DEF new
            <6> QED
              BY <6>2, <6>3
          <5> QED
            BY <1>5, <5>1, <5>2, <5>3
        <4> QED
          BY <4>1, <4>2
      <3>4. a \in ToSet(w) \cup {Nil} /\ K \subseteq ToSet(chain)
        BY <3>1 DEF ScanAt
      <3>5. Ahead(g)' = From(v, a)
        BY <1>3 DEF Ahead, From
      <3> HIDE DEF w, v, a, K
      <3>6. (a \in ToSet(w) => a \in ToSet(v)) /\ Only(From(v, a), K) = Only(From(w, a), K)
        BY <1>2, <3>2, <3>3, <3>4, AddedAside
      <3>7. chp[g].table # Nil => chp[g].table \in old' \cup {index'}
        BY <1>5, <3>1, <3>2 DEF ScanAt
      <3> QED
        BY <1>6, <3>2, <3>5, <3>6, <3>7
    <2> QED
      BY <2>1, <2>2, WalkKept
  <1> QED
    BY <1>5, <1>7, <1>8, <1>9, <1>10 DEF IndexInv, Walking

(* A clause is erased and stays: no sequence changes, only the counters of *)
(* dirty buckets.                                                          *)
LEMMA RetractActiveKeeps ==
  ASSUME IndexInv, NEW c \in Clause, RetractActive(c)
  PROVE  IndexInv'
  <1> DEFINE new  == DeleteActiveClauseFromIndex(table[index], c)
             drop == index # Nil /\ TooSmall(table[index])
  <1>1. /\ chain \in Seq(Clause) /\ IsInjective(chain) /\ gone \in SUBSET Clause
        /\ ToSet(chain) \subseteq Clause /\ IsFiniteSet(ToSet(chain))
        /\ number = Cardinality(ToSet(chain) \ gone) /\ number \in Nat
        /\ erased = Cardinality(ToSet(chain) \cap gone) /\ erased \in Nat
        /\ index # Nil => index \in Table /\ Sound(table[index], chain, gone)
    BY IndexTypes
  <1>2. c \in ToSet(chain) /\ c \notin gone
    BY IndexTypes DEF RetractActive
  <1>3. /\ chain' = chain /\ number' = number - 1 /\ gone' = gone \cup {c} /\ erased' = erased + 1
        /\ UpdateIndex(drop, new)
        /\ pc' = pc /\ key' = key /\ chp' = chp /\ view' = view /\ kept' = kept /\ got' = got
    BY DEF RetractActive, frameVars
  <1>4. index # Nil => Sound(new, chain', gone')
    BY <1>1, <1>2, <1>3, EraseSound
  <1> HIDE DEF new, drop
  <1>5. /\ table' \in [Table -> Tables] /\ index' \in Table \cup {Nil} /\ old' \in SUBSET Table
        /\ Apart' /\ TableSound' /\ \A i \in Table : Once(table'[i])
        /\ \A i \in Table : i \in old \cup {index} => i \in old' \cup {index'}
        /\ \A i \in Table : table'[i] = table[i] \/ (i = index /\ ~drop /\ table'[i] = new)
    BY <1>3, <1>4, IndexUpdated DEF IndexInv
  <1>6. Typed'
    <2>1. unused' = unused
      BY <1>3 DEF UpdateIndex
    <2> QED
      BY <1>1, <1>3, <1>5, <2>1 DEF IndexInv, Typed
  <1>7. Counts'
    <2> DEFINE L == ToSet(chain) \ gone
               D == ToSet(chain) \cap gone
    <2>1. ToSet(chain') \ gone' = L \ {c} /\ ToSet(chain') \cap gone' = D \cup {c}
      BY <1>2, <1>3
    <2>2. IsFiniteSet(L) /\ c \in L /\ IsFiniteSet(D) /\ c \notin D
      BY <1>1, <1>2, FS_Difference, FS_Intersection
    <2>3. number = Cardinality(L) /\ erased = Cardinality(D)
      BY <1>1
    <2> HIDE DEF L, D
    <2>4. Cardinality(L \ {c}) = Cardinality(L) - 1
      BY <2>2, FS_RemoveElement
    <2>5. Cardinality(D \cup {c}) = Cardinality(D) + 1
      BY <2>2, FS_AddElement
    <2> QED
      BY <1>3, <2>1, <2>3, <2>4, <2>5 DEF Counts
  <1>8. Distinct'
    BY <1>1, <1>3, <1>5 DEF Distinct
  <1>9. ASSUME NEW g \in Frame
        PROVE  WalkAt(g)'
    <2>1. SameFrame(g) /\ WalkAt(g) /\ chain' = chain
      BY <1>3 DEF SameFrame, IndexInv, Walking
    <2>2. ASSUME pc[g] = "scan"
          PROVE  /\ Walked(g)' = Walked(g)
                 /\ chp[g].table # Nil => chp[g].table \in old' \cup {index'}
      <3>1. ScanAt(g)
        BY <2>1, <2>2 DEF WalkAt
      <3>2. /\ chp[g].table \in Table \cup {Nil} /\ HashIndex[key[g]] \in Bucket
        BY <2>2, WalkedSeq DEF IndexInv
      <3>3. CASE chp[g].table = Nil
        BY <1>3, <3>3 DEF Walked
      <3>4. CASE chp[g].table # Nil
        <4> DEFINE i == chp[g].table
        <4>1. i \in Table /\ i \in old \cup {index}
          BY <3>1, <3>2, <3>4 DEF ScanAt
        <4>2. i = index => table[i] \in Tables
          BY <4>1 DEF IndexInv, Typed
        <4>3. table'[i].entries = table[i].entries
          <5>1. CASE table'[i] = table[i]
            BY <5>1
          <5>2. CASE i = index /\ table'[i] = new
            <6> DEFINE x == table[i]
            <6>1. x \in Tables /\ table'[i] = DeleteActiveClauseFromIndex(x, c)
              BY <4>2, <5>2 DEF new
            <6> HIDE DEF x
            <6>2. DeleteActiveClauseFromIndex(x, c).entries = x.entries
              BY <6>1, EraseFields
            <6> QED
              BY <6>1, <6>2 DEF x
          <5> QED
            BY <1>5, <4>1, <5>1, <5>2
        <4>4. /\ Walked(g) = table[i].entries[HashIndex[key[g]]]
              /\ Walked(g)' = table'[i].entries[HashIndex[key[g]]]
          BY <1>3, <3>4 DEF Walked
        <4> QED
          BY <1>5, <4>1, <4>3, <4>4
      <3> QED
        BY <3>3, <3>4
    <2> QED
      BY <2>1, <2>2, Elsewhere
  <1> QED
    BY <1>5, <1>6, <1>7, <1>8, <1>9 DEF IndexInv, Walking

(* A clause is unlinked: no frame is in the predicate. *)
LEMMA RetractUnlinkKeeps ==
  ASSUME IndexInv, NEW c \in Clause, RetractUnlink(c)
  PROVE  IndexInv'
  <1> DEFINE new  == DelClauseFromIndex(table[index], c)
  <1>1. /\ chain \in Seq(Clause) /\ IsInjective(chain) /\ gone \in SUBSET Clause
        /\ ToSet(chain) \subseteq Clause /\ IsFiniteSet(ToSet(chain))
        /\ number = Cardinality(ToSet(chain) \ gone) /\ number \in Nat
        /\ erased = Cardinality(ToSet(chain) \cap gone) /\ erased \in Nat
        /\ index # Nil => index \in Table /\ Sound(table[index], chain, gone)
    BY IndexTypes
  <1>2. c \in ToSet(chain) /\ c \notin gone
    BY IndexTypes DEF RetractUnlink
  <1>3. /\ chain' = Without(chain, {c}) /\ number' = number - 1 /\ gone' = gone \cup {c} /\ erased' = erased
        /\ UpdateIndex(FALSE, new)
        /\ pc' = pc /\ key' = key /\ chp' = chp /\ view' = view /\ kept' = kept /\ got' = got
        /\ \A g \in Frame : pc[g] = "idle"
    BY DEF RetractUnlink, Referenced, frameVars
  <1>4. index # Nil => Sound(new, chain', gone')
    BY <1>1, <1>2, <1>3, UnlinkSound
  <1> HIDE DEF new
  <1>5. /\ table' \in [Table -> Tables] /\ index' \in Table \cup {Nil} /\ old' \in SUBSET Table
        /\ Apart' /\ TableSound' /\ \A i \in Table : Once(table'[i])
    BY <1>3, <1>4, IndexUpdated DEF IndexInv
  <1>6. chain' \in Seq(Clause) /\ ToSet(chain') = ToSet(chain) \ {c} /\ IsInjective(chain')
    BY <1>1, <1>3, WithoutMembers
  <1>7. Typed'
    <2>1. unused' = unused
      BY <1>3 DEF UpdateIndex
    <2> QED
      BY <1>1, <1>3, <1>5, <1>6, <2>1 DEF IndexInv, Typed
  <1>8. Counts'
    <2> DEFINE L == ToSet(chain) \ gone
    <2>1. ToSet(chain') \ gone' = L \ {c} /\ ToSet(chain') \cap gone' = ToSet(chain) \cap gone
      BY <1>2, <1>3, <1>6
    <2>2. IsFiniteSet(L) /\ c \in L /\ number = Cardinality(L)
      BY <1>1, <1>2, FS_Difference
    <2> HIDE DEF L
    <2>3. Cardinality(L \ {c}) = Cardinality(L) - 1
      BY <2>2, FS_RemoveElement
    <2> QED
      BY <1>1, <1>3, <2>1, <2>2, <2>3 DEF Counts
  <1>9. Distinct'
    BY <1>5, <1>6 DEF Distinct
  <1>10. ASSUME NEW g \in Frame
         PROVE  WalkAt(g)'
    <2>1. SameFrame(g) /\ WalkAt(g) /\ pc[g] # "scan"
      BY <1>3 DEF SameFrame, IndexInv, Walking
    <2> QED
      BY <2>1, WalkKept
  <1> QED
    BY <1>5, <1>7, <1>8, <1>9, <1>10 DEF IndexInv, Walking
-----------------------------------------------------------------------------
(* A frame enters. *)
LEMMA EnterKeeps ==
  ASSUME IndexInv, NEW f \in Frame, NEW k \in GoalKey, Enter(f, k)
  PROVE  IndexInv'
  <1>1. /\ chain' = chain /\ gone' = gone /\ number' = number /\ erased' = erased
        /\ table' = table /\ index' = index /\ old' = old /\ unused' = unused
        /\ chp' = chp /\ kept' = kept /\ got' = got
        /\ pc[f] = "idle" /\ pc' = [pc EXCEPT ![f] = "enter"]
        /\ key' = [key EXCEPT ![f] = k]
    BY DEF Enter, defVars, indexVars
  <1> DEFINE v == ToSet(chain) \ gone
  <1>2. view' = [view EXCEPT ![f] = v]
    BY DEF Enter
  <1>3. v \in SUBSET Clause /\ k \in Key
    BY IndexTypes, KeyAssumption
  <1> HIDE DEF v
  <1>4. Typed'
    <2>1. pc' \in [Frame -> PCs] /\ key' \in [Frame -> Key \cup {NoKey}] /\ view' \in [Frame -> SUBSET Clause]
      BY <1>1, <1>2, <1>3 DEF IndexInv, Typed, PCs
    <2>2. \A g \in Frame : pc'[g] # "idle" => key'[g] \in Key
      BY <1>1, <1>3 DEF IndexInv, Typed
    <2> QED
      BY <1>1, <2>1, <2>2 DEF IndexInv, Typed
  <1>5. Counts' /\ Distinct' /\ Apart' /\ TableSound'
    BY <1>1 DEF IndexInv, Counts, Distinct, Apart, TableSound
  <1>6. ASSUME NEW g \in Frame
        PROVE  WalkAt(g)'
    <2>1. CASE g = f
      BY <1>1, <2>1 DEF IndexInv, Walking, WalkAt, Typed
    <2>2. CASE g # f
      <3>1. SameFrame(g)
        BY <1>1, <1>2, <2>2 DEF SameFrame, IndexInv, Typed
      <3> QED
        BY <1>1, <3>1, UnchangedWalk DEF IndexInv, Walking
    <2> QED
      BY <2>1, <2>2
  <1> QED
    BY <1>4, <1>5, <1>6 DEF IndexInv, Walking

(* A search starts at the head of what shows the clauses of its key in the *)
(* order of the chain.                                                     *)
LEMMA SearchStarts ==
  ASSUME IndexInv, NEW f \in Frame, pc[f] \in {"enter", "hash"},
         NEW i \in Table \cup {Nil}, NEW s \in Seq(Clause), Search(f, i, s),
         chain' = chain, key' = key, view' = view, got' = got,
         i # Nil => i \in old' \cup {index'},
         Walked(f)' \in Seq(Clause), s = <<>> \/ Walked(f)' = s,
         Only(s, LiveFor(key[f], gone)) = Only(chain, LiveFor(key[f], gone))
  PROVE  /\ pc' \in [Frame -> PCs] /\ \A g \in Frame : g # f => SameFrame(g)
         /\ chp' \in [Frame -> [table : Table \cup {Nil}, at : Clause \cup {Nil}]]
         /\ kept' \in [Frame -> Seq(Clause)]
         /\ \A g \in Frame : pc'[g] # "idle" => pc[g] # "idle"
         /\ WalkAt(f)'
  <1> DEFINE a == IF s = <<>> THEN Nil ELSE Head(s)
             K == Only(chain, Suits(f) \ gone)
             L == LiveFor(key[f], gone)
             V == Suits(f) \ gone
             w == Walked(f)'
  <1>1. /\ pc' = [pc EXCEPT ![f] = "scan"] /\ chp' = [chp EXCEPT ![f] = [table |-> i, at |-> a]]
        /\ kept' = [kept EXCEPT ![f] = K]
    BY DEF Search
  <1>2. chain \in Seq(Clause) /\ Typed
    BY IndexTypes DEF IndexInv
  <1>3. V \subseteq L
    BY <1>2 DEF Suits, LiveFor, Typed
  <1>4. Only(s, L) = Only(chain, L)
    OBVIOUS
  <1>5. a \in Clause \cup {Nil} /\ (s # <<>> => Len(s) > 0 /\ s[1] = a)
    <2>1. CASE s = <<>>
      BY <2>1
    <2>2. CASE s # <<>>
      <3>1. Len(s) > 0 /\ s[1] \in Clause
        BY <2>2
      <3>2. a = s[1]
        BY <2>2
      <3> QED
        BY <3>1, <3>2
    <2> QED
      BY <2>1, <2>2
  <1> HIDE DEF a, L, V, w
  <1>6. /\ Only(chain, V) \in Seq(Clause) /\ ToSet(Only(chain, V)) = ToSet(chain) \cap V
        /\ Only(s, ToSet(Only(chain, V))) = Only(chain, V)
    BY <1>2, <1>3, <1>4, SearchServes
  <1>7. K = Only(chain, V)
    BY DEF V
  <1> HIDE DEF K
  <1>8. K \in Seq(Clause) /\ ToSet(K) = ToSet(chain) \cap V /\ Only(s, ToSet(K)) = K
    BY <1>6, <1>7
  <1>9. [table |-> i, at |-> a] \in [table : Table \cup {Nil}, at : Clause \cup {Nil}]
    BY <1>5
  <1> DEFINE h == [table |-> i, at |-> a]
  <1>10. h.table = i /\ h.at = a
    OBVIOUS
  <1> HIDE DEF h
  <1>11. chp' = [chp EXCEPT ![f] = h] /\ h \in [table : Table \cup {Nil}, at : Clause \cup {Nil}]
    BY <1>1, <1>9 DEF h
  <1>12. /\ pc' \in [Frame -> PCs]
         /\ chp' \in [Frame -> [table : Table \cup {Nil}, at : Clause \cup {Nil}]]
         /\ kept' \in [Frame -> Seq(Clause)]
    BY <1>1, <1>2, <1>8, <1>11 DEF Typed, PCs
  <1>13. \A g \in Frame : g # f => SameFrame(g)
    BY <1>1, <1>2, <1>11 DEF Typed, SameFrame
  <1>14. \A g \in Frame : pc'[g] # "idle" => pc[g] # "idle"
    BY <1>1, <1>2 DEF Typed
  <1>15. pc'[f] = "scan" /\ chp'[f].table = i /\ chp'[f].at = a /\ kept'[f] = K /\ got'[f] = <<>>
    BY <1>1, <1>2, <1>10, <1>11 DEF Typed, IndexInv, Walking, WalkAt
  <1>16. Ahead(f)' = s /\ (a # Nil => a \in ToSet(w))
    <2>1. Ahead(f)' = From(w, a)
      BY <1>15 DEF Ahead, From, w
    <2>2. w \in Seq(Clause)
      BY DEF w
    <2>3. CASE s = <<>>
      <3>1. a = Nil
        BY <2>3 DEF a
      <3>2. Nil \notin ToSet(w)
        BY <2>2, Members, NilAssumption
      <3>3. From(w, a) = <<>>
        BY <2>2, <3>1, <3>2, FromNone
      <3> QED
        BY <2>1, <2>3, <3>1, <3>3
    <2>4. CASE s # <<>>
      <3> DEFINE p == <<>>
      <3>1. p \in Seq(Clause) /\ a \notin ToSet(p) /\ p \o s = s
        BY MembersAppend, ConcatEmptySeq
      <3> HIDE DEF p
      <3>2. From(p \o s, a) = s
        BY <1>5, <2>4, <3>1, FromIs
      <3>3. w = s
        BY <2>4 DEF w
      <3>4. DOMAIN s = 1..Len(s) /\ Len(s) \in Nat
        BY LenProperties
      <3>5. 1 \in DOMAIN s
        BY <1>5, <2>4, <3>4
      <3>6. a \in ToSet(s)
        BY <1>5, <2>4, <3>5 DEF ToSet
      <3> QED
        BY <2>1, <3>1, <3>2, <3>3, <3>6
    <2> QED
      BY <2>3, <2>4
  <1>17. ScanAt(f)'
    <2>1. Suits(f)' = Suits(f)
      BY DEF Suits
    <2>2. ToSet(K) \subseteq Suits(f)' \cap ToSet(chain')
      BY <1>8, <2>1 DEF V
    <2> DEFINE M == ToSet(K)
    <2>3. Only(got'[f], M) = <<>>
      BY <1>15, OnlyEmpty
    <2>4. <<>> \o K = K
      BY <1>8, ConcatEmptySeq
    <2>5. Only(Ahead(f)', M) = K
      BY <1>8, <1>16
    <2>6. Only(got'[f], M) \o Only(Ahead(f)', M) = K
      BY <2>3, <2>4, <2>5
    <2> QED
      BY <1>15, <1>16, <2>2, <2>6 DEF ScanAt, w
  <1> QED
    BY <1>12, <1>13, <1>14, <1>15, <1>17 DEF WalkAt

(* A frame starts with the table, with the chain, with nothing, or goes to *)
(* build a table.                                                          *)
LEMMA FirstClauseKeeps ==
  ASSUME IndexInv, NEW f \in Frame, FirstClause(f)
  PROVE  IndexInv'
  <1>1. /\ chain' = chain /\ gone' = gone /\ number' = number /\ erased' = erased
        /\ table' = table /\ index' = index /\ old' = old /\ unused' = unused
        /\ key' = key /\ view' = view /\ got' = got /\ pc[f] = "enter"
    BY DEF FirstClause, defVars, indexVars
  <1>2. Typed /\ chain \in Seq(Clause) /\ key[f] \in Key /\ HashIndex[key[f]] \in Bucket
    BY <1>1, IndexTypes, WalkedSeq DEF IndexInv
  <1>3. Counts' /\ Distinct' /\ Apart' /\ TableSound'
    BY <1>1 DEF IndexInv, Counts, Distinct, Apart, TableSound
  <1> DEFINE Starts ==
        /\ pc' \in [Frame -> PCs] /\ \A g \in Frame : g # f => SameFrame(g)
        /\ chp' \in [Frame -> [table : Table \cup {Nil}, at : Clause \cup {Nil}]]
        /\ kept' \in [Frame -> Seq(Clause)]
        /\ \A g \in Frame : pc'[g] # "idle" => pc[g] # "idle"
        /\ WalkAt(f)'
  <1>4. ASSUME index # Nil /\ Search(f, index, table[index].entries[HashIndex[key[f]]])
        PROVE  Starts
    <2> DEFINE s == table[index].entries[HashIndex[key[f]]]
    <2>1. index \in Table /\ Sound(table[index], chain, gone)
      BY <1>4, IndexTypes
    <2>2. s \in Seq(Clause)
      BY <1>2, <2>1, BucketSeq DEF Sound
    <2>3. Only(s, LiveFor(key[f], gone)) = Only(chain, LiveFor(key[f], gone))
      BY <1>2, <2>1 DEF Sound, Follows
    <2>4. Search(f, index, s)
      BY <1>4
    <2>5. chp'[f].table = index
      BY <1>2, <2>4 DEF Search, Typed
    <2>6. Walked(f)' = s
      BY <1>1, <1>4, <2>5 DEF Walked
    <2> HIDE DEF s
    <2>7. Starts
      BY <1>1, <2>1, <2>2, <2>3, <2>4, <2>6, SearchStarts
    <2> QED
      BY <2>7
  <1>5. ASSUME NEW s \in Seq(Clause), Search(f, Nil, s), s = <<>> \/ s = chain,
               Only(s, LiveFor(key[f], gone)) = Only(chain, LiveFor(key[f], gone))
        PROVE  Starts
    <2>1. chp'[f].table = Nil
      BY <1>2, <1>5 DEF Search, Typed
    <2>2. Walked(f)' = chain
      BY <1>1, <2>1 DEF Walked
    <2>3. Nil \in Table \cup {Nil}
      OBVIOUS
    <2>4. Walked(f)' \in Seq(Clause) /\ (s = <<>> \/ Walked(f)' = s)
      BY <1>2, <1>5, <2>2
    <2> QED
      BY <1>1, <1>5, <2>3, <2>4, SearchStarts
  <1>6. ASSUME index = Nil /\ number = 0 /\ Search(f, Nil, <<>>)
        PROVE  Starts
    <2> DEFINE e == <<>>
               L == LiveFor(key[f], gone)
    <2>1. ToSet(chain) \ gone = {}
      <3>1. IsFiniteSet(ToSet(chain) \ gone) /\ Cardinality(ToSet(chain) \ gone) = 0
        BY <1>6, IndexTypes, FS_Difference
      <3> QED
        BY <3>1, FS_EmptySet
    <2>2. ToSet(chain) \cap L = {}
      BY <2>1 DEF LiveFor
    <2>3. Only(chain, L) = <<>> /\ Only(<<>>, L) = <<>>
      BY <1>2, <2>2, OnlyNone, OnlyEmpty
    <2>4. e \in Seq(Clause) /\ Search(f, Nil, e) /\ e = <<>> /\ Only(e, L) = Only(chain, L)
      BY <1>6, <2>3
    <2> HIDE DEF e
    <2>5. Starts
      BY <1>5, <2>4
    <2> QED
      BY <2>5
  <1>7. ASSUME index = Nil /\ Search(f, Nil, chain)
        PROVE  Starts
    <2>1. Starts
      BY <1>2, <1>5, <1>7
    <2> QED
      BY <2>1
  <1>8. ASSUME pc' = [pc EXCEPT ![f] = "hash"] /\ chp' = chp /\ kept' = kept
        PROVE  Starts
    <2>1. /\ pc' \in [Frame -> PCs] /\ \A g \in Frame : g # f => SameFrame(g)
          /\ \A g \in Frame : pc'[g] # "idle" => pc[g] # "idle"
      BY <1>1, <1>2, <1>8 DEF Typed, PCs, SameFrame
    <2>2. pc'[f] = "hash" /\ got'[f] = <<>>
      BY <1>1, <1>2, <1>8 DEF Typed, IndexInv, Walking, WalkAt
    <2>3. WalkAt(f)'
      BY <2>2 DEF WalkAt
    <2>4. /\ chp' \in [Frame -> [table : Table \cup {Nil}, at : Clause \cup {Nil}]]
          /\ kept' \in [Frame -> Seq(Clause)]
      BY <1>2, <1>8 DEF Typed
    <2> QED
      BY <2>1, <2>3, <2>4
  <1>9. Starts
    BY <1>4, <1>6, <1>7, <1>8 DEF FirstClause
  <1>10. Typed'
    <2>1. \A g \in Frame : pc'[g] # "idle" => key'[g] \in Key
      BY <1>1, <1>2, <1>9 DEF Typed
    <2> QED
      BY <1>1, <1>2, <1>9, <2>1 DEF Typed
  <1>11. ASSUME NEW g \in Frame
        PROVE  WalkAt(g)'
    <2>1. g # f => SameFrame(g)
      BY <1>9
    <2>2. WalkAt(g) /\ UNCHANGED <<chain, table, old, index>>
      BY <1>1 DEF IndexInv, Walking
    <2> QED
      BY <1>9, <2>1, <2>2, UnchangedWalk
  <1> QED
    BY <1>3, <1>10, <1>11 DEF IndexInv, Walking
(* A frame builds a table: it was not in use, and the one it replaces      *)
(* becomes an old one.                                                     *)
LEMMA HashKeeps ==
  ASSUME IndexInv, NEW f \in Frame, NEW i \in Table, HashDefinition(f, i)
  PROVE  IndexInv'
  <1> DEFINE x == Hashed(i)
  <1>1. /\ chain' = chain /\ gone' = gone /\ number' = number /\ erased' = erased
        /\ table' = [table EXCEPT ![i] = x] /\ index' = i /\ old' = old \cup ({index} \ {Nil})
        /\ unused' = unused \ {i} /\ i \in unused
        /\ key' = key /\ view' = view /\ got' = got /\ pc[f] = "hash"
        /\ Search(f, i, x.entries[HashIndex[key[f]]])
    BY DEF HashDefinition, defVars, ReplaceIndex
  <1>2. Typed /\ chain \in Seq(Clause) /\ key[f] \in Key /\ HashIndex[key[f]] \in Bucket
    BY <1>1, IndexTypes, WalkedSeq DEF IndexInv
  <1>3. Sound(x, chain, gone)
    BY IndexTypes, HashedSound
  <1>4. x \in Tables /\ Once(x)
    BY <1>3 DEF Sound
  <1> HIDE DEF x
  <1>5. /\ table' \in [Table -> Tables] /\ old' \in SUBSET Table /\ unused' \in SUBSET Table
        /\ table'[i] = x /\ \A j \in Table : j # i => table'[j] = table[j]
    BY <1>1, <1>2, <1>4 DEF Typed
  <1>6. Counts' /\ Distinct' /\ Apart' /\ TableSound'
    <2>1. Counts'
      BY <1>1 DEF IndexInv, Counts
    <2>2. Distinct'
      BY <1>1, <1>4, <1>5 DEF IndexInv, Distinct
    <2>3. Apart'
      BY <1>1 DEF IndexInv, Apart
    <2>4. TableSound'
      BY <1>1, <1>3, <1>5 DEF TableSound
    <2> QED
      BY <2>1, <2>2, <2>3, <2>4
  <1> DEFINE s == x.entries[HashIndex[key[f]]]
  <1>7. /\ pc' \in [Frame -> PCs] /\ \A g \in Frame : g # f => SameFrame(g)
        /\ chp' \in [Frame -> [table : Table \cup {Nil}, at : Clause \cup {Nil}]]
        /\ kept' \in [Frame -> Seq(Clause)]
        /\ \A g \in Frame : pc'[g] # "idle" => pc[g] # "idle"
        /\ WalkAt(f)'
    <2>1. s \in Seq(Clause)
      BY <1>2, <1>4, BucketSeq
    <2>2. Only(s, LiveFor(key[f], gone)) = Only(chain, LiveFor(key[f], gone))
      BY <1>2, <1>3 DEF Sound, Follows
    <2>3. Search(f, i, s)
      BY <1>1
    <2>4. chp'[f].table = i /\ i # Nil
      BY <1>2, <2>3, NilAssumption DEF Search, Typed
    <2>5. Walked(f)' = s
      BY <1>1, <1>5, <2>4 DEF Walked
    <2> HIDE DEF s
    <2> QED
      BY <1>1, <2>1, <2>2, <2>3, <2>5, SearchStarts
  <1>8. Typed'
    <2>1. \A g \in Frame : pc'[g] # "idle" => key'[g] \in Key
      BY <1>1, <1>2, <1>7 DEF Typed
    <2> QED
      BY <1>1, <1>2, <1>5, <1>7, <2>1 DEF Typed
  <1>9. ASSUME NEW g \in Frame
        PROVE  WalkAt(g)'
    <2>1. CASE g = f
      BY <1>7, <2>1
    <2>2. CASE g # f
      <3>1. SameFrame(g) /\ WalkAt(g)
        BY <1>7, <2>2 DEF IndexInv, Walking
      <3>2. ASSUME pc[g] = "scan"
            PROVE  /\ Walked(g)' = Walked(g)
                   /\ chp[g].table # Nil => chp[g].table \in old' \cup {index'}
        <4>1. ScanAt(g)
          BY <3>1, <3>2 DEF WalkAt
        <4>2. chp[g].table \in Table \cup {Nil}
          BY <3>2, WalkedSeq DEF IndexInv
        <4>3. CASE chp[g].table = Nil
          BY <1>1, <3>1, <4>3 DEF Walked, SameFrame
        <4>4. CASE chp[g].table # Nil
          <5>1. chp[g].table \in old \cup {index} /\ chp[g].table \in Table
            BY <4>1, <4>2, <4>4 DEF ScanAt
          <5>2. chp[g].table # i
            BY <1>1, <5>1 DEF IndexInv, Apart
          <5>3. table'[chp[g].table] = table[chp[g].table]
            BY <1>5, <5>1, <5>2
          <5>4. Walked(g)' = Walked(g)
            BY <3>1, <4>4, <5>3 DEF Walked, SameFrame
          <5> QED
            BY <1>1, <4>4, <5>1, <5>4
        <4> QED
          BY <4>3, <4>4
      <3> QED
        BY <1>1, <3>1, <3>2, Elsewhere
    <2> QED
      BY <2>1, <2>2
  <1> QED
    BY <1>6, <1>8, <1>9 DEF IndexInv, Walking

(* A frame is given a clause and goes on to the next. *)
LEMMA NextClauseKeeps ==
  ASSUME IndexInv, NEW f \in Frame, NextClause(f)
  PROVE  IndexInv'
  <1> DEFINE s == Ahead(f)
             i == First(s, Suits(f))
             r == SubSeq(s, i + 1, Len(s))
             n == First(r, Suits(f))
             j == IF n # 0 /\ n <= MaxSearch THEN n ELSE MaxSearch
             b == IF j <= Len(r) THEN r[j] ELSE Nil
             w == Walked(f)
             a == chp[f].at
             K == ToSet(kept[f])
             T == Suits(f)
             e == s[i]
  <1>1. /\ chain' = chain /\ gone' = gone /\ number' = number /\ erased' = erased
        /\ table' = table /\ index' = index /\ old' = old /\ unused' = unused
        /\ pc' = pc /\ key' = key /\ view' = view /\ kept' = kept
        /\ pc[f] = "scan" /\ i # 0
    BY DEF NextClause, defVars, indexVars
  <1>2. got' = [got EXCEPT ![f] = Append(got[f], e)]
    BY DEF NextClause
  <1>3. chp' = [chp EXCEPT ![f].at = b]
    BY DEF NextClause
  <1>4. /\ w \in Seq(Clause) /\ IsInjective(w) /\ s = From(w, a) /\ s \in Seq(Clause)
        /\ chp[f] \in [table : Table \cup {Nil}, at : Clause \cup {Nil}]
    BY <1>1, WalkedSeq DEF IndexInv, Typed
  <1>5. GoesOn(w, a, T, s, i, r, n, j, b)
    BY <1>1, <1>4 DEF GoesOn
  <1>6. ScanAt(f) /\ K \subseteq T
    BY <1>1 DEF IndexInv, Walking, WalkAt, ScanAt
  <1> HIDE DEF s, i, r, n, j, b, w, a, K, T, e
  <1>7. /\ e \in Clause /\ b \in Clause \cup {Nil} /\ (b # Nil => b \in ToSet(w))
        /\ Only(s, K) = Only(<<e>>, K) \o Only(From(w, b), K)
    <2>1. w \in Seq(Clause) /\ IsInjective(w) /\ K \subseteq T
      BY <1>4, <1>6
    <2>2. Gives(w, K, s, i, b)
      BY <1>5, <2>1, NextServes
    <2>3. e = s[i]
      BY DEF e
    <2> QED
      BY <2>2, <2>3 DEF Gives
  <1> DEFINE c == [table |-> chp[f].table, at |-> b]
             q == Append(got[f], e)
  <1>8. got[f] \in Seq(Clause) /\ q \in Seq(Clause)
    BY <1>7 DEF IndexInv, Typed
  <1>9. c \in [table : Table \cup {Nil}, at : Clause \cup {Nil}] /\ c.at = b /\ c.table = chp[f].table
    BY <1>4, <1>7
  <1> HIDE DEF c, q
  <1>10. chp'[f].at = b /\ chp'[f].table = chp[f].table /\ \A g \in Frame : g # f => chp'[g] = chp[g]
    BY <1>3 DEF IndexInv, Typed
  <1>11. chp' \in [Frame -> [table : Table \cup {Nil}, at : Clause \cup {Nil}]]
    BY <1>3, <1>7 DEF IndexInv, Typed
  <1>12. got' \in [Frame -> Seq(Clause)] /\ got'[f] = q /\ \A g \in Frame : g # f => got'[g] = got[g]
    BY <1>2, <1>8 DEF IndexInv, Typed, q
  <1>13. Typed'
    BY <1>1, <1>11, <1>12 DEF IndexInv, Typed
  <1>14. Counts' /\ Distinct' /\ Apart' /\ TableSound'
    BY <1>1 DEF IndexInv, Counts, Distinct, Apart, TableSound
  <1>15. WalkAt(f)'
    <2>1. Walked(f)' = w
      BY <1>1, <1>10 DEF Walked, w
    <2>2. Ahead(f)' = From(w, b)
      BY <1>10, <2>1 DEF Ahead, From
    <2>3. Suits(f)' = Suits(f)
      BY <1>1 DEF Suits
    <2> DEFINE u == <<e>>
               k == kept[f]
    <2>4. u \in Seq(Clause) /\ q = got[f] \o u
      BY <1>7, <1>8, AppendIsConcat DEF q
    <2>5. Only(got[f], K) \o Only(s, K) = k
      BY <1>6 DEF ScanAt, K, s
    <2>6. From(w, b) \in Seq(Clause)
      <3>1. CASE b = Nil
        <4>1. Nil \notin ToSet(w)
          BY <1>4, Members, NilAssumption
        <4>2. From(w, b) = <<>>
          BY <1>4, <3>1, <4>1, FromNone
        <4> QED
          BY <4>2
      <3>2. CASE b # Nil
        BY <1>4, <1>7, <3>2, FromSplits
      <3> QED
        BY <3>1, <3>2
    <2> DEFINE x == Only(got[f], K)
               y == Only(u, K)
               z == Only(From(w, b), K)
    <2> HIDE DEF u, k
    <2>7. x \in Seq(Clause) /\ y \in Seq(Clause) /\ z \in Seq(Clause)
      BY <1>8, <2>4, <2>6, OnlyType
    <2>8. Only(q, K) = x \o y
      <3> DEFINE h == got[f]
      <3>1. h \in Seq(Clause) /\ q = h \o u
        BY <1>8, <2>4
      <3> HIDE DEF h
      <3>2. Only(h \o u, K) = Only(h, K) \o Only(u, K)
        BY <2>4, <3>1, OnlyConcat
      <3> QED
        BY <3>1, <3>2 DEF h
    <2>9. Only(s, K) = y \o z
      BY <1>7 DEF u
    <2>10. x \o (y \o z) = k
      BY <2>5, <2>9
    <2> HIDE DEF x, y, z
    <2>11. (x \o y) \o z = k
      <3>1. (x \o y) \o z = x \o (y \o z)
        BY <2>7, ConcatAssociative
      <3> QED
        BY <2>10, <3>1
    <2>12. Only(q, K) \o Only(From(w, b), K) = k
      BY <2>8, <2>11 DEF z
    <2>13. ScanAt(f)'
      BY <1>1, <1>6, <1>7, <1>10, <1>12, <2>1, <2>2, <2>3, <2>12 DEF ScanAt, K, k
    <2> QED
      BY <1>1, <2>13 DEF WalkAt
  <1>16. ASSUME NEW g \in Frame
         PROVE  WalkAt(g)'
    <2>1. CASE g = f
      BY <1>15, <2>1
    <2>2. CASE g # f
      <3>1. SameFrame(g) /\ UNCHANGED <<chain, table, old, index>> /\ WalkAt(g)
        BY <1>1, <1>10, <1>12, <2>2 DEF SameFrame, IndexInv, Walking
      <3> QED
        BY <3>1, UnchangedWalk
    <2> QED
      BY <2>1, <2>2
  <1> QED
    BY <1>13, <1>14, <1>16 DEF IndexInv, Walking

(* A frame finds no more. *)
LEMMA NoMoreKeeps ==
  ASSUME IndexInv, NEW f \in Frame, NoMoreClauses(f)
  PROVE  IndexInv'
  <1>1. /\ chain' = chain /\ gone' = gone /\ number' = number /\ erased' = erased
        /\ table' = table /\ index' = index /\ old' = old /\ unused' = unused
        /\ key' = key /\ view' = view /\ kept' = kept /\ got' = got /\ chp' = chp
        /\ pc[f] = "scan" /\ First(Ahead(f), Suits(f)) = 0 /\ pc' = [pc EXCEPT ![f] = "fail"]
    BY DEF NoMoreClauses, defVars, indexVars
  <1>2. Typed'
    BY <1>1 DEF IndexInv, Typed, PCs
  <1>3. Counts' /\ Distinct' /\ Apart' /\ TableSound'
    BY <1>1 DEF IndexInv, Counts, Distinct, Apart, TableSound
  <1>4. WalkAt(f)'
    <2> DEFINE K == ToSet(kept[f])
               s == Ahead(f)
    <2>1. ScanAt(f)
      BY <1>1 DEF IndexInv, Walking, WalkAt
    <2>2. s \in Seq(Clause) /\ got[f] \in Seq(Clause)
      BY <1>1, WalkedSeq DEF IndexInv, Typed
    <2>3. K \subseteq Suits(f) /\ Only(got[f], K) \o Only(s, K) = kept[f]
      BY <2>1 DEF ScanAt
    <2> HIDE DEF s
    <2>4. ToSet(s) \cap Suits(f) = {}
      BY <1>1, <2>2, FirstPlace DEF s
    <2> HIDE DEF K
    <2>5. Only(s, K) = <<>>
      BY <2>2, <2>3, <2>4, OnlyNone
    <2> DEFINE x == Only(got[f], K)
    <2>6. x \in Seq(Clause)
      BY <2>2, OnlyType
    <2>7. x \o <<>> = kept[f]
      BY <2>3, <2>5
    <2> HIDE DEF x
    <2>8. x = kept[f]
      BY <2>6, <2>7, ConcatEmptySeq
    <2>9. pc'[f] = "fail"
      BY <1>1 DEF IndexInv, Typed
    <2> QED
      BY <1>1, <2>8, <2>9 DEF WalkAt, x, K
  <1>5. ASSUME NEW g \in Frame
        PROVE  WalkAt(g)'
    <2>1. CASE g = f
      BY <1>4, <2>1
    <2>2. CASE g # f
      <3>1. SameFrame(g) /\ UNCHANGED <<chain, table, old, index>> /\ WalkAt(g)
        BY <1>1, <2>2 DEF SameFrame, IndexInv, Walking, Typed
      <3> QED
        BY <3>1, UnchangedWalk
    <2> QED
      BY <2>1, <2>2
  <1> QED
    BY <1>2, <1>3, <1>5 DEF IndexInv, Walking

(* A frame that leaves forgets what it did. *)
LEMMA ExitFacts ==
  ASSUME IndexInv, NEW f \in Frame, Exit(f)
  PROVE  /\ pc' \in [Frame -> PCs] /\ key' \in [Frame -> Key \cup {NoKey}]
         /\ chp' \in [Frame -> [table : Table \cup {Nil}, at : Clause \cup {Nil}]]
         /\ view' \in [Frame -> SUBSET Clause]
         /\ kept' \in [Frame -> Seq(Clause)] /\ got' \in [Frame -> Seq(Clause)]
         /\ \A g \in Frame : pc'[g] # "idle" => key'[g] \in Key
         /\ \A g \in Frame : g # f => SameFrame(g)
         /\ WalkAt(f)'
  <1> DEFINE e == <<>>
             z == {}
  <1>1. e \in Seq(Clause) /\ z \in SUBSET Clause
        /\ Nowhere \in [table : Table \cup {Nil}, at : Clause \cup {Nil}]
    BY DEF Nowhere
  <1>2. /\ pc' = [pc EXCEPT ![f] = "idle"] /\ key' = [key EXCEPT ![f] = NoKey]
        /\ chp' = [chp EXCEPT ![f] = Nowhere] /\ view' = [view EXCEPT ![f] = z]
        /\ kept' = [kept EXCEPT ![f] = e] /\ got' = [got EXCEPT ![f] = e]
    BY DEF Exit
  <1>3. e = <<>>
    OBVIOUS
  <1> HIDE DEF e, z
  <1>4. /\ pc' \in [Frame -> PCs] /\ key' \in [Frame -> Key \cup {NoKey}]
        /\ chp' \in [Frame -> [table : Table \cup {Nil}, at : Clause \cup {Nil}]]
        /\ view' \in [Frame -> SUBSET Clause]
        /\ kept' \in [Frame -> Seq(Clause)] /\ got' \in [Frame -> Seq(Clause)]
    BY <1>1, <1>2 DEF IndexInv, Typed, PCs
  <1>5. /\ \A g \in Frame : g # f => SameFrame(g)
        /\ pc'[f] = "idle" /\ got'[f] = <<>>
    BY <1>1, <1>2, <1>3 DEF IndexInv, Typed, SameFrame
  <1>6. \A g \in Frame : pc'[g] # "idle" => key'[g] \in Key
    BY <1>5 DEF IndexInv, Typed, SameFrame
  <1>7. WalkAt(f)'
    BY <1>5 DEF WalkAt
  <1> QED
    BY <1>4, <1>5, <1>6, <1>7

(* A frame leaves, and nothing is cleaned. *)
LEMMA LeaveKeeps ==
  ASSUME IndexInv, NEW f \in Frame, Leave(f)
  PROVE  IndexInv'
  <1>1. /\ chain' = chain /\ gone' = gone /\ number' = number /\ erased' = erased
        /\ table' = table /\ index' = index /\ old' = old /\ unused' = unused
        /\ Exit(f)
    BY DEF Leave, defVars, indexVars
  <1>2. Typed'
    BY <1>1, ExitFacts DEF IndexInv, Typed
  <1>3. Counts' /\ Distinct' /\ Apart' /\ TableSound'
    BY <1>1 DEF IndexInv, Counts, Distinct, Apart, TableSound
  <1>4. ASSUME NEW g \in Frame
        PROVE  WalkAt(g)'
    <2>1. g = f => WalkAt(f)'
      BY <1>1, ExitFacts
    <2>2. g # f => SameFrame(g) /\ UNCHANGED <<chain, table, old, index>> /\ WalkAt(g)
      BY <1>1, ExitFacts DEF IndexInv, Walking
    <2> QED
      BY <2>1, <2>2, UnchangedWalk
  <1> QED
    BY <1>2, <1>3, <1>4 DEF IndexInv, Walking

(* The last frame leaves and cleans: no other frame is in the predicate. *)
LEMMA LeaveCleanKeeps ==
  ASSUME IndexInv, NEW f \in Frame, LeaveClean(f)
  PROVE  IndexInv'
  <1> DEFINE drop == index # Nil /\ TooSmall(table[index])
             dead == old \cup IF drop THEN {index} ELSE {}
  <1>1. /\ Exit(f) /\ \A g \in Frame \ {f} : pc[g] = "idle"
        /\ chain' = Without(chain, gone)
        /\ erased' = erased - Cardinality(ToSet(chain) \cap gone)
        /\ gone' = gone /\ number' = number /\ unused' = unused
        /\ index' = (IF drop THEN Nil ELSE index) /\ old' = {}
        /\ table' = [i \in Table |-> IF i \in dead THEN NoTable
                                     ELSE IF i = index THEN GcBuckets(table[i]) ELSE table[i]]
    BY DEF LeaveClean
  <1>2. /\ chain \in Seq(Clause) /\ IsInjective(chain) /\ gone \in SUBSET Clause
        /\ number = Cardinality(ToSet(chain) \ gone)
        /\ erased = Cardinality(ToSet(chain) \cap gone) /\ erased \in Nat
        /\ index # Nil => index \in Table /\ Sound(table[index], chain, gone)
    BY IndexTypes
  <1>3. chain' \in Seq(Clause) /\ ToSet(chain') = ToSet(chain) \ gone /\ IsInjective(chain')
    BY <1>1, <1>2, WithoutMembers
  <1>4. index # Nil => Sound(GcBuckets(table[index]), chain', gone')
    BY <1>1, <1>2, GcSound
  <1> HIDE DEF drop
  <1>5. ASSUME NEW i \in Table
        PROVE  table'[i] \in Tables /\ Once(table'[i])
    <2>1. table[i] \in Tables /\ Once(table[i]) /\ i # Nil
      BY NilAssumption DEF IndexInv, Typed, Distinct
    <2>2. CASE i \in dead
      BY <1>1, <2>2, NewTable, NewOnce
    <2>3. CASE i \notin dead /\ i = index
      <3>1. table'[i] = GcBuckets(table[i])
        BY <1>1, <2>3
      <3> QED
        BY <1>4, <2>1, <2>3, <3>1 DEF Sound
    <2>4. CASE i \notin dead /\ i # index
      BY <1>1, <2>1, <2>4
    <2> QED
      BY <2>2, <2>3, <2>4
  <1>6. table' \in [Table -> Tables]
    <2>1. DOMAIN table' = Table
      BY <1>1
    <2>2. table' = [i \in Table |-> table'[i]]
      BY <1>1
    <2> QED
      BY <1>5, <2>2
  <1>7. Typed'
    <2>1. index' \in Table \cup {Nil} /\ old' \in SUBSET Table /\ unused' \in SUBSET Table
      BY <1>1 DEF IndexInv, Typed
    <2>2. gone' \in SUBSET Clause /\ number' \in Int /\ erased' \in Int
      BY <1>1, <1>2 DEF IndexInv, Typed
    <2> QED
      BY <1>1, <1>3, <1>6, <2>1, <2>2, ExitFacts DEF Typed
  <1>8. Counts'
    <2>1. ToSet(chain') \ gone' = ToSet(chain) \ gone /\ ToSet(chain') \cap gone' = {}
      BY <1>1, <1>3
    <2>2. erased' = 0
      BY <1>1, <1>2
    <2> QED
      BY <1>1, <1>2, <2>1, <2>2, FS_EmptySet DEF Counts
  <1>9. Distinct'
    BY <1>3, <1>5 DEF Distinct
  <1>10. Apart'
    <2>1. Nil \notin unused
      BY NilAssumption DEF IndexInv, Typed
    <2> QED
      BY <1>1, <2>1 DEF IndexInv, Apart
  <1>11. TableSound'
    <2>1. ASSUME index' # Nil
          PROVE  Sound(table'[index'], chain', gone')
      <3>1. ~drop /\ index' = index /\ index # Nil /\ index \in Table
        BY <1>1, <1>2, <2>1
      <3>2. index \notin dead
        BY <3>1 DEF IndexInv, Apart
      <3>3. table'[index] = GcBuckets(table[index])
        BY <1>1, <3>1, <3>2
      <3> QED
        BY <1>4, <3>1, <3>3
    <2> QED
      BY <2>1 DEF TableSound
  <1>12. ASSUME NEW g \in Frame
         PROVE  WalkAt(g)'
    <2>1. g = f => WalkAt(f)'
      BY <1>1, ExitFacts
    <2>2. g # f => SameFrame(g) /\ pc[g] # "scan" /\ WalkAt(g)
      BY <1>1, ExitFacts DEF IndexInv, Walking
    <2> QED
      BY <2>1, <2>2, WalkKept
  <1> QED
    BY <1>7, <1>8, <1>9, <1>10, <1>11, <1>12 DEF IndexInv, Walking
-----------------------------------------------------------------------------
(* Every step keeps the invariant. *)
LEMMA NextKeeps ==
  ASSUME IndexInv, [Next]_vars
  PROVE  IndexInv'
  <1>1. CASE \E c \in Clause : \E where \in {"CL_START", "CL_END"} : AssertProcedure(c, where)
    BY <1>1, AssertKeeps
  <1>2. CASE \E c \in Clause : RetractActive(c) \/ RetractUnlink(c)
    BY <1>2, RetractActiveKeeps, RetractUnlinkKeeps
  <1>3. CASE \E f \in Frame : \E k \in GoalKey : Enter(f, k)
    BY <1>3, EnterKeeps
  <1>4. CASE \E f \in Frame : \E i \in Table : HashDefinition(f, i)
    BY <1>4, HashKeeps
  <1>5. CASE \E f \in Frame : FirstClause(f) \/ NextClause(f) \/ NoMoreClauses(f)
    BY <1>5, FirstClauseKeeps, NextClauseKeeps, NoMoreKeeps
  <1>6. CASE \E f \in Frame : Leave(f) \/ LeaveClean(f)
    BY <1>6, LeaveKeeps, LeaveCleanKeeps
  <1>7. CASE UNCHANGED vars
    BY <1>7, StutterKeeps
  <1> QED
    BY <1>1, <1>2, <1>3, <1>4, <1>5, <1>6, <1>7 DEF Next

(* The invariant holds in every reachable state. *)
LEMMA IndexInvariant ==
  Spec => []IndexInv
  <1>1. Init => IndexInv
    BY InitHolds
  <1>2. IndexInv /\ [Next]_vars => IndexInv'
    BY NextKeeps
  <1> QED
    BY <1>1, <1>2, PTL DEF Spec

(* The counters of the chain, of the table, and of each of its buckets are *)
(* what a count finds after every operation: checkDefinition() never       *)
(* prints its errors, for any clauses, keys, hash function and limits.     *)
THEOREM CountersExact ==
  Spec => []CheckDefinition
  <1>1. ASSUME IndexInv
        PROVE  CheckDefinition
    <2>1. /\ number = Cardinality(ToSet(chain) \ gone) /\ erased = Cardinality(ToSet(chain) \cap gone)
          /\ index # Nil => Sound(table[index], chain, gone)
      BY <1>1, IndexTypes
    <2>2. index # Nil => Exact(table[index], gone)
      BY <2>1 DEF Sound
    <2> QED
      BY <2>1, <2>2 DEF CheckDefinition, Exact, Dirty, Listed
  <1> QED
    BY <1>1, IndexInvariant, PTL

(* A goal finds the same clauses, in the same order, in the bucket of its  *)
(* key as in the chain of the predicate, whatever the hash function makes  *)
(* of the keys and wherever variables stand among them.                    *)
THEOREM BucketsOrdered ==
  Spec => []BucketsFollowChain
  <1>1. ASSUME IndexInv
        PROVE  BucketsFollowChain
    <2>1. index # Nil => Follows(table[index], chain, gone)
      BY <1>1, IndexTypes DEF Sound
    <2> QED
      BY <2>1 DEF BucketsFollowChain, Follows, LiveFor
  <1> QED
    BY <1>1, IndexInvariant, PTL

(* A table that hashDefinition() replaced, or that an operation dropped,   *)
(* stays among the old ones, with the clause a frame looks at next in the  *)
(* bucket it walks, for as long as the frame is in the predicate.          *)
THEOREM WalkedLive ==
  Spec => []WalkedTableLives
  <1>1. ASSUME IndexInv
        PROVE  WalkedTableLives
    <2>1. ASSUME NEW f \in Frame, pc[f] = "scan"
          PROVE  /\ chp[f].table # Nil => chp[f].table \in old \cup {index}
                 /\ chp[f].at # Nil => Len(Ahead(f)) > 0 /\ Head(Ahead(f)) = chp[f].at
      <3>1. ScanAt(f)
        BY <1>1, <2>1 DEF IndexInv, Walking, WalkAt
      <3>2. Walked(f) \in Seq(Clause) /\ Ahead(f) = From(Walked(f), chp[f].at)
        BY <1>1, <2>1, WalkedSeq DEF IndexInv
      <3>3. ASSUME chp[f].at # Nil
            PROVE  Len(Ahead(f)) > 0 /\ Head(Ahead(f)) = chp[f].at
        <4> DEFINE s == Ahead(f)
        <4>1. chp[f].at \in ToSet(Walked(f))
          BY <3>1, <3>3 DEF ScanAt
        <4>2. s \in Seq(Clause) /\ Len(s) > 0 /\ s[1] = chp[f].at
          BY <3>2, <4>1, FromSplits
        <4> HIDE DEF s
        <4>3. Head(s) = s[1]
          BY <4>2
        <4> QED
          BY <4>2, <4>3 DEF s
      <3> QED
        BY <3>1, <3>3 DEF ScanAt
    <2> QED
      BY <2>1 DEF WalkedTableLives
  <1> QED
    BY <1>1, IndexInvariant, PTL

(* A frame that has looked at all clauses was given, in the order of the   *)
(* chain, each one it had to be given, although clauses were added and     *)
(* retracted and tables built, replaced and dropped while it looked.       *)
THEOREM ViewsServed ==
  Spec => []ViewServed
  <1>1. IndexInv => ViewServed
    BY DEF IndexInv, Walking, WalkAt, ViewServed
  <1> QED
    BY <1>1, IndexInvariant, PTL
=============================================================================
