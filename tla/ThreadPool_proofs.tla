-------------------------- MODULE ThreadPool_proofs --------------------------
(***************************************************************************)
(* Proofs about ThreadPool, for any clients, any workers, any size of the  *)
(* pool and of its backlog.                                                *)
(***************************************************************************)
EXTENDS ThreadPool, FiniteSetTheorems, TLAPS

Requests == [verb : Verbs, for : Clients]
Exits == [verb : {"exitted"}, from : Nat]
Message == Requests \cup Exits
Pool == [free : Nat, waiting : Seq(Clients), name : Nat, failed : Nat, strangers : Nat]
Pools == {<<>>} \cup {<<p>> : p \in Pool}

Typed ==
  /\ manager \in {"none", "running", "dead"}
  /\ mail \in Seq(Message) /\ pool \in Pools
  /\ verb \in [Clients -> Verbs]
  /\ serves \in [Workers -> Nat]
  /\ pools \in Nat /\ faults \in Nat

(* Only a manager that runs has messages and a pool. *)
Running == manager # "running" => mail = <<>> /\ pool = <<>>

(* Pools are told apart by when they were created. *)
Named ==
  /\ pool # <<>> => pool[1].name \in 1..pools
  /\ \A w \in Workers : serves[w] <= pools
  /\ \A k \in DOMAIN mail : mail[k].verb = "exitted" => mail[k].from \in 1..pools

IInv == Typed /\ Running /\ Named /\ SlotsExact

USE PoolAssumption
-----------------------------------------------------------------------------
(* What of a queue is in a set, counted as the queue grows and shrinks. *)

Hits(m, S) == {k \in DOMAIN m : m[k] \in S}

LEMMA HitsFinite ==
  ASSUME NEW T, NEW m \in Seq(T), NEW S
  PROVE  IsFiniteSet(Hits(m, S)) /\ Cardinality(Hits(m, S)) \in Nat
  <1>1. IsFiniteSet(1..Len(m))
    BY FS_Interval
  <1>2. Hits(m, S) \in SUBSET (1..Len(m))
    BY DEF Hits
  <1> QED BY <1>1, <1>2, FS_Subset, FS_CardinalityType

LEMMA HitsAppend ==
  ASSUME NEW T, NEW m \in Seq(T), NEW x \in T, NEW S
  PROVE  Cardinality(Hits(Append(m, x), S))
           = Cardinality(Hits(m, S)) + (IF x \in S THEN 1 ELSE 0)
  <1>1. IsFiniteSet(Hits(m, S)) /\ Cardinality(Hits(m, S)) \in Nat
    BY HitsFinite
  <1>2. Len(m) + 1 \notin Hits(m, S)
    BY DEF Hits
  <1>3. Hits(Append(m, x), S) = IF x \in S THEN Hits(m, S) \cup {Len(m) + 1} ELSE Hits(m, S)
    BY DEF Hits
  <1>4. CASE x \in S
    BY <1>1, <1>2, <1>3, <1>4, FS_AddElement
  <1>5. CASE x \notin S
    BY <1>1, <1>3, <1>5
  <1> QED BY <1>4, <1>5

LEMMA HitsTail ==
  ASSUME NEW T, NEW m \in Seq(T), m # <<>>, NEW S
  PROVE  Cardinality(Hits(Tail(m), S))
           = Cardinality(Hits(m, S)) - (IF Head(m) \in S THEN 1 ELSE 0)
  <1> DEFINE H == Hits(m, S) \ {1}
             f == [k \in H |-> k - 1]
  <1>1. IsFiniteSet(Hits(m, S)) /\ Cardinality(Hits(m, S)) \in Nat
    BY HitsFinite
  <1>2. Cardinality(H) = Cardinality(Hits(m, S)) - (IF Head(m) \in S THEN 1 ELSE 0)
        /\ IsFiniteSet(H)
    <2>1. 1 \in Hits(m, S) <=> Head(m) \in S
      BY DEF Hits
    <2> QED BY <1>1, <2>1, FS_RemoveElement
  <1>3. ExistsBijection(H, Hits(Tail(m), S))
    <2>1. Tail(m) \in Seq(T) /\ Len(Tail(m)) = Len(m) - 1
          /\ \A k \in 1..Len(m) - 1 : Tail(m)[k] = m[k + 1]
      OBVIOUS
    <2>2. f \in [H -> Hits(Tail(m), S)]
      BY <2>1 DEF Hits
    <2>3. \A j, k \in H : f[j] = f[k] => j = k
      BY DEF Hits
    <2>4. \A j \in Hits(Tail(m), S) : \E k \in H : f[k] = j
      <3> TAKE j \in Hits(Tail(m), S)
      <3>1. j \in 1..Len(m) - 1 /\ Tail(m)[j] \in S
        BY <2>1 DEF Hits
      <3>2. j + 1 \in 1..Len(m) /\ j + 1 # 1 /\ m[j + 1] \in S
        BY <2>1, <3>1
      <3>3. j + 1 \in H
        BY <3>2 DEF Hits
      <3>4. f[j + 1] = j
        <4>1. f[j + 1] = (j + 1) - 1
          <5> HIDE DEF H
          <5> QED BY <3>3
        <4> QED BY <3>1, <4>1
      <3> QED BY <3>3, <3>4
    <2> HIDE DEF H, f
    <2> QED BY <2>2, <2>3, <2>4 DEF ExistsBijection, Bijection, Injection, Surjection, IsInjective
  <1> QED BY <1>2, <1>3, FS_Bijection

(* The threads of a pool, counted as one comes or goes. *)
Runs(s, n) == {w \in Workers : s[w] = n}

LEMMA RunsFinite ==
  ASSUME NEW s, NEW n
  PROVE  IsFiniteSet(Runs(s, n)) /\ Cardinality(Runs(s, n)) \in Nat
  BY FS_Subset, FS_CardinalityType DEF Runs

LEMMA OneMore ==
  ASSUME NEW R, NEW Q, NEW w, IsFiniteSet(R), w \notin R, Q = R \cup {w}
  PROVE  /\ Cardinality(R) \in Nat /\ IsFiniteSet(Q)
         /\ Cardinality(Q) = Cardinality(R) + 1
  BY FS_AddElement, FS_CardinalityType

LEMMA Starts ==
  ASSUME NEW s \in [Workers -> Nat], NEW w \in Workers, NEW n \in Nat, s[w] # n
  PROVE  Cardinality(Runs([s EXCEPT ![w] = n], n)) = Cardinality(Runs(s, n)) + 1
  <1> DEFINE R == Runs(s, n)
             Q == Runs([s EXCEPT ![w] = n], n)
  <1>1. IsFiniteSet(R)
    BY RunsFinite
  <1>2. w \notin R /\ Q = R \cup {w}
    BY DEF Runs
  <1> HIDE DEF R, Q
  <1>3. Cardinality(Q) = Cardinality(R) + 1
    BY <1>1, <1>2, OneMore
  <1> QED BY <1>3 DEF R, Q

LEMMA Stops ==
  ASSUME NEW s \in [Workers -> Nat], NEW w \in Workers, NEW n \in Nat, s[w] = n, n # 0
  PROVE  Cardinality(Runs(s, n)) = Cardinality(Runs([s EXCEPT ![w] = 0], n)) + 1
  <1> DEFINE R == Runs([s EXCEPT ![w] = 0], n)
             Q == Runs(s, n)
  <1>1. IsFiniteSet(R)
    BY RunsFinite
  <1>2. w \notin R /\ Q = R \cup {w}
    BY DEF Runs
  <1> HIDE DEF R, Q
  <1>3. Cardinality(Q) = Cardinality(R) + 1
    BY <1>1, <1>2, OneMore
  <1> QED BY <1>3 DEF R, Q

-----------------------------------------------------------------------------
(* The slots of a pool p when the queue is m and the threads run in s. *)

ExitsFrom(n) == {x \in Message : x.verb = "exitted" /\ x.from = n}

Slots(p, m, s) ==
  p.free + Cardinality(Runs(s, p.name)) + Cardinality(Hits(m, ExitsFrom(p.name))) + p.failed

Exact(p, m, s) ==
  /\ Slots(p, m, s) = Size + p.strangers
  /\ p.waiting # <<>> => p.free = 0

LEMMA SlotsExactness ==
  ASSUME Typed
  PROVE  SlotsExact <=> (pool # <<>> => Exact(pool[1], mail, serves))
  <1>1. \A n : Hits(mail, ExitsFrom(n))
                 = {k \in DOMAIN mail : mail[k].verb = "exitted" /\ mail[k].from = n}
    BY DEF Typed, Hits, ExitsFrom
  <1> QED BY <1>1 DEF SlotsExact, Busy, Leaving, Exact, Slots, Runs

(* What the members of the invariant say of the state after a step. *)
LEMMA InvariantOf ==
  ASSUME Typed', Running', Named',
         pool' # <<>> => Exact(pool'[1], mail', serves')
  PROVE  IInv'
  <1>1. \A n : Hits(mail', ExitsFrom(n))
                 = {k \in DOMAIN mail' : mail'[k].verb = "exitted" /\ mail'[k].from = n}
    BY DEF Typed, Hits, ExitsFrom
  <1>2. SlotsExact'
    BY <1>1 DEF SlotsExact, Busy, Leaving, Exact, Slots, Runs
  <1> QED BY <1>2 DEF IInv

(* A message that is not an exit leaves the slots alone as it comes. *)
LEMMA SlotsAppend ==
  ASSUME NEW p \in Pool, NEW m \in Seq(Message), NEW x \in Message, NEW s,
         x \notin ExitsFrom(p.name), Exact(p, m, s)
  PROVE  Exact(p, Append(m, x), s)
  <1>1. Cardinality(Hits(Append(m, x), ExitsFrom(p.name))) = Cardinality(Hits(m, ExitsFrom(p.name)))
    BY HitsAppend, HitsFinite
  <1> QED BY <1>1 DEF Exact, Slots

(* A thread that ends moves its slot to the message about it. *)
LEMMA SlotsEnd ==
  ASSUME NEW p \in Pool, p.name # 0, NEW m \in Seq(Message), NEW s \in [Workers -> Nat],
         NEW w \in Workers, s[w] # 0, NEW x \in Message, x.verb = "exitted", x.from = s[w],
         Exact(p, m, s)
  PROVE  Exact(p, Append(m, x), [s EXCEPT ![w] = 0])
  <1> DEFINE n == p.name
             t == [s EXCEPT ![w] = 0]
  <1>1. n \in Nat /\ n # 0 /\ (x \in ExitsFrom(n) <=> s[w] = n)
    BY DEF Pool, ExitsFrom
  <1>2. /\ Cardinality(Runs(s, n)) \in Nat /\ Cardinality(Runs(t, n)) \in Nat
        /\ Cardinality(Hits(m, ExitsFrom(n))) \in Nat
    BY RunsFinite, HitsFinite
  <1>3. CASE s[w] = n
    <2>1. Cardinality(Runs(s, n)) = Cardinality(Runs(t, n)) + 1
      <3> HIDE DEF n
      <3> QED BY <1>1, <1>3, Stops
    <2>2. Cardinality(Hits(Append(m, x), ExitsFrom(n))) = Cardinality(Hits(m, ExitsFrom(n))) + 1
      <3> HIDE DEF n
      <3> QED BY <1>1, <1>3, HitsAppend
    <2>3. Slots(p, Append(m, x), t) = Slots(p, m, s)
      <3> HIDE DEF t
      <3> QED BY <1>2, <2>1, <2>2 DEF Slots, Pool
    <2> QED BY <2>3 DEF Exact
  <1>4. CASE s[w] # n
    <2>1. Runs(t, n) = Runs(s, n)
      BY <1>1, <1>4 DEF Runs
    <2>2. Exact(p, m, t)
      BY <2>1 DEF Exact, Slots
    <2> QED BY <1>1, <1>4, <2>2, SlotsAppend
  <1> QED BY <1>3, <1>4

(* And as it goes. *)
LEMMA SlotsTail ==
  ASSUME NEW p \in Pool, NEW m \in Seq(Message), m # <<>>, NEW s,
         Head(m) \notin ExitsFrom(p.name), Exact(p, m, s)
  PROVE  Exact(p, Tail(m), s)
  <1>1. Cardinality(Hits(Tail(m), ExitsFrom(p.name))) = Cardinality(Hits(m, ExitsFrom(p.name)))
    BY HitsTail, HitsFinite
  <1> QED BY <1>1 DEF Exact, Slots

LEMMA MoveOne ==
  ASSUME NEW a \in Int, NEW b \in Int, NEW c \in Int, NEW d \in Int
  PROVE  (a - 1) + b + c + (d + 1) = a + b + c + d
  OBVIOUS

(* A creation moves a slot from the free ones to a thread or to the lost. *)
LEMMA SlotsCreate ==
  ASSUME NEW p \in Pool, p.name # 0, p.free > 0, p.waiting # <<>> => p.free = 1,
         NEW m \in Seq(Message), NEW s \in [Workers -> Nat],
         Slots(p, m, s) = Size + p.strangers
  PROVE  /\ \A w \in Workers : s[w] = 0 =>
              Exact([p EXCEPT !.free = @ - 1], m, [s EXCEPT ![w] = p.name])
         /\ Exact([p EXCEPT !.free = @ - 1, !.failed = @ + 1], m, s)
  <1>1. Cardinality(Runs(s, p.name)) \in Nat /\ Cardinality(Hits(m, ExitsFrom(p.name))) \in Nat
    BY RunsFinite, HitsFinite
  <1>2. ASSUME NEW w \in Workers, s[w] = 0
        PROVE  Exact([p EXCEPT !.free = @ - 1], m, [s EXCEPT ![w] = p.name])
    <2> DEFINE n == p.name
               t == [s EXCEPT ![w] = n]
               q == [p EXCEPT !.free = @ - 1]
    <2>1. n \in Nat /\ s[w] # n
      BY <1>2 DEF Pool
    <2>2. Cardinality(Runs(t, n)) = Cardinality(Runs(s, n)) + 1
      <3> HIDE DEF n
      <3> QED BY <2>1, Starts
    <2>3. q.name = n /\ q.free = p.free - 1 /\ q.failed = p.failed
          /\ q.waiting = p.waiting /\ q.strangers = p.strangers
      BY DEF Pool
    <2> HIDE DEF q, t
    <2>4. Exact(q, m, t)
      BY <1>1, <2>2, <2>3 DEF Exact, Slots, Pool
    <2> QED BY <2>4 DEF q, t
  <1>3. Exact([p EXCEPT !.free = @ - 1, !.failed = @ + 1], m, s)
    <2> DEFINE q == [p EXCEPT !.free = @ - 1, !.failed = @ + 1]
    <2>1. q.name = p.name /\ q.free = p.free - 1 /\ q.failed = p.failed + 1
          /\ q.waiting = p.waiting /\ q.strangers = p.strangers
      BY DEF Pool
    <2>2. p.free \in Nat /\ p.failed \in Nat /\ p.strangers \in Nat
      BY DEF Pool
    <2> HIDE DEF q
    <2>3. Slots(q, m, s) = Slots(p, m, s)
      <3> DEFINE a == p.free
                 b == Cardinality(Runs(s, p.name))
                 c == Cardinality(Hits(m, ExitsFrom(p.name)))
                 d == p.failed
      <3>1. Slots(q, m, s) = (a - 1) + b + c + (d + 1)
        BY <2>1 DEF Slots
      <3>2. Slots(p, m, s) = a + b + c + d
        BY DEF Slots
      <3>3. a \in Int /\ b \in Int /\ c \in Int /\ d \in Int
        BY <1>1, <2>2
      <3> HIDE DEF a, b, c, d
      <3>4. (a - 1) + b + c + (d + 1) = a + b + c + d
        BY <3>3, MoveOne
      <3> QED BY <3>1, <3>2, <3>4, Zenon
    <2>4. Exact(q, m, s)
      BY <2>1, <2>3 DEF Exact
    <2> QED BY <2>4 DEF q
  <1> QED BY <1>2, <1>3
-----------------------------------------------------------------------------
(* A reply: the pool becomes p, or the manager and the pool are gone. *)
LEMMA ReplyKeeps ==
  ASSUME IInv, manager = "running", mail # <<>>,
         NEW c, NEW reply, NEW p \in Pools, Reply(c, reply, p),
         UNCHANGED verb, serves' \in [Workers -> Nat], faults' \in Nat,
         pools' \in Nat, pools <= pools', \A w \in Workers : serves'[w] <= pools',
         p # <<>> => p[1].name \in 1..pools' /\ Exact(p[1], Tail(mail), serves')
  PROVE  IInv'
  <1>1. CASE Answer(c, reply, p)
    <2>1. mail' = Tail(mail) /\ pool' = p /\ manager' = manager
      BY <1>1 DEF Answer
    <2>2. /\ mail' \in Seq(Message)
          /\ \A k \in DOMAIN mail' : k + 1 \in DOMAIN mail /\ mail'[k] = mail[k + 1]
      BY <2>1 DEF IInv, Typed
    <2>3. Typed' /\ Running'
      BY <2>1, <2>2 DEF IInv, Typed, Running
    <2>4. Named'
      BY <2>1, <2>2 DEF IInv, Typed, Named
    <2> QED BY <2>1, <2>3, <2>4, InvariantOf
  <1>2. CASE Die(c, p)
    <2>1. mail' = <<>> /\ pool' = <<>> /\ manager' = "dead"
      BY <1>2 DEF Die
    <2>2. Typed' /\ Running' /\ Named'
      BY <2>1 DEF IInv, Typed, Running, Named, Pools
    <2> QED BY <2>1, <2>2, InvariantOf
  <1> QED BY <1>1, <1>2 DEF Reply

LEMMA CreateThreadKeeps ==
  ASSUME IInv, manager = "running", mail # <<>>, NEW c, NEW p \in Pool,
         CreateThread(c, p), UNCHANGED <<verb, pools>>,
         p.name \in 1..pools, p.free > 0, p.waiting # <<>> => p.free = 1,
         Slots(p, Tail(mail), serves) = Size + p.strangers
  PROVE  IInv'
  <1>1. Tail(mail) \in Seq(Message) /\ serves \in [Workers -> Nat]
        /\ pools \in Nat /\ p.name # 0 /\ \A w \in Workers : serves[w] <= pools
    BY DEF IInv, Typed, Named
  <1>2. CASE /\ \E w \in Workers : serves[w] = 0 /\ serves' = [serves EXCEPT ![w] = p.name]
             /\ Reply(c, "id", << [p EXCEPT !.free = @ - 1] >>)
             /\ UNCHANGED faults
    <2>1. PICK w \in Workers : serves[w] = 0 /\ serves' = [serves EXCEPT ![w] = p.name]
      BY <1>2
    <2> DEFINE q == [p EXCEPT !.free = @ - 1]
    <2>2. q \in Pool /\ q.name = p.name /\ <<q>> \in Pools
      <3>1. p.free - 1 \in Nat
        BY ONLY p \in Pool, p.free > 0 DEF Pool
      <3>2. q \in Pool
        BY ONLY p \in Pool, <3>1 DEF Pool
      <3>3. q.name = p.name
        BY ONLY p \in Pool DEF Pool
      <3> HIDE DEF q
      <3> QED BY ONLY <3>2, <3>3 DEF Pools
    <2>3. Exact(q, Tail(mail), serves')
      BY <1>1, <2>1, SlotsCreate
    <2>4. serves' \in [Workers -> Nat] /\ \A v \in Workers : serves'[v] <= pools
      BY <1>1, <2>1 DEF Pool
    <2>5. faults' \in Nat
      BY <1>2 DEF IInv, Typed
    <2> DEFINE r == <<q>>
    <2>6. r \in Pools /\ r[1] = q /\ Reply(c, "id", r)
      BY <1>2, <2>2
    <2> HIDE DEF q, r
    <2> QED BY <1>1, <2>2, <2>3, <2>4, <2>5, <2>6, ReplyKeeps
  <1>3. CASE /\ faults > 0 /\ faults' = faults - 1
             /\ Reply(c, "error", << [p EXCEPT !.free = @ - 1, !.failed = @ + 1] >>)
             /\ UNCHANGED serves
    <2> DEFINE q == [p EXCEPT !.free = @ - 1, !.failed = @ + 1]
    <2>1. q \in Pool /\ q.name = p.name /\ <<q>> \in Pools
      <3>1. p.free - 1 \in Nat /\ p.failed + 1 \in Nat
        BY DEF Pool
      <3>2. q \in Pool
        BY <3>1 DEF Pool
      <3>3. q.name = p.name
        BY DEF Pool
      <3> QED BY <3>2, <3>3 DEF Pools
    <2>2. Exact(q, Tail(mail), serves)
      BY <1>1, SlotsCreate
    <2>3. faults' \in Nat
      BY <1>3 DEF IInv, Typed
    <2> DEFINE r == <<q>>
    <2>4. r \in Pools /\ r[1] = q /\ Reply(c, "error", r)
      BY <1>3, <2>1
    <2> HIDE DEF q, r
    <2> QED BY <1>1, <1>3, <2>1, <2>2, <2>3, <2>4, ReplyKeeps
  <1> QED BY <1>2, <1>3 DEF CreateThread
-----------------------------------------------------------------------------
(* The steps of the clients. *)

(* What the slots are made of stays as it is. *)
LEMMA QuietKeeps ==
  ASSUME IInv, UNCHANGED <<mail, pool, serves, faults, pools>>,
         manager' \in {"none", "running", "dead"},
         manager' # "running" => manager # "running",
         verb' \in [Clients -> Verbs]
  PROVE  IInv'
  <1>1. Typed' /\ Running' /\ Named'
    BY DEF IInv, Typed, Running, Named
  <1>2. pool' # <<>> => Exact(pool'[1], mail', serves')
    BY SlotsExactness DEF IInv
  <1> QED BY <1>1, <1>2, InvariantOf

LEMMA ClientKeeps ==
  ASSUME IInv, NEW c \in Clients,
         \/ \E what \in Verbs : Call(c, what)
         \/ Check(c) \/ Join(c) \/ Start(c) \/ Launch(c) \/ Lazily(c) \/ Receive(c)
         \/ GiveUp(c) \/ Exit(c)
  PROVE  IInv'
  <1>1. verb \in [Clients -> Verbs] /\ manager \in {"none", "running", "dead"}
    BY DEF IInv, Typed
  <1>2. Return(c) => verb' \in [Clients -> Verbs]
    BY <1>1 DEF Return, Verbs
  <1>3. CASE \E what \in Verbs : Call(c, what)
    BY <1>1, <1>3, QuietKeeps DEF Call, managerVars
  <1>4. CASE Check(c)
    BY <1>1, <1>4, QuietKeeps DEF Check, managerVars
  <1>5. CASE Join(c)
    BY <1>1, <1>2, <1>5, QuietKeeps DEF Join
  <1>6. CASE Start(c)
    BY <1>1, <1>6, QuietKeeps DEF Start, managerVars
  <1>7. CASE Launch(c)
    BY <1>1, <1>7, QuietKeeps DEF Launch
  <1>8. CASE Lazily(c)
    BY <1>1, <1>8, QuietKeeps DEF Lazily, managerVars
  <1>9. CASE Receive(c)
    BY <1>1, <1>2, <1>9, QuietKeeps DEF Receive, Ask, Again, managerVars
  <1>10. CASE GiveUp(c)
    BY <1>1, <1>2, <1>10, QuietKeeps DEF GiveUp, managerVars
  <1>11. CASE Exit(c)
    BY <1>1, <1>11, QuietKeeps DEF Exit, managerVars
  <1> QED BY <1>3, <1>4, <1>5, <1>6, <1>7, <1>8, <1>9, <1>10, <1>11

(* A message that comes to a manager that runs. *)
LEMMA MailKeeps ==
  ASSUME IInv, manager = "running", NEW x \in Message, mail' = Append(mail, x),
         UNCHANGED <<manager, pool, faults, pools>>,
         serves' \in [Workers -> Nat], verb' \in [Clients -> Verbs],
         \A w \in Workers : serves'[w] <= pools,
         x.verb = "exitted" => x.from \in 1..pools,
         pool # <<>> => Exact(pool[1], Append(mail, x), serves')
  PROVE  IInv'
  <1>1. Typed' /\ Running'
    BY DEF IInv, Typed, Running
  <1>2. Named'
    BY DEF IInv, Typed, Named
  <1> QED BY <1>1, <1>2, InvariantOf

LEMMA SendKeeps ==
  ASSUME IInv, NEW c \in Clients, Send(c)
  PROVE  IInv'
  <1>1. CASE manager = "running" /\ mail' = Append(mail, [verb |-> Request(c), for |-> c])
             /\ UNCHANGED <<verb, manager, pool, serves, faults, pools>>
    <2> DEFINE x == [verb |-> Request(c), for |-> c]
    <2>1. Request(c) \in Verbs
      BY DEF IInv, Typed, Request, Verbs
    <2>2. x \in Message /\ x.verb # "exitted"
      BY <2>1 DEF Message, Requests, Verbs
    <2> HIDE DEF x
    <2>3. pool # <<>> => Exact(pool[1], Append(mail, x), serves)
      <3>1. /\ pool # <<>> => pool[1] \in Pool
            /\ pool # <<>> => Exact(pool[1], mail, serves)
            /\ mail \in Seq(Message)
        BY SlotsExactness DEF IInv, Typed, Pools
      <3>2. \A n : x \notin ExitsFrom(n)
        BY <2>2 DEF ExitsFrom
      <3> QED BY <2>2, <3>1, <3>2, SlotsAppend
    <2> QED BY <1>1, <2>2, <2>3, MailKeeps DEF IInv, Typed, Named, x
  <1>2. CASE manager # "running" /\ Return(c)
             /\ UNCHANGED <<mail, manager, pool, serves, faults, pools>>
    <2>1. verb' \in [Clients -> Verbs]
      BY <1>2 DEF IInv, Typed, Return, Verbs
    <2> QED BY <1>2, <2>1, QuietKeeps DEF IInv, Typed
  <1> QED BY <1>1, <1>2 DEF Send

(* A thread leaves its slot and tells the manager. *)
LEMMA EndKeeps ==
  ASSUME IInv, NEW w \in Workers, End(w)
  PROVE  IInv'
  <1> DEFINE n == serves[w]
             t == [serves EXCEPT ![w] = 0]
             x == [verb |-> "exitted", from |-> n]
  <1>1. /\ n \in 1..pools /\ serves \in [Workers -> Nat] /\ pools \in Nat
        /\ t \in [Workers -> Nat] /\ \A v \in Workers : t[v] <= pools
        /\ serves' = t /\ verb' = verb /\ UNCHANGED <<manager, pool, faults, pools>>
    BY DEF IInv, Typed, Named, End, clientVars
  <1>2. CASE manager = "running"
    <2>1. mail' = Append(mail, x)
      BY <1>2 DEF End
    <2>2. x \in Message /\ x.verb = "exitted" /\ x.from = n
      BY <1>1 DEF Message, Exits
    <2>3. pool # <<>> => Exact(pool[1], Append(mail, x), t)
      <3>1. /\ pool # <<>> => pool[1] \in Pool /\ pool[1].name # 0
            /\ pool # <<>> => Exact(pool[1], mail, serves)
            /\ mail \in Seq(Message) /\ serves[w] # 0
        BY <1>1, SlotsExactness DEF IInv, Typed, Named, Pools
      <3> HIDE DEF x
      <3> QED BY <1>1, <2>2, <3>1, SlotsEnd
    <2> HIDE DEF n, t, x
    <2> QED BY <1>1, <1>2, <2>1, <2>2, <2>3, MailKeeps DEF IInv, Typed
  <1>3. CASE manager # "running"
    <2>1. mail' = mail /\ pool = <<>> /\ mail = <<>>
      BY <1>3 DEF End, IInv, Running
    <2>2. Typed' /\ Running' /\ Named'
      BY <1>1, <2>1 DEF IInv, Typed, Running, Named
    <2> QED BY <1>1, <2>1, <2>2, InvariantOf
  <1> QED BY <1>2, <1>3
-----------------------------------------------------------------------------
(* The steps of the manager. *)

(* A request that is taken leaves the slots of the pool alone. *)
LEMMA TakenKeeps ==
  ASSUME IInv, Takes(Verbs)
  PROVE  /\ manager = "running" /\ mail # <<>> /\ Tail(mail) \in Seq(Message)
         /\ pools \in Nat /\ faults \in Nat /\ serves \in [Workers -> Nat]
         /\ \A w \in Workers : serves[w] <= pools
         /\ pool \in Pools
         /\ pool # <<>> => /\ pool[1] \in Pool /\ pool = <<pool[1]>>
                           /\ pool[1].name \in 1..pools /\ pool[1].name # 0
                           /\ Exact(pool[1], Tail(mail), serves)
  <1>1. mail \in Seq(Message) /\ mail # <<>> /\ Head(mail).verb # "exitted"
    BY DEF Takes, IInv, Typed, Verbs
  <1>2. \A n : Head(mail) \notin ExitsFrom(n)
    BY <1>1 DEF ExitsFrom
  <1>3. /\ pool # <<>> => pool[1] \in Pool
        /\ pool # <<>> => Exact(pool[1], mail, serves)
    BY SlotsExactness DEF IInv, Typed, Pools
  <1>4. pool # <<>> => Exact(pool[1], Tail(mail), serves)
    BY <1>1, <1>2, <1>3, SlotsTail
  <1> QED BY <1>1, <1>3, <1>4 DEF Takes, IInv, Typed, Named, Pools

LEMMA CreatePoolKeeps ==
  ASSUME IInv, CreatePool
  PROVE  IInv'
  <1> DEFINE c == Head(mail).for
             q == [free |-> Size, waiting |-> <<>>, name |-> pools + 1,
                   failed |-> 0, strangers |-> 0]
             r == <<q>>
  <1>1. Takes(Verbs) /\ verb' = verb /\ serves' = serves /\ faults' = faults
    BY DEF CreatePool, Takes, Verbs, clientVars
  <1>2. CASE pool = <<>> /\ pools' = pools + 1 /\ Reply(c, "true", r)
    <2>1. q \in Pool /\ r \in Pools /\ r[1] = q /\ q.name = pools + 1
      <3>1. pools + 1 \in Nat /\ <<>> \in Seq(Clients)
        BY DEF IInv, Typed
      <3>2. q \in Pool
        BY <3>1 DEF Pool
      <3> QED BY <3>2 DEF Pools
    <2>2. Exact(q, Tail(mail), serves)
      <3>1. Runs(serves, pools + 1) = {}
        BY <1>1, TakenKeeps DEF Runs
      <3>2. Hits(Tail(mail), ExitsFrom(pools + 1)) = {}
        <4>1. \A k \in DOMAIN Tail(mail) : k + 1 \in DOMAIN mail /\ Tail(mail)[k] = mail[k + 1]
          BY <1>1, TakenKeeps DEF IInv, Typed
        <4>2. pools \in Nat
          BY DEF IInv, Typed
        <4> QED BY <4>1, <4>2 DEF Hits, ExitsFrom, IInv, Named
      <3>3. Cardinality({}) = 0
        BY FS_EmptySet
      <3> QED BY <3>1, <3>2, <3>3 DEF Exact, Slots
    <2> HIDE DEF q, r, c
    <2> QED BY <1>1, <1>2, <2>1, <2>2, TakenKeeps, ReplyKeeps
  <1>3. CASE pool # <<>> /\ Reply(c, "permission", pool) /\ UNCHANGED pools
    BY <1>1, <1>3, TakenKeeps, ReplyKeeps
  <1> QED BY <1>2, <1>3 DEF CreatePool

LEMMA DestroyPoolKeeps ==
  ASSUME IInv, DestroyPool
  PROVE  IInv'
  <1> DEFINE c == Head(mail).for
  <1>1. Takes(Verbs) /\ verb' = verb /\ serves' = serves /\ faults' = faults /\ pools' = pools
    BY DEF DestroyPool, Takes, Verbs, clientVars
  <1>2. CASE Answer(c, "true", <<>>)
    <2>1. mail' = Tail(mail) /\ pool' = <<>> /\ manager' = manager
      BY <1>2 DEF Answer
    <2>2. /\ mail' \in Seq(Message)
          /\ \A k \in DOMAIN mail' : k + 1 \in DOMAIN mail /\ mail'[k] = mail[k + 1]
      BY <1>1, <2>1, TakenKeeps DEF IInv, Typed
    <2>3. Typed' /\ Running'
      BY <1>1, <2>1, <2>2, TakenKeeps DEF IInv, Typed, Running, Pools
    <2>4. Named'
      BY <1>1, <2>1, <2>2 DEF IInv, Typed, Named
    <2> QED BY <2>1, <2>3, <2>4, InvariantOf
  <1>3. CASE Die(c, pool)
    <2>1. Reply(c, "true", pool)
      BY <1>3 DEF Reply
    <2> QED BY <1>1, <2>1, TakenKeeps, ReplyKeeps
  <1>4. CASE Reply(c, "no_pool", pool)
    BY <1>1, <1>4, TakenKeeps, ReplyKeeps
  <1> QED BY <1>2, <1>3, <1>4 DEF DestroyPool

LEMMA CurrentPoolsKeeps ==
  ASSUME IInv, CurrentPools
  PROVE  IInv'
  <1>1. Takes(Verbs) /\ verb' = verb /\ serves' = serves /\ faults' = faults /\ pools' = pools
    BY DEF CurrentPools, Takes, Verbs, clientVars
  <1>2. PICK reply : Reply(Head(mail).for, reply, pool)
    BY DEF CurrentPools
  <1> QED BY <1>1, <1>2, TakenKeeps, ReplyKeeps

LEMMA CreateKeeps ==
  ASSUME IInv, Create
  PROVE  IInv'
  <1> DEFINE c == Head(mail).for
             p == pool[1]
  <1>1. Takes(Verbs) /\ verb' = verb /\ pools' = pools
    BY DEF Create, Takes, Verbs, clientVars
  <1>2. CASE pool = <<>> /\ Reply(c, "no_pool", pool) /\ UNCHANGED <<serves, faults>>
    BY <1>1, <1>2, TakenKeeps, ReplyKeeps
  <1>3. CASE pool # <<>> /\ p.free > 0 /\ CreateThread(c, p)
    <2>1. p \in Pool /\ Exact(p, Tail(mail), serves) /\ p.name \in 1..pools
      BY <1>1, <1>3, TakenKeeps
    <2>2. (p.waiting # <<>> => p.free = 1) /\ Slots(p, Tail(mail), serves) = Size + p.strangers
      BY <1>3, <2>1 DEF Exact
    <2> HIDE DEF p, c
    <2> QED BY <1>1, <1>3, <2>1, <2>2, TakenKeeps, CreateThreadKeeps
  <1>4. CASE pool # <<>> /\ p.free = 0 /\ Delay(c, Head(mail).verb, p) /\ UNCHANGED <<serves, faults>>
    <2>1. CASE Reply(c, "full", <<p>>)
      <3>1. pool = <<p>>
        BY <1>1, <1>4, TakenKeeps
      <3>2. Reply(c, "full", pool)
        BY <2>1, <3>1
      <3> QED BY <1>1, <1>4, <3>2, TakenKeeps, ReplyKeeps
    <2>2. CASE /\ pool' = << [p EXCEPT !.waiting = Append(@, c)] >>
               /\ mail' = Tail(mail) /\ UNCHANGED manager
      <3> DEFINE q == [p EXCEPT !.waiting = Append(@, c)]
      <3>1. c \in Clients
        BY <1>1 DEF IInv, Typed, Takes, Message, Requests, Exits, Verbs
      <3>2. p \in Pool /\ p.name \in 1..pools /\ Exact(p, mail', serves)
        BY <1>1, <1>4, <2>2, TakenKeeps
      <3>3. /\ q \in Pool /\ q.name = p.name /\ q.free = 0 /\ q.failed = p.failed
            /\ q.strangers = p.strangers
        <4>1. p.waiting \in Seq(Clients)
          BY <3>2 DEF Pool
        <4>2. Append(p.waiting, c) \in Seq(Clients)
          BY <3>1, <4>1
        <4> HIDE DEF p, c
        <4>3. q \in Pool
          BY <3>2, <4>2 DEF Pool
        <4> QED BY <1>4, <3>2, <4>3 DEF Pool
      <3>4. Exact(q, mail', serves)
        BY <1>4, <3>2, <3>3 DEF Exact, Slots
      <3>5. pool' # <<>> /\ pool'[1] = q /\ pool' \in Pools
        BY <2>2, <3>3 DEF Pools
      <3> HIDE DEF q, p, c
      <3>6. /\ mail' \in Seq(Message)
            /\ \A k \in DOMAIN mail' : k + 1 \in DOMAIN mail /\ mail'[k] = mail[k + 1]
        BY <1>1, <2>2, TakenKeeps DEF IInv, Typed
      <3>7. Typed' /\ Running'
        BY <1>1, <1>4, <2>2, <3>5, <3>6, TakenKeeps DEF IInv, Typed, Running
      <3>8. Named'
        BY <1>1, <1>4, <3>2, <3>3, <3>5, <3>6 DEF IInv, Typed, Named
      <3>9. Exact(pool'[1], mail', serves')
        BY <1>4, <3>4, <3>5
      <3> QED BY <3>7, <3>8, <3>9, InvariantOf
    <2> QED BY <1>4, <2>1, <2>2 DEF Delay
  <1> QED BY <1>2, <1>3, <1>4 DEF Create

(* A slot is free, and the request that waits longest may take it. *)
LEMMA ExittedKeeps ==
  ASSUME IInv, Exitted
  PROVE  IInv'
  <1> DEFINE o == pool[1]
             x == Head(mail)
             p == [o EXCEPT !.free = @ + 1,
                            !.strangers = IF x.from = o.name THEN @ ELSE @ + 1]
             q == [p EXCEPT !.waiting = Tail(@)]
  <1>1. /\ manager = "running" /\ mail # <<>> /\ mail \in Seq(Message)
        /\ x \in Message /\ x.verb = "exitted"
        /\ Tail(mail) \in Seq(Message) /\ verb' = verb /\ pools' = pools
        /\ \A k \in DOMAIN Tail(mail) : k + 1 \in DOMAIN mail /\ Tail(mail)[k] = mail[k + 1]
    BY DEF Exitted, Takes, IInv, Typed, clientVars
  <1>2. CASE /\ pool = <<>> /\ mail' = Tail(mail)
             /\ UNCHANGED <<pool, manager, serves, faults>>
    <2>1. Typed' /\ Running' /\ Named'
      BY <1>1, <1>2 DEF IInv, Typed, Running, Named
    <2> QED BY <1>2, <2>1, InvariantOf
  <1>3. ASSUME pool # <<>>
        PROVE  /\ p \in Pool /\ p.name = o.name /\ p.waiting = o.waiting /\ p.free = o.free + 1
               /\ p.name \in 1..pools
               /\ Slots(p, Tail(mail), serves) = Size + p.strangers
               /\ p.waiting # <<>> => p.free = 1
    <2>1. o \in Pool /\ Exact(o, mail, serves) /\ o.name \in 1..pools
      BY <1>3, SlotsExactness DEF IInv, Typed, Named, Pools
    <2>2. /\ p \in Pool /\ p.name = o.name /\ p.waiting = o.waiting /\ p.free = o.free + 1
          /\ p.failed = o.failed
          /\ p.strangers = o.strangers + (IF x.from = o.name THEN 0 ELSE 1)
      <3> DEFINE st == IF x.from = o.name THEN o.strangers ELSE o.strangers + 1
      <3>1. /\ o.free + 1 \in Nat /\ st \in Nat
            /\ st = o.strangers + (IF x.from = o.name THEN 0 ELSE 1)
        <4> HIDE DEF o, x
        <4> QED BY <2>1 DEF Pool
      <3>2. p = [o EXCEPT !.free = @ + 1, !.strangers = st]
        OBVIOUS
      <3> HIDE DEF p, o, x, st
      <3>3. p \in Pool
        BY <2>1, <3>1, <3>2 DEF Pool
      <3> QED BY <2>1, <3>1, <3>2, <3>3 DEF Pool
    <2>3. Cardinality(Hits(Tail(mail), ExitsFrom(o.name)))
            = Cardinality(Hits(mail, ExitsFrom(o.name))) - (IF x.from = o.name THEN 1 ELSE 0)
      <3>1. x \in ExitsFrom(o.name) <=> x.from = o.name
        BY <1>1 DEF ExitsFrom
      <3> QED BY <1>1, <3>1, HitsTail
    <2>4. /\ Cardinality(Hits(mail, ExitsFrom(o.name))) \in Nat
          /\ Cardinality(Runs(serves, o.name)) \in Nat
      BY <1>1, HitsFinite, RunsFinite
    <2> HIDE DEF p, o, x
    <2>5. o.free \in Nat /\ o.failed \in Nat /\ o.strangers \in Nat
      BY <2>1 DEF Pool
    <2>6. Slots(p, Tail(mail), serves) = Size + p.strangers
      <3> DEFINE R == Cardinality(Runs(serves, o.name))
                 H == Cardinality(Hits(mail, ExitsFrom(o.name)))
                 T == Cardinality(Hits(Tail(mail), ExitsFrom(o.name)))
      <3>1. Slots(p, Tail(mail), serves) = p.free + R + T + p.failed
        BY <2>2 DEF Slots
      <3>2. o.free + R + H + o.failed = Size + o.strangers
        BY <2>1 DEF Exact, Slots
      <3>3. /\ R \in Nat /\ H \in Nat
            /\ T = H - (IF x.from = o.name THEN 1 ELSE 0)
        BY <2>3, <2>4
      <3> HIDE DEF R, H, T
      <3> DEFINE e == IF x.from = o.name THEN 1 ELSE 0
      <3>4. /\ e \in Nat /\ T = H - e /\ p.strangers = o.strangers + (1 - e)
            /\ p.free = o.free + 1 /\ p.failed = o.failed
        BY <2>2, <2>5, <3>3
      <3> HIDE DEF e
      <3>5. p.free + R + T + p.failed = (o.free + R + H + o.failed) + (1 - e)
        BY <2>5, <3>3, <3>4
      <3>6. Size + p.strangers = (Size + o.strangers) + (1 - e)
        BY <2>5, <3>4 DEF PoolAssumption
      <3> QED BY <3>1, <3>2, <3>5, <3>6
    <2> QED BY <2>1, <2>2, <2>5, <2>6 DEF Exact
  <1>4. CASE /\ pool # <<>> /\ o.waiting = <<>> /\ mail' = Tail(mail) /\ pool' = <<p>>
             /\ UNCHANGED <<manager, serves, faults>>
    <2>1. pool' # <<>> /\ pool'[1] = p /\ pool' \in Pools
      BY <1>3, <1>4 DEF Pools
    <2>2. Exact(pool'[1], mail', serves')
      <3> HIDE DEF p, o, x
      <3> QED BY <1>3, <1>4, <2>1 DEF Exact
    <2> HIDE DEF p, o, x
    <2>3. Typed' /\ Running'
      BY <1>1, <1>4, <2>1 DEF IInv, Typed, Running
    <2>4. Named'
      BY <1>1, <1>3, <1>4, <2>1 DEF IInv, Typed, Named
    <2> QED BY <2>2, <2>3, <2>4, InvariantOf
  <1>5. CASE pool # <<>> /\ o.waiting # <<>> /\ CreateThread(Head(p.waiting), q)
    <2>1. /\ q \in Pool /\ q.name = p.name /\ q.free = 1 /\ q.strangers = p.strangers
          /\ q.failed = p.failed
      <3> HIDE DEF p, o
      <3>1. p.waiting \in Seq(Clients) /\ p.waiting # <<>>
        BY <1>3, <1>5 DEF Pool
      <3>2. Tail(p.waiting) \in Seq(Clients)
        BY <3>1
      <3> QED BY <1>3, <1>5, <3>2 DEF Pool
    <2>2. Slots(q, Tail(mail), serves) = Size + q.strangers /\ q.name \in 1..pools
      <3> HIDE DEF p, q, o, x
      <3> QED BY <1>3, <1>5, <2>1 DEF Slots
    <2> HIDE DEF p, q, o, x
    <2> QED BY <1>1, <1>5, <2>1, <2>2, CreateThreadKeeps
  <1> QED BY <1>2, <1>4, <1>5 DEF Exitted

LEMMA StepKeeps ==
  ASSUME IInv, [Next]_vars
  PROVE  IInv'
  <1>1. ASSUME UNCHANGED vars
        PROVE  IInv'
    BY <1>1, QuietKeeps DEF vars, clientVars, managerVars, IInv, Typed
  <1>2. ASSUME NEW c \in Clients,
               \/ \E what \in Verbs : Call(c, what)
               \/ ClientStep(c) \/ GiveUp(c) \/ Exit(c)
        PROVE  IInv'
    BY <1>2, ClientKeeps, SendKeeps DEF ClientStep
  <1>3. ASSUME NEW w \in Workers, End(w)
        PROVE  IInv'
    BY <1>3, EndKeeps
  <1>4. CASE ManagerStep
    BY <1>4, CreatePoolKeeps, DestroyPoolKeeps, CurrentPoolsKeeps, CreateKeeps, ExittedKeeps
       DEF ManagerStep
  <1> QED BY <1>1, <1>2, <1>3, <1>4 DEF Next

LEMMA Starting ==
  ASSUME Init
  PROVE  IInv
  BY DEF Init, IInv, Typed, Running, Named, SlotsExact, Pools, Verbs

LEMMA Inductive == Spec => []IInv
  <1>1. Init => IInv
    BY Starting
  <1>2. IInv /\ [Next]_vars => IInv'
    BY StepKeeps
  <1> QED BY <1>1, <1>2, PTL DEF Spec

(* The slots of a pool that are free, taken by its threads, on their way   *)
(* back, and lost to creations that failed, are its size and the exits of  *)
(* threads of earlier pools of its name: update_pool/3 never loses or      *)
(* doubles another one, and a request only waits while none is free.       *)
THEOREM SlotsAccounted == Spec => []SlotsExact
  <1>1. IInv => SlotsExact
    BY DEF IInv
  <1> QED BY <1>1, Inductive, PTL
-----------------------------------------------------------------------------
(***************************************************************************)
(* Proof that no request of ThreadPool is lost or answered twice, and that *)
(* no client takes the answer to an earlier request.                       *)
(***************************************************************************)

Doing == {"idle", "check", "join", "start", "launch", "send", "wait", "lazy", "exited"}
Replies == {"true", "permission", "no_pool", "no", "yes", "id", "error", "full"}

ClientTyped == pc \in [Clients -> Doing] /\ inbox \in [Clients -> Seq(Replies)]

(* Where the request of a client may be: with the manager, in the backlog  *)
(* or answered.                                                            *)
Asks(c) == {x \in Message : x.verb # "exitted" /\ x.for = c}
InMail(c, m) == Cardinality(Hits(m, Asks(c)))
InPool(c, p) == IF p = <<>> THEN 0 ELSE Cardinality(Hits(p[1].waiting, {c}))
Asked(c, m, p) == InMail(c, m) + InPool(c, p)

(* Who lost its request waits, and will. *)
LostWait == \A c \in Clients \ gaveUp : c \in lost => pc[c] = "wait"

AInv == IInv /\ ClientTyped /\ OneAnswer /\ LostWait

Settled(c, n, waits, gone) == n = (IF waits /\ ~gone THEN 1 ELSE 0) /\ (gone => waits)
-----------------------------------------------------------------------------
LEMMA AskedNat ==
  ASSUME NEW m \in Seq(Message), NEW p \in Pools, NEW c
  PROVE  /\ InMail(c, m) \in Nat /\ InPool(c, p) \in Nat
         /\ InMail(c, m) = 0 <=> \A k \in DOMAIN m : m[k] \notin Asks(c)
         /\ p # <<>> => (InPool(c, p) = 0 <=> \A k \in DOMAIN p[1].waiting : p[1].waiting[k] # c)
  <1>1. /\ InMail(c, m) \in Nat
        /\ InMail(c, m) = 0 <=> \A k \in DOMAIN m : m[k] \notin Asks(c)
    <2>1. IsFiniteSet(Hits(m, Asks(c))) /\ InMail(c, m) \in Nat
      BY HitsFinite DEF InMail
    <2>2. InMail(c, m) = 0 <=> Hits(m, Asks(c)) = {}
      BY <2>1, FS_EmptySet DEF InMail
    <2> QED BY <2>1, <2>2 DEF Hits
  <1>2. CASE p # <<>>
    <2>1. p[1].waiting \in Seq(Clients)
      BY <1>2 DEF Pools, Pool
    <2>2. IsFiniteSet(Hits(p[1].waiting, {c})) /\ Cardinality(Hits(p[1].waiting, {c})) \in Nat
      BY <2>1, HitsFinite
    <2>3. Cardinality(Hits(p[1].waiting, {c})) = 0 <=> Hits(p[1].waiting, {c}) = {}
      BY <2>2, FS_EmptySet
    <2> QED BY <1>1, <1>2, <2>2, <2>3 DEF Hits, InPool
  <1>3. CASE p = <<>>
    BY <1>1, <1>3 DEF InPool
  <1> QED BY <1>2, <1>3

LEMMA PlacesAsked ==
  ASSUME Typed, NEW c
  PROVE  Places(c) = Asked(c, mail, pool) + Len(inbox[c])
  <1>1. Hits(mail, Asks(c)) = {k \in DOMAIN mail : mail[k].verb # "exitted" /\ mail[k].for = c}
    BY DEF Typed, Hits, Asks
  <1>2. pool # <<>> =>
          Hits(pool[1].waiting, {c}) = {k \in DOMAIN pool[1].waiting : pool[1].waiting[k] = c}
    BY DEF Hits
  <1> QED BY <1>1, <1>2 DEF Places, Asked, InMail, InPool

LEMMA PlacesAskedNext ==
  ASSUME Typed', NEW c
  PROVE  Places(c)' = Asked(c, mail', pool') + Len(inbox'[c])
  <1>1. Hits(mail', Asks(c)) = {k \in DOMAIN mail' : mail'[k].verb # "exitted" /\ mail'[k].for = c}
    BY DEF Typed, Hits, Asks
  <1>2. pool' # <<>> =>
          Hits(pool'[1].waiting, {c}) = {k \in DOMAIN pool'[1].waiting : pool'[1].waiting[k] = c}
    BY DEF Hits
  <1> QED BY <1>1, <1>2 DEF Places, Asked, InMail, InPool

(* The invariant, client by client. *)
LEMMA SettledNow ==
  ASSUME AInv
  PROVE  \A c \in Clients \ gaveUp :
           Settled(c, Asked(c, mail, pool) + Len(inbox[c]), pc[c] = "wait", c \in lost)
  BY PlacesAsked DEF AInv, IInv, OneAnswer, LostWait, Settled

LEMMA SettledNext ==
  ASSUME IInv', ClientTyped',
         \A c \in Clients \ gaveUp' :
           Settled(c, Asked(c, mail', pool') + Len(inbox'[c]), pc'[c] = "wait", c \in lost')
  PROVE  AInv'
  <1>1. Typed'
    BY DEF IInv
  <1>2. OneAnswer'
    BY <1>1, PlacesAskedNext DEF OneAnswer, Settled
  <1>3. LostWait'
    BY DEF LostWait, Settled
  <1> QED BY <1>2, <1>3 DEF AInv
-----------------------------------------------------------------------------
(* The steps of the clients. *)

LEMMA QuietSettles ==
  ASSUME AInv, IInv', UNCHANGED <<mail, pool, inbox, lost, gaveUp>>,
         pc' \in [Clients -> Doing],
         \A c \in Clients : pc'[c] = "wait" <=> pc[c] = "wait"
  PROVE  AInv'
  <1>1. ClientTyped'
    BY DEF AInv, ClientTyped
  <1>2. \A c \in Clients \ gaveUp' :
          Settled(c, Asked(c, mail', pool') + Len(inbox'[c]), pc'[c] = "wait", c \in lost')
    BY SettledNow DEF Settled
  <1> QED BY <1>1, <1>2, SettledNext

LEMMA GotoQuiet ==
  ASSUME ClientTyped, NEW c \in Clients, NEW next \in Doing, Goto(c, next),
         pc[c] # "wait", next # "wait"
  PROVE  /\ pc' \in [Clients -> Doing]
         /\ \A u \in Clients : pc'[u] = "wait" <=> pc[u] = "wait"
  BY DEF Goto, ClientTyped

LEMMA StillQuiet ==
  ASSUME AInv, IInv', NEW c \in Clients,
         \/ \E what \in Verbs : Call(c, what)
         \/ Check(c) \/ Join(c) \/ Start(c) \/ Launch(c) \/ Lazily(c)
  PROVE  AInv'
  <1>1. ClientTyped
    BY DEF AInv
  <1>2. UNCHANGED <<mail, pool, inbox, lost, gaveUp>> /\ pc[c] # "wait"
    BY DEF Call, Check, Join, Start, Launch, Lazily, managerVars
  <1>3. \E next \in Doing : Goto(c, next) /\ next # "wait"
    <2>1. \E next \in {"check", "send", "join", "launch", "start", "idle"} : Goto(c, next)
      BY DEF Call, Check, Join, Start, Launch, Lazily, Ask, Return
    <2> QED BY <2>1 DEF Doing
  <1>4. PICK next \in Doing : Goto(c, next) /\ next # "wait"
    BY <1>3
  <1>5. /\ pc' \in [Clients -> Doing]
        /\ \A u \in Clients : pc'[u] = "wait" <=> pc[u] = "wait"
    BY <1>1, <1>2, <1>4, GotoQuiet
  <1> QED BY <1>2, <1>5, QuietSettles

(* Who sends waits, and had no request before. *)
LEMMA SendSettles ==
  ASSUME AInv, IInv', NEW c \in Clients, Send(c)
  PROVE  AInv'
  <1>1. CASE /\ Goto(c, "wait")
             /\ mail' = Append(mail, [verb |-> Request(c), for |-> c])
             /\ UNCHANGED <<pool, inbox, lost, gaveUp>>
    <2> DEFINE x == [verb |-> Request(c), for |-> c]
    <2>1. x \in Message /\ x.verb # "exitted" /\ x.for = c
      <3>1. Request(c) \in Verbs
        BY DEF AInv, IInv, Typed, Request, Verbs
      <3> QED BY <3>1 DEF Message, Requests, Verbs
    <2>2. ClientTyped'
      BY <1>1 DEF AInv, ClientTyped, Goto, Doing
    <2>3. ASSUME NEW u \in Clients \ gaveUp'
          PROVE  Settled(u, Asked(u, mail', pool') + Len(inbox'[u]), pc'[u] = "wait", u \in lost')
      <3> HIDE DEF x
      <3>1. Settled(u, Asked(u, mail, pool) + Len(inbox[u]), pc[u] = "wait", u \in lost)
        BY <1>1, SettledNow
      <3>2. mail \in Seq(Message) /\ pool \in Pools /\ Len(inbox[u]) \in Nat
        BY DEF AInv, IInv, Typed, ClientTyped
      <3>3. InMail(u, mail') = InMail(u, mail) + (IF u = c THEN 1 ELSE 0)
        <4>1. mail' = Append(mail, x) /\ (x \in Asks(u) <=> u = c)
          BY <1>1, <2>1 DEF x, Asks
        <4> QED BY <2>1, <3>2, <4>1, HitsAppend DEF InMail
      <3>4. InMail(u, mail) \in Nat /\ InPool(u, pool) \in Nat
        BY <3>2, AskedNat
      <3>5. pc[c] = "send" /\ (u # c => pc'[u] = pc[u]) /\ pc'[c] = "wait"
        BY <1>1 DEF Send, Goto, AInv, ClientTyped, Doing
      <3> QED BY <1>1, <3>1, <3>2, <3>3, <3>4, <3>5 DEF Settled, Asked
    <2> QED BY <2>2, <2>3, SettledNext
  <1>2. CASE Return(c) /\ UNCHANGED <<mail, pool, inbox, lost, gaveUp>>
    <2>1. /\ pc' \in [Clients -> Doing]
          /\ \A u \in Clients : pc'[u] = "wait" <=> pc[u] = "wait"
      BY <1>2, GotoQuiet DEF Return, Send, AInv, Doing
    <2> QED BY <1>2, <2>1, QuietSettles
  <1> QED BY <1>1, <1>2 DEF Send

(* The answer is taken, and there is no other. *)
LEMMA ReceiveSettles ==
  ASSUME AInv, IInv', NEW c \in Clients, Receive(c)
  PROVE  AInv'
  <1>1. /\ pc[c] = "wait" /\ inbox[c] # <<>> /\ inbox' = [inbox EXCEPT ![c] = Tail(@)]
        /\ UNCHANGED <<mail, pool, lost, gaveUp>>
    BY DEF Receive, managerVars
  <1>2. \E next \in {"lazy", "check", "idle"} : Goto(c, next)
    BY DEF Receive, Ask, Again, Return
  <1>3. ClientTyped' /\ pc'[c] # "wait" /\ \A u \in Clients : u # c => pc'[u] = pc[u]
    <2>1. inbox \in [Clients -> Seq(Replies)] /\ Tail(inbox[c]) \in Seq(Replies)
      BY <1>1 DEF AInv, ClientTyped
    <2> QED BY <1>1, <1>2, <2>1 DEF AInv, ClientTyped, Goto, Doing
  <1>4. ASSUME NEW u \in Clients \ gaveUp'
        PROVE  Settled(u, Asked(u, mail', pool') + Len(inbox'[u]), pc'[u] = "wait", u \in lost')
    <2>1. Settled(u, Asked(u, mail, pool) + Len(inbox[u]), pc[u] = "wait", u \in lost)
      BY <1>1, SettledNow
    <2>2. Asked(u, mail, pool) \in Nat
      BY AskedNat DEF AInv, IInv, Typed, Asked
    <2>3. CASE u = c
      <3>1. Len(inbox[u]) \in Nat \ {0} /\ Len(inbox'[u]) = Len(inbox[u]) - 1
        BY <1>1, <2>3 DEF AInv, ClientTyped
      <3> QED BY <1>1, <1>3, <2>1, <2>2, <2>3, <3>1 DEF Settled
    <2>4. CASE u # c
      BY <1>1, <1>3, <2>1, <2>4 DEF Settled, AInv, ClientTyped
    <2> QED BY <2>3, <2>4
  <1> QED BY <1>3, <1>4, SettledNext

(* A message about a thread asks for nothing. *)
LEMMA EndSettles ==
  ASSUME AInv, IInv', NEW w \in Workers, End(w)
  PROVE  AInv'
  <1> DEFINE x == [verb |-> "exitted", from |-> serves[w]]
  <1>1. /\ UNCHANGED <<pool, inbox, lost, gaveUp, pc>> /\ (mail' = mail \/ mail' = Append(mail, x))
        /\ mail \in Seq(Message) /\ pool \in Pools
    BY DEF End, clientVars, AInv, IInv, Typed
  <1>2. x \in Message /\ \A u : x \notin Asks(u)
    BY DEF AInv, IInv, Typed, Message, Exits, Asks
  <1>3. \A u : InMail(u, mail') = InMail(u, mail)
    <2> TAKE u
    <2> HIDE DEF x
    <2>1. InMail(u, mail) \in Nat
      BY <1>1, AskedNat
    <2>2. CASE mail' = Append(mail, x)
      <3>1. Cardinality(Hits(Append(mail, x), Asks(u))) = Cardinality(Hits(mail, Asks(u))) + 0
        BY <1>1, <1>2, HitsAppend
      <3> QED BY <2>1, <2>2, <3>1 DEF InMail
    <2> QED BY <1>1, <2>2
  <1>4. ClientTyped'
    BY <1>1 DEF AInv, ClientTyped
  <1>5. \A u \in Clients \ gaveUp' :
          Settled(u, Asked(u, mail', pool') + Len(inbox'[u]), pc'[u] = "wait", u \in lost')
    BY <1>1, <1>3, SettledNow DEF Asked
  <1> QED BY <1>4, <1>5, SettledNext

LEMMA GiveUpSettles ==
  ASSUME AInv, IInv', NEW c \in Clients, GiveUp(c)
  PROVE  AInv'
  <1>1. /\ UNCHANGED <<mail, pool, inbox, lost>> /\ gaveUp' = gaveUp \cup {c} /\ Goto(c, "idle")
    BY DEF GiveUp, Return, managerVars
  <1>2. ClientTyped' /\ \A u \in Clients : u # c => pc'[u] = pc[u]
    BY <1>1 DEF AInv, ClientTyped, Goto, Doing
  <1>3. \A u \in Clients \ gaveUp' :
          Settled(u, Asked(u, mail', pool') + Len(inbox'[u]), pc'[u] = "wait", u \in lost')
    BY <1>1, <1>2, SettledNow DEF Settled
  <1> QED BY <1>2, <1>3, SettledNext

LEMMA ExitSettles ==
  ASSUME AInv, IInv', NEW c \in Clients, Exit(c)
  PROVE  AInv'
  <1>1. /\ UNCHANGED <<mail, pool, lost, gaveUp>> /\ Goto(c, "exited") /\ pc[c] = "idle"
        /\ inbox' = [inbox EXCEPT ![c] = <<>>]
    BY DEF Exit, managerVars
  <1>2. /\ ClientTyped' /\ pc'[c] = "exited"
        /\ \A u \in Clients : u # c => pc'[u] = pc[u] /\ inbox'[u] = inbox[u]
    BY <1>1 DEF AInv, ClientTyped, Goto, Doing
  <1>3. ASSUME NEW u \in Clients \ gaveUp'
        PROVE  Settled(u, Asked(u, mail', pool') + Len(inbox'[u]), pc'[u] = "wait", u \in lost')
    <2>1. Settled(u, Asked(u, mail, pool) + Len(inbox[u]), pc[u] = "wait", u \in lost)
      BY <1>1, SettledNow
    <2>2. Asked(u, mail, pool) \in Nat
      BY AskedNat DEF AInv, IInv, Typed, Asked
    <2>3. CASE u = c
      <3>1. Len(inbox[u]) \in Nat /\ Len(inbox'[u]) = 0
        BY <1>1, <2>3 DEF AInv, ClientTyped
      <3> QED BY <1>1, <1>2, <2>1, <2>2, <2>3, <3>1 DEF Settled
    <2>4. CASE u # c
      BY <1>1, <1>2, <2>1, <2>4 DEF Settled
    <2> QED BY <2>3, <2>4
  <1> QED BY <1>2, <1>3, SettledNext
-----------------------------------------------------------------------------
(* The steps of the manager. *)

(* A message is taken and the pool becomes p: the request of c is no       *)
(* longer asked, the others are.                                           *)
Moves(c, p) ==
  \A u \in Clients : Asked(u, Tail(mail), p) = Asked(u, mail, pool) - (IF u = c THEN 1 ELSE 0)

LEMMA AnswerSettles ==
  ASSUME AInv, IInv', NEW c \in Clients, NEW reply \in Replies, NEW p,
         Answer(c, reply, p), Moves(c, p), UNCHANGED <<lost, gaveUp, pc>>
  PROVE  AInv'
  <1>1. mail' = Tail(mail) /\ pool' = p /\ inbox' = [inbox EXCEPT ![c] = Append(@, reply)]
    BY DEF Answer
  <1>2. ClientTyped' /\ \A u \in Clients :
          Len(inbox[u]) \in Nat /\ Len(inbox'[u]) = Len(inbox[u]) + (IF u = c THEN 1 ELSE 0)
    <2>1. inbox \in [Clients -> Seq(Replies)] /\ inbox[c] \in Seq(Replies)
      BY DEF AInv, ClientTyped
    <2>2. Append(inbox[c], reply) \in Seq(Replies) /\ Len(Append(inbox[c], reply)) = Len(inbox[c]) + 1
      BY <2>1
    <2> QED BY <1>1, <2>1, <2>2 DEF AInv, ClientTyped
  <1>3. ASSUME NEW u \in Clients \ gaveUp'
        PROVE  Settled(u, Asked(u, mail', pool') + Len(inbox'[u]), pc'[u] = "wait", u \in lost')
    <2>1. Settled(u, Asked(u, mail, pool) + Len(inbox[u]), pc[u] = "wait", u \in lost)
      BY SettledNow
    <2>2. Asked(u, mail, pool) \in Nat /\ Len(inbox[u]) \in Nat
      BY <1>2, AskedNat DEF AInv, IInv, Typed, Asked
    <2>3. Asked(u, mail', pool') + Len(inbox'[u]) = Asked(u, mail, pool) + Len(inbox[u])
      <3>1. Asked(u, mail', pool') = Asked(u, mail, pool) - (IF u = c THEN 1 ELSE 0)
        BY <1>1 DEF Moves
      <3>2. Len(inbox'[u]) = Len(inbox[u]) + (IF u = c THEN 1 ELSE 0)
        BY <1>2
      <3>3. CASE u = c
        BY <2>2, <3>1, <3>2, <3>3
      <3>4. CASE u # c
        BY <2>2, <3>1, <3>2, <3>4
      <3> QED BY <3>3, <3>4
    <2> QED BY <2>1, <2>3
  <1> QED BY <1>2, <1>3, SettledNext

LEMMA DieSettles ==
  ASSUME AInv, IInv', NEW c \in Clients, NEW p \in Pools, mail # <<>>,
         Die(c, p), Moves(c, p), UNCHANGED <<gaveUp, pc>>
  PROVE  AInv'
  <1> DEFINE gone == Askers(Tail(mail)) \cup (IF p = <<>> THEN {} ELSE ToSet(p[1].waiting))
  <1>1. /\ pc[c] = "exited" /\ mail' = <<>> /\ pool' = <<>>
        /\ lost' = lost \cup gone /\ inbox' = inbox
    BY DEF Die
  <1>2. Tail(mail) \in Seq(Message)
    BY DEF AInv, IInv, Typed
  <1>3. ASSUME NEW u \in Clients
        PROVE  /\ u \in gone <=> Asked(u, Tail(mail), p) # 0
               /\ Asked(u, Tail(mail), p) \in Nat /\ Asked(u, <<>>, <<>>) = 0
    <2>1. u \in Askers(Tail(mail)) <=> InMail(u, Tail(mail)) # 0
      <3>1. u \in Askers(Tail(mail))
              <=> \E k \in DOMAIN Tail(mail) : Tail(mail)[k].verb # "exitted" /\ Tail(mail)[k].for = u
        BY DEF Askers, ToSet
      <3>2. \A k \in DOMAIN Tail(mail) : Tail(mail)[k] \in Message
        BY <1>2
      <3> QED BY <1>2, <3>1, <3>2, AskedNat DEF Asks
    <2>2. p # <<>> => (u \in ToSet(p[1].waiting) <=> InPool(u, p) # 0)
      BY <1>2, AskedNat DEF ToSet
    <2>3. p = <<>> => InPool(u, p) = 0
      BY DEF InPool
    <2>4. InMail(u, Tail(mail)) \in Nat /\ InPool(u, p) \in Nat
      BY <1>2, AskedNat
    <2>5. Asked(u, <<>>, <<>>) = 0
      <3>0. Cardinality({}) = 0
        BY FS_EmptySet
      <3>1. Hits(<<>>, Asks(u)) = {}
        BY DEF Hits
      <3> QED BY <3>0, <3>1 DEF Asked, InMail, InPool
    <2> QED BY <2>1, <2>2, <2>3, <2>4, <2>5 DEF Asked
  <1> HIDE DEF gone
  <1>4. ClientTyped'
    BY <1>1 DEF AInv, ClientTyped
  <1>5. ASSUME NEW u \in Clients \ gaveUp'
        PROVE  Settled(u, Asked(u, mail', pool') + Len(inbox'[u]), pc'[u] = "wait", u \in lost')
    <2>1. Settled(u, Asked(u, mail, pool) + Len(inbox[u]), pc[u] = "wait", u \in lost)
      BY SettledNow
    <2>2. Asked(u, mail, pool) \in Nat /\ Len(inbox[u]) \in Nat
      BY AskedNat DEF AInv, IInv, Typed, Asked, ClientTyped
    <2>3. Asked(u, Tail(mail), p) = Asked(u, mail, pool) - (IF u = c THEN 1 ELSE 0)
      BY DEF Moves
    <2>4. /\ u \in gone <=> Asked(u, Tail(mail), p) # 0
          /\ Asked(u, Tail(mail), p) \in Nat /\ Asked(u, mail', pool') = 0
      BY <1>1, <1>3
    <2>5. CASE u = c
      <3>1. Asked(u, mail, pool) = 0
        BY <1>1, <2>1, <2>2, <2>5 DEF Settled
      <3> QED BY <2>2, <2>3, <2>4, <2>5, <3>1
    <2>6. CASE u # c
      BY <1>1, <2>1, <2>2, <2>3, <2>4, <2>6 DEF Settled
    <2> QED BY <2>5, <2>6
  <1> QED BY <1>4, <1>5, SettledNext

LEMMA ReplySettles ==
  ASSUME AInv, IInv', NEW c \in Clients, NEW reply \in Replies, NEW p \in Pools, mail # <<>>,
         Reply(c, reply, p), Moves(c, p), UNCHANGED <<gaveUp, pc>>
  PROVE  AInv'
  BY AnswerSettles, DieSettles DEF Reply

(* The message at the head is a request: it is not asked any more, unless  *)
(* it goes to the backlog.                                                 *)
LEMMA RequestMoves ==
  ASSUME AInv, Takes(Verbs)
  PROVE  /\ mail # <<>> /\ pool \in Pools /\ Head(mail).for \in Clients /\ Tail(mail) \in Seq(Message)
         /\ \A u \in Clients :
              /\ InMail(u, mail) \in Nat
              /\ InMail(u, Tail(mail)) = InMail(u, mail) - (IF u = Head(mail).for THEN 1 ELSE 0)
         /\ Moves(Head(mail).for, pool)
  <1>1. /\ mail # <<>> /\ mail \in Seq(Message) /\ Head(mail) \in Message
        /\ Head(mail).verb # "exitted" /\ pool \in Pools /\ Tail(mail) \in Seq(Message)
    BY DEF Takes, AInv, IInv, Typed, Verbs
  <1>2. Head(mail).for \in Clients
    BY <1>1 DEF Message, Requests, Exits
  <1>3. ASSUME NEW u \in Clients
        PROVE  /\ InMail(u, mail) \in Nat /\ InPool(u, pool) \in Nat
               /\ InMail(u, Tail(mail)) = InMail(u, mail) - (IF u = Head(mail).for THEN 1 ELSE 0)
    <2>1. Head(mail) \in Asks(u) <=> u = Head(mail).for
      BY <1>1 DEF Asks
    <2>2. InMail(u, mail) \in Nat /\ InPool(u, pool) \in Nat
      BY <1>1, AskedNat
    <2> QED BY <1>1, <2>1, <2>2, HitsTail DEF InMail
  <1>4. Moves(Head(mail).for, pool)
    BY <1>3 DEF Moves, Asked
  <1> QED BY <1>1, <1>2, <1>3, <1>4

(* A pool with the same backlog. *)
LEMMA SameBacklog ==
  ASSUME NEW c, NEW p, NEW q, Moves(c, p), \A u \in Clients : InPool(u, q) = InPool(u, p)
  PROVE  Moves(c, q)
  BY DEF Moves, Asked

LEMMA CreateThreadSettles ==
  ASSUME AInv, IInv', NEW c \in Clients, NEW p \in Pool, mail # <<>>, p.free > 0,
         CreateThread(c, p), Moves(c, <<p>>), UNCHANGED <<gaveUp, pc>>
  PROVE  AInv'
  <1>1. ASSUME NEW q, q = [p EXCEPT !.free = @ - 1] \/ q = [p EXCEPT !.free = @ - 1, !.failed = @ + 1]
        PROVE  <<q>> \in Pools /\ Moves(c, <<q>>)
    <2>1. p.free - 1 \in Nat /\ p.failed + 1 \in Nat
      BY DEF Pool
    <2>2. q \in Pool
      BY <1>1, <2>1 DEF Pool
    <2>3. q.waiting = p.waiting
      BY <1>1 DEF Pool
    <2>4. \A u \in Clients : InPool(u, <<q>>) = InPool(u, <<p>>)
      BY <2>3 DEF InPool
    <2> QED BY <2>2, <2>4, SameBacklog DEF Pools
  <1>2. CASE Reply(c, "id", << [p EXCEPT !.free = @ - 1] >>)
    BY <1>1, <1>2, ReplySettles DEF Replies
  <1>3. CASE Reply(c, "error", << [p EXCEPT !.free = @ - 1, !.failed = @ + 1] >>)
    BY <1>1, <1>3, ReplySettles DEF Replies
  <1> QED BY <1>2, <1>3 DEF CreateThread

LEMMA CreatePoolSettles ==
  ASSUME AInv, IInv', CreatePool
  PROVE  AInv'
  <1> DEFINE c == Head(mail).for
  <1>1. Takes(Verbs) /\ UNCHANGED <<gaveUp, pc>>
    BY DEF CreatePool, Takes, Verbs, clientVars
  <1>2. CASE /\ pool = <<>>
             /\ Reply(c, "true", << [free |-> Size, waiting |-> <<>>, name |-> pools + 1,
                                     failed |-> 0, strangers |-> 0] >>)
    <2> DEFINE q == [free |-> Size, waiting |-> <<>>, name |-> pools + 1,
                     failed |-> 0, strangers |-> 0]
    <2>1. q \in Pool /\ q.waiting = <<>>
      <3>1. pools + 1 \in Nat /\ <<>> \in Seq(Clients)
        BY DEF AInv, IInv, Typed
      <3> QED BY <3>1, PoolAssumption DEF Pool
    <2> HIDE DEF q
    <2>2. \A u \in Clients : InPool(u, <<q>>) = InPool(u, pool)
      <3>1. \A u : Hits(<<>>, {u}) = {}
        BY DEF Hits
      <3> QED BY <1>2, <2>1, <3>1, FS_EmptySet DEF InPool
    <2>3. <<q>> \in Pools /\ Reply(c, "true", <<q>>)
      BY <1>2, <2>1 DEF Pools, q
    <2>4. Moves(c, <<q>>)
      BY <1>1, <2>2, RequestMoves, SameBacklog
    <2> HIDE DEF c
    <2>5. c \in Clients /\ mail # <<>>
      BY <1>1, RequestMoves DEF c
    <2> QED BY <1>1, <2>3, <2>4, <2>5, ReplySettles DEF Replies
  <1>3. CASE Reply(c, "permission", pool)
    BY <1>1, <1>3, RequestMoves, ReplySettles DEF Replies
  <1> QED BY <1>2, <1>3 DEF CreatePool

(* The backlog goes with the pool. *)
LEMMA DestroyPoolSettles ==
  ASSUME AInv, IInv', DestroyPool
  PROVE  AInv'
  <1> DEFINE c == Head(mail).for
  <1>1. Takes(Verbs) /\ UNCHANGED <<gaveUp, pc>>
    BY DEF DestroyPool, Takes, Verbs, clientVars
  <1>2. CASE pool # <<>> /\ Answer(c, "true", <<>>) /\ lost' = lost \cup ToSet(pool[1].waiting)
    <2>1. /\ mail' = Tail(mail) /\ pool' = <<>> /\ inbox' = [inbox EXCEPT ![c] = Append(@, "true")]
          /\ c \in Clients
      BY <1>1, <1>2, RequestMoves DEF Answer
    <2> HIDE DEF c
    <2>2. ClientTyped' /\ \A u \in Clients :
            Len(inbox[u]) \in Nat /\ Len(inbox'[u]) = Len(inbox[u]) + (IF u = c THEN 1 ELSE 0)
      <3>1. inbox \in [Clients -> Seq(Replies)] /\ inbox[c] \in Seq(Replies) /\ "true" \in Replies
        BY <2>1 DEF AInv, ClientTyped, Replies
      <3>2. /\ Append(inbox[c], "true") \in Seq(Replies)
            /\ Len(Append(inbox[c], "true")) = Len(inbox[c]) + 1
        BY <3>1
      <3> QED BY <1>1, <2>1, <3>1, <3>2 DEF AInv, ClientTyped
    <2>3. ASSUME NEW u \in Clients \ gaveUp'
          PROVE  Settled(u, Asked(u, mail', pool') + Len(inbox'[u]), pc'[u] = "wait", u \in lost')
      <3>1. Settled(u, Asked(u, mail, pool) + Len(inbox[u]), pc[u] = "wait", u \in lost)
        BY <1>1, SettledNow
      <3>2. /\ InMail(u, mail) \in Nat /\ InPool(u, pool) \in Nat
            /\ InMail(u, mail') = InMail(u, mail) - (IF u = c THEN 1 ELSE 0)
            /\ InMail(u, mail') \in Nat
        BY <1>1, <2>1, RequestMoves, AskedNat DEF c
      <3>3. InPool(u, pool') = 0
        BY <2>1 DEF InPool
      <3>4. u \in ToSet(pool[1].waiting) <=> InPool(u, pool) # 0
        BY <1>1, <1>2, RequestMoves, AskedNat DEF ToSet
      <3>5. Len(inbox[u]) \in Nat /\ Len(inbox'[u]) = Len(inbox[u]) + (IF u = c THEN 1 ELSE 0)
        BY <2>2
      <3>6. CASE u = c
        BY <1>1, <1>2, <3>1, <3>2, <3>3, <3>4, <3>5, <3>6 DEF Settled, Asked
      <3>7. CASE u # c /\ InPool(u, pool) = 0
        <4>1. u \in lost' <=> u \in lost
          BY <1>2, <3>4, <3>7
        <4>2. Asked(u, mail', pool') + Len(inbox'[u]) = Asked(u, mail, pool) + Len(inbox[u])
          BY <3>2, <3>3, <3>5, <3>7 DEF Asked
        <4> QED BY <1>1, <3>1, <4>1, <4>2
      <3>8. CASE u # c /\ InPool(u, pool) # 0
        <4>1. u \in lost' /\ pc[u] = "wait" /\ InMail(u, mail) = 0 /\ Len(inbox[u]) = 0
          BY <1>2, <3>1, <3>2, <3>4, <3>5, <3>8 DEF Settled, Asked
        <4>2. Asked(u, mail', pool') + Len(inbox'[u]) = 0
          BY <3>2, <3>3, <3>5, <3>8, <4>1 DEF Asked
        <4> QED BY <1>1, <4>1, <4>2 DEF Settled
      <3> QED BY <3>6, <3>7, <3>8
    <2> QED BY <2>2, <2>3, SettledNext
  <1>3. CASE Die(c, pool)
    BY <1>1, <1>3, RequestMoves, DieSettles
  <1>4. CASE Reply(c, "no_pool", pool)
    BY <1>1, <1>4, RequestMoves, ReplySettles DEF Replies
  <1> QED BY <1>2, <1>3, <1>4 DEF DestroyPool

LEMMA CurrentPoolsSettles ==
  ASSUME AInv, IInv', CurrentPools
  PROVE  AInv'
  <1>1. Takes(Verbs) /\ UNCHANGED <<gaveUp, pc>>
    BY DEF CurrentPools, Takes, Verbs, clientVars
  <1>2. \E reply \in Replies : Reply(Head(mail).for, reply, pool)
    BY DEF CurrentPools, Replies
  <1> QED BY <1>1, <1>2, RequestMoves, ReplySettles

LEMMA CreateSettles ==
  ASSUME AInv, IInv', Create
  PROVE  AInv'
  <1> DEFINE c == Head(mail).for
             p == pool[1]
  <1>1. Takes(Verbs) /\ UNCHANGED <<gaveUp, pc>>
    BY DEF Create, Takes, Verbs, clientVars
  <1>2. CASE Reply(c, "no_pool", pool)
    BY <1>1, <1>2, RequestMoves, ReplySettles DEF Replies
  <1>3. ASSUME pool # <<>>
        PROVE  p \in Pool /\ pool = <<p>>
    BY <1>3 DEF AInv, IInv, Typed, Pools
  <1>4. CASE pool # <<>> /\ p.free > 0 /\ CreateThread(c, p)
    <2>1. /\ c \in Clients /\ mail # <<>> /\ Moves(c, pool)
          /\ p \in Pool /\ pool = <<p>>
      BY <1>1, <1>3, <1>4, RequestMoves
    <2> HIDE DEF c, p
    <2> QED BY <1>1, <1>4, <2>1, CreateThreadSettles
  <1>5. CASE pool # <<>> /\ Reply(c, "full", <<p>>)
    <2>1. Reply(c, "full", pool)
      BY <1>3, <1>5
    <2> QED BY <1>1, <2>1, RequestMoves, ReplySettles DEF Replies
  <1>6. CASE /\ pool # <<>> /\ mail' = Tail(mail)
             /\ pool' = << [p EXCEPT !.waiting = Append(@, c)] >>
             /\ UNCHANGED <<inbox, lost>>
    <2> DEFINE q == [p EXCEPT !.waiting = Append(@, c)]
    <2>1. ClientTyped'
      BY <1>1, <1>6 DEF AInv, ClientTyped
    <2>2. /\ c \in Clients /\ p.waiting \in Seq(Clients) /\ q.waiting = Append(p.waiting, c)
          /\ pool'[1] = q /\ pool' # <<>>
      BY <1>1, <1>3, <1>6, RequestMoves DEF Pool
    <2> HIDE DEF q
    <2>3. ASSUME NEW u \in Clients
          PROVE  Asked(u, mail', pool') = Asked(u, mail, pool)
      <3>1. /\ InMail(u, mail) \in Nat /\ InPool(u, pool) \in Nat
            /\ InMail(u, mail') = InMail(u, mail) - (IF u = c THEN 1 ELSE 0)
        BY <1>1, <1>6, RequestMoves, AskedNat DEF AInv, IInv, Typed
      <3> HIDE DEF c, p
      <3>2. InPool(u, pool') = InPool(u, pool) + (IF u = c THEN 1 ELSE 0)
        <4>1. Cardinality(Hits(q.waiting, {u})) = Cardinality(Hits(p.waiting, {u})) + (IF c \in {u} THEN 1 ELSE 0)
          BY <2>2, HitsAppend
        <4>2. InPool(u, pool') = Cardinality(Hits(q.waiting, {u}))
          BY <2>2 DEF InPool
        <4>3. InPool(u, pool) = Cardinality(Hits(p.waiting, {u}))
          BY <1>6 DEF InPool, p
        <4> QED BY <4>1, <4>2, <4>3
      <3>3. CASE u = c
        BY <3>1, <3>2, <3>3 DEF Asked
      <3>4. CASE u # c
        BY <3>1, <3>2, <3>4 DEF Asked
      <3> QED BY <3>3, <3>4
    <2>4. \A u \in Clients \ gaveUp' :
            Settled(u, Asked(u, mail', pool') + Len(inbox'[u]), pc'[u] = "wait", u \in lost')
      BY <1>1, <1>6, <2>3, SettledNow
    <2> QED BY <2>1, <2>4, SettledNext
  <1> QED BY <1>2, <1>4, <1>5, <1>6 DEF Create, Delay

(* The thread of the request that waits longest is started. *)
LEMMA ExittedSettles ==
  ASSUME AInv, IInv', Exitted
  PROVE  AInv'
  <1> DEFINE o == pool[1]
             x == Head(mail)
             p == [o EXCEPT !.free = @ + 1,
                            !.strangers = IF x.from = o.name THEN @ ELSE @ + 1]
             q == [p EXCEPT !.waiting = Tail(@)]
  <1>1. /\ mail # <<>> /\ mail \in Seq(Message) /\ Tail(mail) \in Seq(Message)
        /\ x.verb = "exitted" /\ pool \in Pools /\ UNCHANGED <<gaveUp, pc>>
    BY DEF Exitted, Takes, AInv, IInv, Typed, clientVars
  <1>2. \A u : InMail(u, Tail(mail)) = InMail(u, mail) /\ InMail(u, mail) \in Nat
    <2> TAKE u
    <2>1. Head(mail) \notin Asks(u)
      BY <1>1 DEF Asks
    <2>2. InMail(u, mail) \in Nat
      BY <1>1, AskedNat
    <2>3. Cardinality(Hits(Tail(mail), Asks(u))) = Cardinality(Hits(mail, Asks(u))) - 0
      BY <1>1, <2>1, HitsTail
    <2> QED BY <2>2, <2>3 DEF InMail
  <1>3. ASSUME pool # <<>>
        PROVE  /\ p \in Pool /\ p.waiting = o.waiting /\ p.free > 0 /\ o.waiting \in Seq(Clients)
    <2> DEFINE st == IF x.from = o.name THEN o.strangers ELSE o.strangers + 1
    <2>1. o \in Pool
      BY <1>1, <1>3 DEF Pools
    <2>2. p = [o EXCEPT !.free = @ + 1, !.strangers = st]
      OBVIOUS
    <2> HIDE DEF p, o, x
    <2>3. o.free + 1 \in Nat /\ o.free + 1 > 0 /\ st \in Nat
      BY <2>1 DEF Pool
    <2> HIDE DEF st
    <2> QED BY <2>1, <2>2, <2>3 DEF Pool
  <1>4. CASE /\ mail' = Tail(mail) /\ UNCHANGED <<inbox, lost>>
             /\ \/ pool' = pool
                \/ pool # <<>> /\ pool' = <<p>>
    <2>1. ClientTyped'
      BY <1>1, <1>4 DEF AInv, ClientTyped
    <2>2. \A u : InPool(u, pool') = InPool(u, pool)
      <3>1. CASE pool # <<>> /\ pool' = <<p>>
        <4> HIDE DEF p
        <4>1. pool' # <<>> /\ pool'[1].waiting = pool[1].waiting
          BY <1>3, <3>1
        <4> QED BY <3>1, <4>1 DEF InPool
      <3>2. CASE pool' = pool
        BY <3>2
      <3> QED BY <1>4, <3>1, <3>2
    <2>3. \A u \in Clients \ gaveUp' :
            Settled(u, Asked(u, mail', pool') + Len(inbox'[u]), pc'[u] = "wait", u \in lost')
      BY <1>1, <1>2, <1>4, <2>2, SettledNow DEF Asked
    <2> QED BY <2>1, <2>3, SettledNext
  <1>5. CASE pool # <<>> /\ o.waiting # <<>> /\ CreateThread(Head(p.waiting), q)
    <2> DEFINE c == Head(p.waiting)
    <2>1. /\ c \in Clients /\ q \in Pool /\ q.free > 0 /\ q.waiting = Tail(o.waiting)
          /\ c = Head(o.waiting)
      <3> HIDE DEF p, o
      <3>1. Head(o.waiting) \in Clients /\ Tail(o.waiting) \in Seq(Clients)
        BY <1>3, <1>5
      <3> QED BY <1>3, <1>5, <3>1 DEF Pool
    <2>2. Moves(c, <<q>>)
      <3> SUFFICES ASSUME NEW u \in Clients
                   PROVE  Asked(u, Tail(mail), <<q>>) = Asked(u, mail, pool) - (IF u = c THEN 1 ELSE 0)
        BY DEF Moves
      <3>1. InPool(u, pool) = Cardinality(Hits(o.waiting, {u}))
        BY <1>5 DEF InPool
      <3>2. InPool(u, <<q>>) = Cardinality(Hits(Tail(o.waiting), {u}))
        <4> HIDE DEF q, o
        <4> QED BY <2>1 DEF InPool
      <3>3. o.waiting \in Seq(Clients) /\ o.waiting # <<>>
        BY <1>3, <1>5
      <3> HIDE DEF q, o, c
      <3>4. /\ Cardinality(Hits(Tail(o.waiting), {u}))
                  = Cardinality(Hits(o.waiting, {u})) - (IF Head(o.waiting) \in {u} THEN 1 ELSE 0)
            /\ Cardinality(Hits(o.waiting, {u})) \in Nat
        BY <3>3, HitsTail, HitsFinite
      <3>5. CASE u = c
        BY <1>2, <2>1, <3>1, <3>2, <3>4, <3>5 DEF Asked
      <3>6. CASE u # c
        BY <1>2, <2>1, <3>1, <3>2, <3>4, <3>6 DEF Asked
      <3> QED BY <3>5, <3>6
    <2> HIDE DEF q, p, o
    <2>3. CreateThread(c, q)
      BY <1>5
    <2> HIDE DEF c
    <2> QED BY <1>1, <2>1, <2>2, <2>3, CreateThreadSettles
  <1> QED BY <1>4, <1>5 DEF Exitted

LEMMA StepSettles ==
  ASSUME AInv, [Next]_vars
  PROVE  AInv'
  <1>1. IInv'
    BY StepKeeps DEF AInv
  <1>2. ASSUME UNCHANGED vars
        PROVE  AInv'
    BY <1>1, <1>2, QuietSettles DEF vars, clientVars, managerVars, AInv, ClientTyped
  <1>3. ASSUME NEW c \in Clients,
               \/ \E what \in Verbs : Call(c, what)
               \/ ClientStep(c) \/ GiveUp(c) \/ Exit(c)
        PROVE  AInv'
    BY <1>1, <1>3, StillQuiet, SendSettles, ReceiveSettles, GiveUpSettles, ExitSettles DEF ClientStep
  <1>4. ASSUME NEW w \in Workers, End(w)
        PROVE  AInv'
    BY <1>1, <1>4, EndSettles
  <1>5. CASE ManagerStep
    BY <1>1, <1>5, CreatePoolSettles, DestroyPoolSettles, CurrentPoolsSettles, CreateSettles,
       ExittedSettles DEF ManagerStep
  <1> QED BY <1>2, <1>3, <1>4, <1>5 DEF Next

LEMMA StartingSettled ==
  ASSUME Init
  PROVE  AInv
  <1>1. IInv
    BY Starting
  <1>2. ClientTyped /\ LostWait
    BY DEF Init, ClientTyped, Doing, LostWait
  <1>3. ASSUME NEW c \in Clients
        PROVE  Places(c) = 0
    <2>1. Hits(<<>>, Asks(c)) = {}
      BY DEF Hits
    <2>0. Cardinality({}) = 0
      BY FS_EmptySet
    <2>2. InMail(c, <<>>) = 0 /\ InPool(c, <<>>) = 0
      BY <2>0, <2>1 DEF InMail, InPool
    <2>3. Asked(c, <<>>, <<>>) = 0
      BY <2>2 DEF Asked
    <2> QED BY <1>1, <2>3, PlacesAsked DEF Init, IInv
  <1> QED BY <1>1, <1>2, <1>3 DEF AInv, OneAnswer, Init

(* The request of a client that waits, and never stopped waiting, is in    *)
(* one place, unless it went with the pool or the manager; one that does   *)
(* not wait has no answer left that its next request would take.           *)
THEOREM OneAnswerEach == Spec => []OneAnswer
  <1>1. Init => AInv
    BY StartingSettled
  <1>2. AInv /\ [Next]_vars => AInv'
    BY StepSettles
  <1>3. AInv => OneAnswer
    BY DEF AInv
  <1> QED BY <1>1, <1>2, <1>3, PTL DEF Spec
=============================================================================
