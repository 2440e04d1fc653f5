------------------------- MODULE PrologMutex_proofs -------------------------
(***************************************************************************)
(* Proofs about PrologMutex, for any threads, calls and number of objects. *)
(***************************************************************************)
EXTENDS PrologMutex, TLAPS

(* Thread t took o to destroy it and still holds it. *)
Destroying(t, o) == pc[t] \in {"dest", "del"} /\ mptr[t] = o

(* Who owns a mutex, and is not destroying it, was granted its locks. *)
OwnerHolds ==
  \A o \in Objs : \A t \in Threads :
    obj[o].owner = t /\ ~Destroying(t, o) =>
      obj[o].count >= 1 /\ depth[t][o] >= obj[o].count

(* As long as an object is alive its system mutex works and is held by its *)
(* owner.                                                                  *)
SystemOwned ==
  \A o \in Objs : ~obj[o].destroyed /\ ~obj[o].freed =>
    obj[o].works /\ obj[o].sys = obj[o].owner

(* A thread that is about to mark an object as destroyed owns it, without  *)
(* having been granted a lock on it.                                       *)
DestroyerOwns ==
  \A t \in Threads : pc[t] = "dest" /\ ~obj[mptr[t]].destroyed =>
    obj[mptr[t]].owner = t /\ depth[t][mptr[t]] = 0

(* After that the object is marked. *)
Marked ==
  \A t \in Threads : pc[t] \in {"del", "fini"} => obj[mptr[t]].destroyed

IInv ==
  TypeOK /\ OwnerHolds /\ CountedLocks /\ SystemOwned /\ DestroyerOwns /\ Marked

-----------------------------------------------------------------------------
(* What the operators that several actions share do to the types. *)

LEMMA ReturnTyped ==
  ASSUME TypeOK, NEW t \in Threads,
         NEW r \in {"ok", "fail", "existence", "permission"}, Return(t, r)
  PROVE  /\ pc' \in [Threads -> PCs]
         /\ call' \in [Threads -> CallNames \cup {"none"}]
         /\ reply' \in [Threads -> {"none", "ok", "fail", "existence",
                                   "permission"}]
  BY DEF TypeOK, Return, PCs

LEMMA GotoTyped ==
  ASSUME TypeOK, NEW t \in Threads, NEW p \in PCs, Goto(t, p)
  PROVE  /\ pc' \in [Threads -> PCs]
         /\ call' \in [Threads -> CallNames \cup {"none"}]
         /\ reply' \in [Threads -> {"none", "ok", "fail", "existence",
                                   "permission"}]
  BY DEF TypeOK, Goto

LEMMA GrantedTyped ==
  ASSUME TypeOK, NEW t \in Threads, NEW o \in Objs, Granted(t, o),
         obj' \in [Objs -> Object]
  PROVE  TypeOK'
  <1>1. depth' \in [Threads -> [Objs -> Nat]] /\ withs' \in [Threads -> Seq(Objs)]
    BY DEF TypeOK, Granted
  <1> QED
    BY <1>1, ReturnTyped DEF TypeOK, Granted

LEMMA FieldTypes ==
  ASSUME TypeOK, NEW o \in Objs
  PROVE  /\ obj[o] \in Object
         /\ obj[o].count \in Nat
         /\ obj[o].sys \in Threads \cup {NoThread}
         /\ obj[o].owner \in Threads \cup {NoThread}
         /\ \A t \in Threads : depth[t][o] \in Nat
  <1>1. obj[o] \in Object
    BY DEF TypeOK
  <1>2. \A t \in Threads : depth[t][o] \in Nat
    BY DEF TypeOK
  <1> QED
    BY <1>1, <1>2 DEF Object

(* The fields that the calls assign keep an object an object. *)
LEMMA FieldUpdates ==
  ASSUME NEW m \in Object, NEW s \in Threads \cup {NoThread},
         NEW w \in Threads \cup {NoThread}, NEW n \in Nat
  PROVE  /\ [m EXCEPT !.count = n] \in Object
         /\ [m EXCEPT !.sys = s, !.owner = w, !.count = n] \in Object
         /\ [m EXCEPT !.count = n, !.owner = w, !.sys = s] \in Object
  BY DEF Object

(* Setting fields of one object. *)
LEMMA ObjectTyped ==
  ASSUME TypeOK, NEW o \in Objs, NEW m \in Object,
         obj' = [obj EXCEPT ![o] = m]
  PROVE  obj' \in [Objs -> Object]
  BY DEF TypeOK

(* An owner whose thread does not destroy the mutex can give one lock back. *)
LEMMA UnlockOneTyped ==
  ASSUME TypeOK, OwnerHolds, NEW t \in Threads, NEW o \in Objs,
         obj[o].owner = t, ~Destroying(t, o), UnlockOne(t, o)
  PROVE  /\ obj' \in [Objs -> Object]
         /\ depth' \in [Threads -> [Objs -> Nat]]
  <1>1. obj[o].count >= 1 /\ depth[t][o] >= 1
    BY FieldTypes DEF OwnerHolds
  <1>2. obj' \in [Objs -> Object]
    <2> DEFINE n == obj[o].count - 1
               s == IF n = 0 THEN NoThread ELSE obj[o].sys
               w == IF n = 0 THEN NoThread ELSE t
    <2>1. /\ n \in Nat /\ obj[o] \in Object
          /\ s \in Threads \cup {NoThread} /\ w \in Threads \cup {NoThread}
      BY <1>1, FieldTypes
    <2>2. obj' = [obj EXCEPT ![o] = [obj[o] EXCEPT !.count = n, !.owner = w,
                                                   !.sys = s]]
      BY DEF UnlockOne
    <2> HIDE DEF n, s, w
    <2>3. [obj[o] EXCEPT !.count = n, !.owner = w, !.sys = s] \in Object
      BY <2>1, FieldUpdates
    <2> QED
      BY <2>2, <2>3, ObjectTyped
  <1>3. depth' \in [Threads -> [Objs -> Nat]]
    BY <1>1 DEF UnlockOne, TypeOK
  <1> QED
    BY <1>2, <1>3

(* A recursive lock. *)
LEMMA CountedTyped ==
  ASSUME TypeOK, NEW o \in Objs, obj' = [obj EXCEPT ![o].count = @ + 1]
  PROVE  obj' \in [Objs -> Object]
  <1>1. obj[o].count + 1 \in Nat /\ obj[o] \in Object
    BY FieldTypes
  <1>2. [obj[o] EXCEPT !.count = @ + 1] \in Object
    BY <1>1, FieldUpdates
  <1>3. obj' = [obj EXCEPT ![o] = [obj[o] EXCEPT !.count = @ + 1]]
    BY DEF TypeOK
  <1> QED
    BY <1>2, <1>3, ObjectTyped

LEMMA LockTyped ==
  ASSUME TypeOK, NEW t \in Threads, LockStep(t)
  PROVE  TypeOK'
  <1> DEFINE o == mptr[t]
  <1>0. o \in Objs /\ obj[o] \in Object
    BY DEF TypeOK
  <1>1. CASE Create(t)
    <2>1. made' \in Nat /\ table' \in Objs \cup {NoObj}
      BY <1>1, MutexAssumption DEF Create, Register, TypeOK, Objs
    <2> QED
      BY <1>1, <2>1, ReturnTyped DEF Create, TypeOK
  <1>2. CASE Get(t)
    <2>1. /\ made' \in Nat /\ table' \in Objs \cup {NoObj}
          /\ mptr' \in [Threads -> Objs]
      <3>1. 1 \in Objs /\ (made < ObjBound => made + 1 \in Objs)
        BY MutexAssumption DEF TypeOK, Objs
      <3>2. CASE made' = made /\ table' = table
        <4>1. made + 1 # made
          BY DEF TypeOK
        <4>2. \/ mptr' = mptr
              \/ mptr' = [mptr EXCEPT ![t] = 1]
              \/ table # NoObj /\ mptr' = [mptr EXCEPT ![t] = table]
          BY <1>2, <3>2, <4>1 DEF Get, Register
        <4>3. made' \in Nat /\ table' \in Objs \cup {NoObj}
          BY <3>2 DEF TypeOK
        <4>4. mptr' \in [Threads -> Objs]
          BY <3>1, <4>2 DEF TypeOK
        <4> QED
          BY <4>3, <4>4
      <3>3. CASE Register /\ mptr' = [mptr EXCEPT ![t] = made + 1]
        BY <3>1, <3>3 DEF Register, TypeOK
      <3> QED
        BY <1>2, <3>2, <3>3 DEF Get
    <2>2. "found" \in PCs
      BY DEF PCs
    <2> QED
      BY <1>2, <2>1, <2>2, ReturnTyped, GotoTyped DEF Get, TypeOK
  <1>3. CASE CheckDestroyed(t)
    BY <1>3, ReturnTyped, GotoTyped DEF CheckDestroyed, TypeOK, PCs
  <1>4. CASE LockAgain(t)
    <2>1. obj' \in [Objs -> Object]
      BY <1>0, <1>4, CountedTyped DEF LockAgain
    <2> QED
      BY <1>0, <1>4, <2>1, GrantedTyped DEF LockAgain
  <1>5. CASE LockOther(t)
    BY <1>5, GotoTyped DEF LockOther, TypeOK, PCs
  <1>6. CASE LockTake(t)
    <2>1. obj' \in [Objs -> Object]
      <3>1. PICK s \in Threads \cup {NoThread} :
              obj' = [obj EXCEPT ![o] =
                        [@ EXCEPT !.sys = s, !.owner = t, !.count = 1]]
        BY <1>0, <1>6, FieldTypes DEF LockTake
      <3>2. [obj[o] EXCEPT !.sys = s, !.owner = t, !.count = 1] \in Object
        BY <1>0, FieldUpdates
      <3> QED
        BY <1>0, <3>1, <3>2, ObjectTyped
    <2> QED
      BY <1>0, <1>6, <2>1, GrantedTyped DEF LockTake
  <1>7. CASE TryAgain(t)
    <2>1. CASE call[t] = "trylock"
      <3>1. obj' \in [Objs -> Object]
        BY <1>0, <1>7, <2>1, CountedTyped DEF TryAgain
      <3> QED
        BY <1>0, <1>7, <2>1, <3>1, GrantedTyped DEF TryAgain
    <2>2. CASE call[t] # "trylock"
      BY <1>7, <2>2, ReturnTyped, GotoTyped DEF TryAgain, NotNow, TypeOK, PCs
    <2> QED
      BY <2>1, <2>2
  <1>8. CASE TryTake(t)
    <2>1. obj' \in [Objs -> Object]
      BY <1>0, <1>8 DEF TryTake, TypeOK, Object
    <2>2. CASE call[t] = "trylock"
      BY <1>0, <1>8, <2>1, <2>2, GrantedTyped DEF TryTake
    <2>3. CASE call[t] # "trylock"
      BY <1>8, <2>1, <2>3, GotoTyped DEF TryTake, TypeOK, PCs
    <2> QED
      BY <2>2, <2>3
  <1>9. CASE TryBusy(t)
    BY <1>9, ReturnTyped, GotoTyped DEF TryBusy, NotNow, TypeOK, PCs
  <1> QED
    BY <1>1, <1>2, <1>3, <1>4, <1>5, <1>6, <1>7, <1>8, <1>9 DEF LockStep

LEMMA UnlockTyped ==
  ASSUME TypeOK, OwnerHolds, NEW t \in Threads, UnlockStep(t) \/ Leave(t)
  PROVE  TypeOK'
  <1> DEFINE o == mptr[t]
  <1>0. o \in Objs /\ obj[o] \in Object
    BY DEF TypeOK
  <1>1. CASE Unlock(t)
    <2>1. obj' \in [Objs -> Object] /\ depth' \in [Threads -> [Objs -> Nat]]
      BY <1>0, <1>1, UnlockOneTyped DEF Unlock, Destroying
    <2> QED
      BY <1>1, <2>1, GotoTyped DEF Unlock, TypeOK, PCs
  <1>2. CASE UnlockDenied(t)
    BY <1>2, ReturnTyped DEF UnlockDenied, TypeOK
  <1>3. CASE AfterUnlock(t)
    BY <1>3, ReturnTyped, GotoTyped DEF AfterUnlock, TypeOK, PCs
  <1>4. CASE Enumerate(t)
    BY <1>4, ReturnTyped, GotoTyped DEF Enumerate, TypeOK, PCs
  <1>5. CASE UnlockAll(t)
    <2>1. obj' \in [Objs -> Object]
      <3>1. [obj[o] EXCEPT !.count = 0, !.owner = NoThread, !.sys = NoThread]
              \in Object
        BY <1>0, FieldUpdates
      <3> QED
        BY <1>0, <1>5, <3>1, ObjectTyped DEF UnlockAll, TypeOK
    <2>2. depth' \in [Threads -> [Objs -> Nat]]
      <3>1. [depth[t] EXCEPT ![o] = 0] \in [Objs -> Nat]
        BY <1>0 DEF TypeOK
      <3>2. depth' = [depth EXCEPT ![t] = [depth[t] EXCEPT ![o] = 0]]
            \/ depth' = depth
        BY <1>5 DEF UnlockAll, TypeOK
      <3> QED
        BY <3>1, <3>2 DEF TypeOK
    <2> QED
      BY <1>5, <2>1, <2>2, ReturnTyped DEF UnlockAll, TypeOK
  <1>6. CASE Leave(t)
    <2> DEFINE w == withs[t][Len(withs[t])]
    <2>1. /\ withs[t] \in Seq(Objs) /\ withs[t] # <<>>
      BY <1>6 DEF TypeOK, Leave
    <2>2. w \in Objs /\ SubSeq(withs[t], 1, Len(withs[t]) - 1) \in Seq(Objs)
      BY <2>1
    <2>3. withs' \in [Threads -> Seq(Objs)]
      BY <1>6, <2>2 DEF Leave, TypeOK
    <2>4. obj' \in [Objs -> Object] /\ depth' \in [Threads -> [Objs -> Nat]]
      BY <1>6, <2>2, UnlockOneTyped DEF Leave, Destroying, TypeOK
    <2> QED
      BY <1>6, <2>3, <2>4 DEF Leave, TypeOK
  <1> QED
    BY <1>1, <1>2, <1>3, <1>4, <1>5, <1>6 DEF UnlockStep

LEMMA DestroyTyped ==
  ASSUME TypeOK, NEW t \in Threads, DestroyStep(t)
  PROVE  TypeOK'
  <1> DEFINE o == mptr[t]
  <1>0. o \in Objs /\ obj[o] \in Object
    BY DEF TypeOK
  <1>1. CASE MarkDestroyed(t)
    <2>1. obj' \in [Objs -> Object]
      BY <1>0, <1>1 DEF MarkDestroyed, TypeOK, Object
    <2> QED
      BY <1>1, <2>1, GotoTyped DEF MarkDestroyed, TypeOK, PCs
  <1>2. CASE Withdraw(t)
    <2>1. obj' \in [Objs -> Object]
      BY <1>0, <1>2 DEF Withdraw, TypeOK, Object
    <2> QED
      BY <1>2, <2>1, GotoTyped DEF Withdraw, TypeOK, PCs
  <1>3. CASE DestroyMutex(t)
    <2>1. obj' \in [Objs -> Object]
      BY <1>0, <1>3 DEF DestroyMutex, SystemDestroyed, TypeOK, Object
    <2> QED
      BY <1>3, <2>1, ReturnTyped DEF DestroyMutex, TypeOK
  <1>4. CASE Arm(t)
    <2>1. obj' \in [Objs -> Object]
      BY <1>0, <1>4 DEF Arm, TypeOK, Object
    <2> QED
      BY <1>4, <2>1, ReturnTyped DEF Arm, TypeOK
  <1> QED
    BY <1>1, <1>2, <1>3, <1>4 DEF DestroyStep

LEMMA NextTyped ==
  ASSUME TypeOK, OwnerHolds, [Next]_vars
  PROVE  TypeOK'
  <1>1. CASE UNCHANGED vars
    BY <1>1 DEF vars, TypeOK
  <1>2. ASSUME NEW t \in Threads, NEW c \in CallNames, Begin(t, c)
        PROVE  TypeOK'
    <2>1. pc' \in [Threads -> PCs]
      BY <1>2 DEF Begin, TypeOK, PCs
    <2>2. left' \in [Threads -> Nat]
      <3>1. CASE c = "unlock"
        BY <1>2, <3>1 DEF Begin, TypeOK
      <3>2. CASE c # "unlock"
        <4>1. left[t] - 1 \in Nat
          BY <1>2, <3>2 DEF Begin, TypeOK
        <4> QED
          BY <1>2, <3>2, <4>1 DEF Begin, TypeOK
      <3> QED
        BY <3>1, <3>2
    <2> QED
      BY <1>2, <2>1, <2>2 DEF Begin, TypeOK
  <1>3. ASSUME NEW t \in Threads, Step(t) \/ Leave(t)
        PROVE  TypeOK'
    BY <1>3, LockTyped, UnlockTyped, DestroyTyped DEF Step
  <1>4. ASSUME NEW t \in Threads, Forget(t)
        PROVE  TypeOK'
    BY <1>4 DEF Forget, TypeOK
  <1>5. ASSUME NEW t \in Threads, Collect(t)
        PROVE  TypeOK'
    <2>1. 1 \in Objs
      BY MutexAssumption DEF Objs
    <2>2. obj' \in [Objs -> Object]
      <3>1. [obj[1] EXCEPT !.sys = NoThread, !.works = FALSE, !.freed = TRUE]
              \in Object
        <4> DEFINE m == obj[1]
        <4>1. m \in Object
          BY <2>1, FieldTypes
        <4> HIDE DEF m
        <4>2. [m EXCEPT !.sys = NoThread, !.works = FALSE, !.freed = TRUE] \in Object
          BY <4>1 DEF Object
        <4> QED
          BY <4>2 DEF m
      <3> QED
        BY <1>5, <2>1, <3>1, ObjectTyped DEF Collect, TypeOK
    <2> QED
      BY <1>5, <2>2 DEF Collect, TypeOK
  <1> QED
    BY <1>1, <1>2, <1>3, <1>4, <1>5 DEF Next

-----------------------------------------------------------------------------
Invariants ==
  OwnerHolds /\ CountedLocks /\ SystemOwned /\ DestroyerOwns /\ Marked

(* A step that leaves the objects and the locks alone, and in which no     *)
(* thread starts or stops destroying an object.                            *)
LEMMA QuietStep ==
  ASSUME IInv, NEW t \in Threads,
         obj' = obj, depth' = depth,
         \A u \in Threads \ {t} : pc'[u] = pc[u] /\ mptr'[u] = mptr[u],
         pc[t] \notin {"dest", "del"}, pc'[t] \notin {"dest", "del", "fini"}
  PROVE  Invariants'
  <1>1. \A u \in Threads, o \in Objs : Destroying(u, o)' <=> Destroying(u, o)
    BY DEF Destroying
  <1>2. OwnerHolds'
    BY <1>1 DEF IInv, OwnerHolds
  <1>3. CountedLocks' /\ SystemOwned'
    BY DEF IInv, CountedLocks, SystemOwned
  <1>4. DestroyerOwns'
    BY DEF IInv, DestroyerOwns
  <1>5. Marked'
    BY DEF IInv, Marked
  <1> QED
    BY <1>2, <1>3, <1>4, <1>5 DEF Invariants

(* Thread t alone changes the locks it has on o, an object that is free or *)
(* its own unless it was destroyed.                                        *)
LEMMA OwnStep ==
  ASSUME IInv, TypeOK', NEW t \in Threads, NEW o \in Objs,
         \A u \in Threads \ {t} : pc'[u] = pc[u] /\ mptr'[u] = mptr[u],
         pc[t] \notin {"dest", "del"}, pc'[t] \notin {"dest", "del", "fini"},
         \A p \in Objs \ {o} : obj'[p] = obj[p],
         \A u \in Threads, p \in Objs :
           u # t \/ p # o => depth'[u][p] = depth[u][p],
         ~obj[o].destroyed => obj[o].owner \in {NoThread, t},
         obj'[o].destroyed = obj[o].destroyed, obj'[o].freed = obj[o].freed,
         obj'[o].works = obj[o].works,
         obj'[o].owner \in {NoThread, t},
         obj'[o].owner = t =>
           obj'[o].count >= 1 /\ depth'[t][o] >= obj'[o].count,
         ~obj[o].destroyed => obj'[o].sys = obj'[o].owner,
         ~obj[o].destroyed =>
           depth'[t][o] = IF obj'[o].owner = t THEN obj'[o].count ELSE 0
  PROVE  Invariants'
  <1>1. \A u \in Threads, p \in Objs : Destroying(u, p)' <=> Destroying(u, p)
    BY DEF Destroying
  <1>2. t # NoThread /\ \A u \in Threads : u # NoThread
    BY MutexAssumption
  <1>3. OwnerHolds'
    <2> SUFFICES ASSUME NEW p \in Objs, NEW u \in Threads,
                        obj'[p].owner = u, ~Destroying(u, p)'
                 PROVE  obj'[p].count >= 1 /\ depth'[u][p] >= obj'[p].count
      BY DEF OwnerHolds
    <2>1. CASE p = o
      BY <2>1, <1>2
    <2>2. CASE p # o
      BY <2>2, <1>1 DEF IInv, OwnerHolds
    <2> QED
      BY <2>1, <2>2
  <1>4. CountedLocks'
    <2> SUFFICES ASSUME NEW p \in Objs, ~obj'[p].destroyed,
                        NEW u \in Threads, depth'[u][p] > 0
                 PROVE  obj'[p].owner = u /\ obj'[p].count = depth'[u][p]
      BY DEF CountedLocks
    <2>1. CASE p = o /\ u = t
      BY <2>1
    <2>2. CASE p = o /\ u # t
      BY <2>2, <1>2 DEF IInv, CountedLocks
    <2>3. CASE p # o
      BY <2>3 DEF IInv, CountedLocks
    <2> QED
      BY <2>1, <2>2, <2>3
  <1>5. SystemOwned'
    BY DEF IInv, SystemOwned
  <1>6. DestroyerOwns'
    <2> SUFFICES ASSUME NEW u \in Threads, pc'[u] = "dest",
                        ~obj'[mptr'[u]].destroyed
                 PROVE  obj'[mptr'[u]].owner = u /\ depth'[u][mptr'[u]] = 0
      BY DEF DestroyerOwns
    <2>1. u # t /\ pc[u] = "dest" /\ mptr'[u] = mptr[u] /\ mptr[u] \in Objs
      BY DEF IInv, TypeOK
    <2>2. mptr[u] # o
      BY <2>1, <1>2 DEF IInv, DestroyerOwns
    <2> QED
      BY <2>1, <2>2 DEF IInv, DestroyerOwns
  <1>7. Marked'
    <2> SUFFICES ASSUME NEW u \in Threads, pc'[u] \in {"del", "fini"}
                 PROVE  obj'[mptr'[u]].destroyed
      BY DEF Marked
    <2>1. /\ u # t /\ pc[u] \in {"del", "fini"}
          /\ mptr'[u] = mptr[u] /\ mptr[u] \in Objs
      BY DEF IInv, TypeOK
    <2> QED
      BY <2>1 DEF IInv, Marked
  <1> QED
    BY <1>3, <1>4, <1>5, <1>6, <1>7 DEF Invariants

(* What Goto and Return mean for the threads and their pointers. *)
LEMMA OthersKept ==
  ASSUME TypeOK, NEW t \in Threads, NEW r, NEW p, Return(t, r) \/ Goto(t, p)
  PROVE  /\ \A u \in Threads \ {t} : pc'[u] = pc[u]
         /\ pc'[t] = "idle" \/ pc'[t] = p
  BY DEF TypeOK, Return, Goto

(* The fields of a mutex that was taken. *)
TakenFrom(m, s, n, r) == r = [m EXCEPT !.sys = s, !.owner = s, !.count = n]

LEMMA TakenFields ==
  ASSUME NEW m \in Object, NEW s, NEW n, NEW r, TakenFrom(m, s, n, r)
  PROVE  /\ r.sys = s /\ r.owner = s /\ r.count = n
         /\ r.destroyed = m.destroyed /\ r.freed = m.freed /\ r.works = m.works
  BY DEF Object, TakenFrom

(* pthread_mutex_lock() or trylock() gave o to thread t. *)
LEMMA TakeStep ==
  ASSUME IInv, TypeOK', NEW t \in Threads, NEW o \in Objs, NEW s,
         ~obj[o].freed,
         pc[t] \notin {"dest", "del"},
         obj[o].works => obj[o].sys = NoThread /\ s = t,
         obj' = [obj EXCEPT ![o] = [@ EXCEPT !.sys = s, !.owner = t, !.count = 1]],
         Granted(t, o)
  PROVE  Invariants'
  <1>1. /\ \A p \in Objs \ {o} : obj'[p] = obj[p]
        /\ obj'[o].sys = s /\ obj'[o].owner = t /\ obj'[o].count = 1
        /\ obj'[o].destroyed = obj[o].destroyed
        /\ obj'[o].freed = obj[o].freed /\ obj'[o].works = obj[o].works
    BY FieldTypes DEF IInv, TypeOK, Object
  <1>2. /\ \A u \in Threads, p \in Objs :
              u # t \/ p # o => depth'[u][p] = depth[u][p]
        /\ depth[t][o] \in Nat /\ depth'[t][o] = depth[t][o] + 1
    BY DEF Granted, IInv, TypeOK
  <1>3. /\ \A u \in Threads \ {t} : pc'[u] = pc[u] /\ mptr'[u] = mptr[u]
        /\ pc'[t] = "idle"
    BY DEF Granted, Return, IInv, TypeOK
  <1>4. ~obj[o].destroyed => obj[o].owner = NoThread /\ s = t
    BY DEF IInv, SystemOwned
  <1>5. ~obj[o].destroyed => depth[t][o] = 0
    BY <1>2, <1>4, MutexAssumption DEF IInv, CountedLocks
  <1> QED
    BY <1>1, <1>2, <1>3, <1>4, <1>5, OwnStep

(* A recursive lock or trylock. *)
LEMMA AgainStep ==
  ASSUME IInv, TypeOK', NEW t \in Threads, NEW o \in Objs,
         pc[t] \notin {"dest", "del"},
         obj[o].owner = t,
         ~obj[o].freed,
         obj' = [obj EXCEPT ![o].count = @ + 1],
         Granted(t, o)
  PROVE  Invariants'
  <1>1. /\ \A p \in Objs \ {o} : obj'[p] = obj[p]
        /\ obj'[o].sys = obj[o].sys /\ obj'[o].owner = t
        /\ obj[o].count \in Nat /\ obj'[o].count = obj[o].count + 1
        /\ obj'[o].destroyed = obj[o].destroyed
        /\ obj'[o].freed = obj[o].freed /\ obj'[o].works = obj[o].works
    BY FieldTypes DEF IInv, TypeOK, Object
  <1>2. /\ \A u \in Threads, p \in Objs :
              u # t \/ p # o => depth'[u][p] = depth[u][p]
        /\ depth[t][o] \in Nat /\ depth'[t][o] = depth[t][o] + 1
    BY DEF Granted, IInv, TypeOK
  <1>3. /\ \A u \in Threads \ {t} : pc'[u] = pc[u] /\ mptr'[u] = mptr[u]
        /\ pc'[t] = "idle"
    BY DEF Granted, Return, IInv, TypeOK
  <1>4. /\ obj[o].count >= 1 /\ depth[t][o] >= obj[o].count
    BY DEF IInv, OwnerHolds, Destroying
  <1>5. ~obj[o].destroyed => depth[t][o] = obj[o].count /\ obj[o].sys = t
    BY <1>1, <1>2, <1>4 DEF IInv, CountedLocks, SystemOwned
  <1> QED
    BY <1>1, <1>2, <1>3, <1>4, <1>5, OwnStep

(* PL_mutex_unlock() by the owner. *)
LEMMA UnlockOneStep ==
  ASSUME IInv, TypeOK', NEW t \in Threads, NEW o \in Objs,
         pc[t] \notin {"dest", "del"}, pc'[t] \notin {"dest", "del", "fini"},
         \A u \in Threads \ {t} : pc'[u] = pc[u], mptr' = mptr,
         obj[o].owner = t,
         ~obj[o].freed,
         UnlockOne(t, o)
  PROVE  Invariants'
  <1> DEFINE n == obj[o].count - 1
  <1>1. /\ \A p \in Objs \ {o} : obj'[p] = obj[p]
        /\ obj'[o].sys = (IF n = 0 THEN NoThread ELSE obj[o].sys)
        /\ obj'[o].owner = (IF n = 0 THEN NoThread ELSE t)
        /\ obj[o].count \in Nat /\ obj'[o].count = n
        /\ obj'[o].destroyed = obj[o].destroyed
        /\ obj'[o].freed = obj[o].freed /\ obj'[o].works = obj[o].works
    BY FieldTypes DEF IInv, TypeOK, Object, UnlockOne
  <1>2. /\ \A u \in Threads, p \in Objs :
              u # t \/ p # o => depth'[u][p] = depth[u][p]
        /\ depth[t][o] \in Nat /\ depth'[t][o] = depth[t][o] - 1
    BY DEF UnlockOne, IInv, TypeOK
  <1>4. /\ obj[o].count >= 1 /\ depth[t][o] >= obj[o].count
    BY DEF IInv, OwnerHolds, Destroying
  <1>5. ~obj[o].destroyed => depth[t][o] = obj[o].count /\ obj[o].sys = t
    BY <1>1, <1>2, <1>4 DEF IInv, CountedLocks, SystemOwned
  <1>6. /\ obj'[o].owner \in {NoThread, t}
        /\ obj'[o].owner = t =>
             obj'[o].count >= 1 /\ depth'[t][o] >= obj'[o].count
        /\ ~obj[o].destroyed => obj'[o].sys = obj'[o].owner
        /\ ~obj[o].destroyed =>
             depth'[t][o] = IF obj'[o].owner = t THEN obj'[o].count ELSE 0
    BY <1>1, <1>2, <1>4, <1>5, MutexAssumption
  <1> QED
    BY <1>1, <1>2, <1>6, OwnStep

LEMMA LockInvariants ==
  ASSUME IInv, TypeOK', NEW t \in Threads, LockStep(t)
  PROVE  Invariants'
  <1> DEFINE o == mptr[t]
  <1>0. TypeOK /\ o \in Objs
    BY DEF IInv, TypeOK
  <1>1. CASE Create(t) \/ Get(t) \/ CheckDestroyed(t) \/ LockOther(t) \/ TryBusy(t)
    <2>1. /\ obj' = obj /\ depth' = depth
          /\ pc[t] \notin {"dest", "del"} /\ pc'[t] \notin {"dest", "del", "fini"}
          /\ \A u \in Threads \ {t} : pc'[u] = pc[u]
      <3>1. CASE Create(t)
        BY <1>0, <3>1 DEF Create, Return, TypeOK
      <3>2. CASE Get(t)
        BY <1>0, <3>2 DEF Get, Return, Goto, TypeOK
      <3>3. CASE CheckDestroyed(t)
        BY <1>0, <3>3 DEF CheckDestroyed, Return, Goto, TypeOK
      <3>4. CASE LockOther(t)
        BY <1>0, <3>4 DEF LockOther, Goto, TypeOK
      <3>5. CASE TryBusy(t)
        BY <1>0, <3>5 DEF TryBusy, NotNow, Return, Goto, TypeOK
      <3> QED
        BY <1>1, <3>1, <3>2, <3>3, <3>4, <3>5
    <2>2. \A u \in Threads \ {t} : mptr'[u] = mptr[u]
      BY <1>0, <1>1
      DEF Create, Get, CheckDestroyed, LockOther, TryBusy, TypeOK
    <2> QED
      BY <2>1, <2>2, QuietStep
  <1>2. CASE LockAgain(t)
    BY <1>0, <1>2, AgainStep DEF LockAgain, Valid
  <1>3. CASE LockTake(t)
    <2>1. PICK s : /\ obj[o].works => obj[o].sys = NoThread /\ s = t
                   /\ obj' = [obj EXCEPT ![o] =
                                [@ EXCEPT !.sys = s, !.owner = t, !.count = 1]]
      BY <1>3 DEF LockTake
    <2> QED
      BY <1>0, <1>3, <2>1, TakeStep DEF LockTake, Valid
  <1>4. CASE TryAgain(t)
    <2>1. CASE call[t] = "trylock"
      BY <1>0, <1>4, <2>1, AgainStep DEF TryAgain, Valid
    <2>2. CASE call[t] # "trylock"
      <3>1. /\ obj' = obj /\ depth' = depth /\ mptr' = mptr
            /\ pc[t] \notin {"dest", "del"} /\ pc'[t] \notin {"dest", "del", "fini"}
            /\ \A u \in Threads \ {t} : pc'[u] = pc[u]
        <4>1. /\ obj' = obj /\ depth' = depth /\ mptr' = mptr /\ pc[t] = "try"
              /\ Goto(t, "arm") \/ Return(t, "ok")
          BY <1>4, <2>2 DEF TryAgain, NotNow
        <4>2. \A u \in Threads \ {t} : pc'[u] = pc[u]
          BY <1>0, <4>1, OthersKept
        <4>3. pc'[t] \in {"idle", "arm"}
          BY <1>0, <4>1 DEF Goto, Return, TypeOK
        <4> QED
          BY <4>1, <4>2, <4>3
      <3> QED
        BY <3>1, QuietStep
    <2> QED
      BY <2>1, <2>2
  <1>5. CASE TryTake(t)
    <2>1. CASE call[t] = "trylock"
      BY <1>0, <1>5, <2>1, TakeStep DEF TryTake, Valid
    <2>2. CASE call[t] # "trylock"
      <3>1. /\ \A p \in Objs \ {o} : obj'[p] = obj[p]
            /\ obj'[o].sys = t /\ obj'[o].owner = t /\ obj'[o].count = 1
            /\ obj'[o].destroyed = obj[o].destroyed
            /\ obj'[o].freed = obj[o].freed /\ obj'[o].works = obj[o].works
            /\ obj[o].works /\ obj[o].sys = NoThread /\ ~obj[o].freed
        <4> DEFINE m == obj[o]
        <4>1. m \in Object /\ obj' = [obj EXCEPT ![o] =
                [m EXCEPT !.sys = t, !.owner = t, !.count = 1]]
          BY <1>0, <1>5, FieldTypes DEF TryTake
        <4>2. m.works /\ m.sys = NoThread /\ ~m.freed
          BY <1>5 DEF TryTake, Valid
        <4> DEFINE r == obj'[o]
                   n == 1
        <4> HIDE DEF m
        <4>3. \A p \in Objs \ {o} : obj'[p] = obj[p]
          BY <1>0, <4>1 DEF TypeOK
        <4>4. TakenFrom(m, t, n, r)
          BY <1>0, <4>1 DEF TypeOK, TakenFrom
        <4> HIDE DEF r, n
        <4>5. /\ r.sys = t /\ r.owner = t /\ r.count = n
              /\ r.destroyed = m.destroyed
              /\ r.freed = m.freed /\ r.works = m.works
          <5>1. m \in Object
            BY <4>1
          <5> QED
            BY <4>4, <5>1, TakenFields
        <4> QED
          BY <4>2, <4>3, <4>5 DEF m, r, n
      <3>2. /\ \A u \in Threads \ {t} : pc'[u] = pc[u]
            /\ depth' = depth /\ mptr' = mptr
            /\ pc[t] = "try" /\ pc'[t] = "dest"
        BY <1>0, <1>5, <2>2 DEF TryTake, Goto, TypeOK
      <3>3. ~obj[o].destroyed => obj[o].owner = NoThread
        BY <1>0, <3>1 DEF IInv, SystemOwned
      <3>4. ~obj[o].destroyed => \A u \in Threads : depth[u][o] = 0
        <4>1. \A u \in Threads : depth[u][o] \in Nat /\ u # NoThread
          BY <1>0, FieldTypes, MutexAssumption
        <4> QED
          BY <1>0, <4>1, <3>3 DEF IInv, CountedLocks
      <3>5. \A u \in Threads, p \in Objs : Destroying(u, p) => Destroying(u, p)'
        BY <3>2 DEF Destroying
      <3>6. OwnerHolds'
        <4> SUFFICES ASSUME NEW p \in Objs, NEW u \in Threads,
                            obj'[p].owner = u, ~Destroying(u, p)'
                     PROVE  obj'[p].count >= 1 /\ depth'[u][p] >= obj'[p].count
          BY DEF OwnerHolds
        <4>1. p # o
          <5> SUFFICES ASSUME p = o PROVE FALSE
            OBVIOUS
          <5>1. u = t
            BY <3>1
          <5> QED
            BY <5>1, <3>2 DEF Destroying
        <4>2. obj[p].owner = u /\ ~Destroying(u, p)
          BY <4>1, <3>1, <3>5
        <4>3. obj[p].count >= 1 /\ depth[u][p] >= obj[p].count
          BY <4>2 DEF IInv, OwnerHolds
        <4> QED
          BY <4>1, <4>3, <3>1, <3>2
      <3>7. CountedLocks'
        BY <3>1, <3>2, <3>4 DEF IInv, CountedLocks
      <3>8. SystemOwned'
        BY <3>1 DEF IInv, SystemOwned
      <3>9. DestroyerOwns'
        <4> SUFFICES ASSUME NEW u \in Threads, pc'[u] = "dest",
                            ~obj'[mptr[u]].destroyed
                     PROVE  obj'[mptr[u]].owner = u /\ depth[u][mptr[u]] = 0
          BY <3>2 DEF DestroyerOwns
        <4>1. CASE u = t
          BY <4>1, <1>0, <3>1, <3>4
        <4>2. CASE u # t
          <5>1. pc[u] = "dest" /\ mptr[u] \in Objs /\ u # NoThread
            BY <4>2, <3>2, <1>0, MutexAssumption DEF TypeOK
          <5>2. mptr[u] # o
            BY <5>1, <3>1, <3>3 DEF IInv, DestroyerOwns
          <5> QED
            BY <5>1, <5>2, <3>1 DEF IInv, DestroyerOwns
        <4> QED
          BY <4>1, <4>2
      <3>10. Marked'
        <4> SUFFICES ASSUME NEW u \in Threads, pc'[u] \in {"del", "fini"}
                     PROVE  obj'[mptr[u]].destroyed
          BY <3>2 DEF Marked
        <4>1. pc[u] \in {"del", "fini"} /\ mptr[u] \in Objs
          BY <1>0, <3>2 DEF TypeOK
        <4>2. obj[mptr[u]].destroyed
          BY <4>1 DEF IInv, Marked
        <4> QED
          BY <4>1, <4>2, <3>1
      <3> QED
        BY <3>6, <3>7, <3>8, <3>9, <3>10 DEF Invariants
    <2> QED
      BY <2>1, <2>2
  <1> QED
    BY <1>1, <1>2, <1>3, <1>4, <1>5 DEF LockStep

LEMMA UnlockInvariants ==
  ASSUME IInv, TypeOK', NEW t \in Threads, UnlockStep(t) \/ Leave(t)
  PROVE  Invariants'
  <1> DEFINE o == mptr[t]
  <1>0. TypeOK /\ o \in Objs
    BY DEF IInv, TypeOK
  <1>1. CASE UnlockDenied(t) \/ AfterUnlock(t) \/ Enumerate(t)
    <2>1. /\ obj' = obj /\ depth' = depth
          /\ pc[t] \notin {"dest", "del"} /\ pc'[t] \notin {"dest", "del", "fini"}
          /\ \A u \in Threads \ {t} : pc'[u] = pc[u]
      <3>1. /\ obj' = obj /\ depth' = depth
            /\ pc[t] \notin {"dest", "del"}
            /\ \/ Return(t, "permission") \/ Return(t, "ok")
               \/ Goto(t, "try") \/ Goto(t, "visit")
        BY <1>1 DEF UnlockDenied, AfterUnlock, Enumerate
      <3>2. \A u \in Threads \ {t} : pc'[u] = pc[u]
        BY <1>0, <3>1, OthersKept
      <3>3. pc'[t] \in {"idle", "try", "visit"}
        BY <1>0, <3>1 DEF Return, Goto, TypeOK
      <3> QED
        BY <3>1, <3>2, <3>3
    <2>2. \A u \in Threads \ {t} : mptr'[u] = mptr[u]
      BY <1>0, <1>1 DEF UnlockDenied, AfterUnlock, Enumerate, TypeOK
    <2> QED
      BY <2>1, <2>2, QuietStep
  <1>2. CASE Unlock(t)
    <2>1. /\ pc[t] = "ready" /\ pc'[t] = "after"
          /\ \A u \in Threads \ {t} : pc'[u] = pc[u]
          /\ mptr' = mptr
      BY <1>0, <1>2 DEF Unlock, Goto, TypeOK
    <2> QED
      BY <1>0, <1>2, <2>1, UnlockOneStep DEF Unlock, Valid
  <1>3. CASE UnlockAll(t)
    <2>1. /\ pc[t] = "visit" /\ pc'[t] = "idle"
          /\ \A u \in Threads \ {t} : pc'[u] = pc[u]
          /\ mptr' = mptr
      BY <1>0, <1>3 DEF UnlockAll, Return, TypeOK
    <2>2. CASE obj[o].owner = t
      <3>0. /\ obj' = [obj EXCEPT ![o] = [obj[o] EXCEPT !.count = 0,
                                   !.owner = NoThread, !.sys = NoThread]]
            /\ depth' = [depth EXCEPT ![t][o] = 0]
        BY <1>3, <2>2 DEF UnlockAll
      <3>1. /\ \A p \in Objs \ {o} : obj'[p] = obj[p]
            /\ obj'[o].sys = NoThread /\ obj'[o].owner = NoThread
            /\ obj'[o].destroyed = obj[o].destroyed
            /\ obj'[o].freed = obj[o].freed /\ obj'[o].works = obj[o].works
        BY <1>0, <3>0, FieldTypes DEF TypeOK, Object
      <3>2. /\ \A u \in Threads, p \in Objs :
                  u # t \/ p # o => depth'[u][p] = depth[u][p]
            /\ depth'[t][o] = 0
        BY <1>0, <3>0 DEF TypeOK
      <3> QED
        BY <1>0, <2>1, <2>2, <3>1, <3>2, OwnStep, MutexAssumption
    <2>3. CASE obj[o].owner # t
      <3>1. obj' = obj /\ depth' = depth
        BY <1>3, <2>3 DEF UnlockAll
      <3> QED
        BY <2>1, <3>1, QuietStep
    <2> QED
      BY <2>2, <2>3
  <1>4. CASE Leave(t)
    <2> DEFINE w == withs[t][Len(withs[t])]
    <2>1. w \in Objs /\ pc' = pc /\ mptr' = mptr /\ pc[t] = "idle"
      <3>1. withs[t] \in Seq(Objs) /\ withs[t] # <<>>
        BY <1>0, <1>4 DEF Leave, TypeOK
      <3> QED
        BY <3>1, <1>4 DEF Leave
    <2>2. CASE obj[w].owner = t
      BY <1>4, <2>1, <2>2, UnlockOneStep DEF Leave
    <2>3. CASE obj[w].owner # t
      BY <1>4, <2>1, <2>3, QuietStep DEF Leave
    <2> QED
      BY <2>2, <2>3
  <1> QED
    BY <1>1, <1>2, <1>3, <1>4 DEF UnlockStep

(* A destroyer works on an object that is marked. *)
LEMMA DestroyedStep ==
  ASSUME IInv, TypeOK, NEW t \in Threads, NEW o \in Objs, o = mptr[t],
         \A p \in Objs \ {o} : obj'[p] = obj[p],
         \A u \in Threads \ {t} : pc'[u] = pc[u],
         depth' = depth, mptr' = mptr,
         obj[o].destroyed, obj'[o].destroyed,
         \/ obj'[o].owner = NoThread /\ pc'[t] = "fini"
         \/ /\ obj'[o].owner = obj[o].owner /\ obj'[o].count = obj[o].count
            /\ pc[t] = "fini" /\ pc'[t] = "idle"
  PROVE  Invariants'
  <1>1. \A u \in Threads, p \in Objs \ {o} : Destroying(u, p)' <=> Destroying(u, p)
    BY DEF Destroying
  <1>2. OwnerHolds'
    <2> SUFFICES ASSUME NEW p \in Objs, NEW u \in Threads,
                        obj'[p].owner = u, ~Destroying(u, p)'
                 PROVE  obj'[p].count >= 1 /\ depth[u][p] >= obj'[p].count
      BY DEF OwnerHolds
    <2>1. CASE p # o
      BY <2>1, <1>1 DEF IInv, OwnerHolds
    <2>2. CASE p = o
      <3>1. /\ obj'[o].owner = obj[o].owner /\ obj'[o].count = obj[o].count
            /\ pc[t] = "fini" /\ pc'[t] = "idle"
        BY <2>2, MutexAssumption
      <3>2. ~Destroying(u, o)
        BY <2>2, <3>1 DEF Destroying
      <3> QED
        BY <2>2, <3>1, <3>2 DEF IInv, OwnerHolds
    <2> QED
      BY <2>1, <2>2
  <1>3. CountedLocks' /\ SystemOwned'
    BY DEF IInv, CountedLocks, SystemOwned
  <1>4. DestroyerOwns'
    <2> SUFFICES ASSUME NEW u \in Threads, pc'[u] = "dest",
                        ~obj'[mptr[u]].destroyed
                 PROVE  obj'[mptr[u]].owner = u /\ depth[u][mptr[u]] = 0
      BY DEF DestroyerOwns
    <2>1. pc[u] = "dest" /\ mptr[u] \in Objs \ {o}
      BY DEF TypeOK
    <2> QED
      BY <2>1 DEF IInv, DestroyerOwns
  <1>5. Marked'
    <2> SUFFICES ASSUME NEW u \in Threads, pc'[u] \in {"del", "fini"}
                 PROVE  obj'[mptr[u]].destroyed
      BY DEF Marked
    <2>1. CASE u = t
      BY <2>1
    <2>2. CASE u # t
      <3>1. pc[u] \in {"del", "fini"} /\ mptr[u] \in Objs
        BY <2>2 DEF TypeOK
      <3>2. obj[mptr[u]].destroyed
        BY <3>1 DEF IInv, Marked
      <3> QED
        BY <3>1, <3>2
    <2> QED
      BY <2>1, <2>2
  <1> QED
    BY <1>2, <1>3, <1>4, <1>5 DEF Invariants

(* A step that only changes a flag the invariant does not speak of. *)
LEMMA FlagStep ==
  ASSUME IInv, TypeOK, NEW t \in Threads, NEW o \in Objs,
         \A p \in Objs \ {o} : obj'[p] = obj[p],
         obj'[o].owner = obj[o].owner, obj'[o].count = obj[o].count,
         obj'[o].destroyed = obj[o].destroyed,
         \/ obj'[o].freed
         \/ /\ obj'[o].sys = obj[o].sys /\ obj'[o].works = obj[o].works
            /\ obj'[o].freed = obj[o].freed,
         \A u \in Threads \ {t} : pc'[u] = pc[u],
         depth' = depth, mptr' = mptr,
         pc[t] \notin {"dest", "del", "fini"},
         pc'[t] \notin {"dest", "del", "fini"}
  PROVE  Invariants'
  <1>1. \A u \in Threads, p \in Objs : Destroying(u, p)' <=> Destroying(u, p)
    BY DEF Destroying
  <1>2. \A p \in Objs : /\ obj'[p].owner = obj[p].owner
                        /\ obj'[p].count = obj[p].count
                        /\ obj'[p].destroyed = obj[p].destroyed
    OBVIOUS
  <1>3. OwnerHolds'
    BY <1>1, <1>2 DEF IInv, OwnerHolds
  <1>4. CountedLocks'
    BY <1>2 DEF IInv, CountedLocks
  <1>5. SystemOwned'
    BY DEF IInv, SystemOwned
  <1>6. \A u \in Threads : mptr[u] \in Objs
    BY DEF TypeOK
  <1>7. DestroyerOwns'
    BY <1>2, <1>6 DEF IInv, DestroyerOwns
  <1>8. Marked'
    BY <1>2, <1>6 DEF IInv, Marked
  <1> QED
    BY <1>3, <1>4, <1>5, <1>7, <1>8 DEF Invariants

LEMMA DestroyInvariants ==
  ASSUME IInv, TypeOK', NEW t \in Threads, DestroyStep(t)
  PROVE  Invariants'
  <1> DEFINE o == mptr[t]
  <1>0. TypeOK /\ o \in Objs
    BY DEF IInv, TypeOK
  <1>1. CASE MarkDestroyed(t)
    <2>1. /\ \A p \in Objs \ {o} : obj'[p] = obj[p]
          /\ obj'[o].owner = obj[o].owner /\ obj'[o].count = obj[o].count
          /\ obj'[o].destroyed
      BY <1>0, <1>1, FieldTypes DEF MarkDestroyed, TypeOK, Object
    <2>2. /\ \A u \in Threads \ {t} : pc'[u] = pc[u]
          /\ depth' = depth /\ mptr' = mptr
          /\ pc[t] = "dest" /\ pc'[t] = "del"
      BY <1>0, <1>1 DEF MarkDestroyed, Goto, TypeOK
    <2>3. \A u \in Threads, p \in Objs : Destroying(u, p)' <=> Destroying(u, p)
      BY <2>2 DEF Destroying
    <2>4. OwnerHolds'
      BY <2>1, <2>2, <2>3 DEF IInv, OwnerHolds
    <2>5. CountedLocks' /\ SystemOwned'
      BY <2>1, <2>2 DEF IInv, CountedLocks, SystemOwned
    <2>6. DestroyerOwns'
      <3> SUFFICES ASSUME NEW u \in Threads, pc'[u] = "dest",
                          ~obj'[mptr[u]].destroyed
                   PROVE  obj'[mptr[u]].owner = u /\ depth[u][mptr[u]] = 0
        BY <2>2 DEF DestroyerOwns
      <3>1. pc[u] = "dest" /\ mptr[u] \in Objs \ {o}
        BY <1>0, <2>1, <2>2 DEF TypeOK
      <3> QED
        BY <3>1, <2>1 DEF IInv, DestroyerOwns
    <2>7. Marked'
      BY <1>0, <2>1, <2>2 DEF IInv, Marked, TypeOK
    <2> QED
      BY <2>4, <2>5, <2>6, <2>7 DEF Invariants
  <1>2. CASE Withdraw(t)
    <2>1. /\ \A p \in Objs \ {o} : obj'[p] = obj[p]
          /\ obj'[o].owner = NoThread
          /\ obj'[o].destroyed = obj[o].destroyed
      BY <1>0, <1>2, FieldTypes DEF Withdraw, TypeOK, Object
    <2>2. /\ \A u \in Threads \ {t} : pc'[u] = pc[u]
          /\ depth' = depth /\ mptr' = mptr
          /\ pc[t] = "del" /\ pc'[t] = "fini"
      BY <1>0, <1>2 DEF Withdraw, Goto, TypeOK
    <2>3. obj[o].destroyed
      BY <2>2 DEF IInv, Marked
    <2> QED
      BY <1>0, <2>1, <2>2, <2>3, DestroyedStep
  <1>3. CASE DestroyMutex(t)
    <2>1. /\ \A p \in Objs \ {o} : obj'[p] = obj[p]
          /\ obj'[o].owner = obj[o].owner /\ obj'[o].count = obj[o].count
          /\ obj'[o].destroyed = obj[o].destroyed
      BY <1>0, <1>3, FieldTypes DEF DestroyMutex, SystemDestroyed, TypeOK, Object
    <2>2. /\ \A u \in Threads \ {t} : pc'[u] = pc[u]
          /\ depth' = depth /\ mptr' = mptr
          /\ pc[t] = "fini" /\ pc'[t] = "idle"
      BY <1>0, <1>3 DEF DestroyMutex, Return, TypeOK
    <2>3. obj[o].destroyed
      BY <2>2 DEF IInv, Marked
    <2> QED
      BY <1>0, <2>1, <2>2, <2>3, DestroyedStep
  <1>4. CASE Arm(t)
    <2>1. /\ \A p \in Objs \ {o} : obj'[p] = obj[p]
          /\ obj'[o].owner = obj[o].owner /\ obj'[o].count = obj[o].count
          /\ obj'[o].sys = obj[o].sys /\ obj'[o].works = obj[o].works
          /\ obj'[o].destroyed = obj[o].destroyed
          /\ obj'[o].freed = obj[o].freed
      BY <1>0, <1>4, FieldTypes DEF Arm, TypeOK, Object
    <2>2. /\ \A u \in Threads \ {t} : pc'[u] = pc[u]
          /\ depth' = depth /\ mptr' = mptr
          /\ pc[t] = "arm" /\ pc'[t] = "idle"
      BY <1>0, <1>4 DEF Arm, Return, TypeOK
    <2> QED
      BY <1>0, <2>1, <2>2, FlagStep
  <1> QED
    BY <1>1, <1>2, <1>3, <1>4 DEF DestroyStep

-----------------------------------------------------------------------------
LEMMA InitInvariant ==
  ASSUME Init
  PROVE  IInv
  <1>1. TypeOK
    <2>1. NewObject \in Object
      BY DEF NewObject, Object
    <2>2. 1 \in Objs
      BY MutexAssumption DEF Objs
    <2>3. obj \in [Objs -> Object] /\ depth \in [Threads -> [Objs -> Nat]]
      BY <2>1 DEF Init
    <2>4. /\ withs \in [Threads -> Seq(Objs)]
          /\ mptr \in [Threads -> Objs]
          /\ left \in [Threads -> Nat]
      BY <2>2, MutexAssumption DEF Init
    <2>5. /\ pc \in [Threads -> PCs]
          /\ made \in Nat /\ table \in Objs \cup {NoObj} /\ refs \subseteq Threads
      BY <2>2 DEF Init, PCs
    <2>6. /\ call \in [Threads -> CallNames \cup {"none"}]
          /\ reply \in [Threads -> {"none", "ok", "fail", "existence",
                                   "permission"}]
      BY DEF Init
    <2> QED
      BY <2>3, <2>4, <2>5, <2>6 DEF TypeOK
  <1>2. OwnerHolds
    BY MutexAssumption DEF Init, OwnerHolds, NewObject
  <1>3. CountedLocks
    BY DEF Init, CountedLocks
  <1>4. SystemOwned
    BY DEF Init, SystemOwned, NewObject
  <1>5. DestroyerOwns /\ Marked
    BY DEF Init, DestroyerOwns, Marked
  <1> QED
    BY <1>1, <1>2, <1>3, <1>4, <1>5 DEF IInv

LEMMA NextInvariant ==
  ASSUME IInv, [Next]_vars
  PROVE  IInv'
  <1>0. TypeOK /\ TypeOK'
    BY NextTyped DEF IInv
  <1>1. CASE UNCHANGED vars
    BY <1>1, <1>0
    DEF vars, IInv, OwnerHolds, CountedLocks, SystemOwned, DestroyerOwns, Marked,
        Destroying
  <1>2. ASSUME NEW t \in Threads, NEW c \in CallNames, Begin(t, c)
        PROVE  Invariants'
    <2>1. /\ pc[t] = "idle" /\ pc'[t] \in {"get", "create", "enum"}
          /\ \A u \in Threads \ {t} : pc'[u] = pc[u]
      BY <1>0, <1>2 DEF Begin, TypeOK
    <2> QED
      BY <1>2, <2>1, QuietStep DEF Begin
  <1>3. ASSUME NEW t \in Threads, Step(t) \/ Leave(t)
        PROVE  Invariants'
    BY <1>0, <1>3, LockInvariants, UnlockInvariants, DestroyInvariants DEF Step
  <1>4. ASSUME NEW t \in Threads, Forget(t)
        PROVE  Invariants'
    BY <1>4, QuietStep DEF Forget
  <1>5. ASSUME NEW t \in Threads, Collect(t)
        PROVE  Invariants'
    <2>1. 1 \in Objs
      BY MutexAssumption DEF Objs
    <2>2. CASE obj' = obj
      BY <1>5, <2>2, QuietStep DEF Collect
    <2>3. CASE obj' # obj
      <3>1. /\ \A p \in Objs \ {1} : obj'[p] = obj[p]
            /\ obj'[1].owner = obj[1].owner /\ obj'[1].count = obj[1].count
            /\ obj'[1].destroyed = obj[1].destroyed /\ obj'[1].freed
        <4>1. obj' = [obj EXCEPT ![1] =
                 [obj[1] EXCEPT !.sys = NoThread, !.works = FALSE, !.freed = TRUE]]
          BY <1>5, <2>3 DEF Collect
        <4> QED
          BY <1>0, <2>1, <4>1, FieldTypes DEF TypeOK, Object
      <3> QED
        BY <1>0, <1>5, <2>1, <3>1, FlagStep DEF Collect
    <2> QED
      BY <2>2, <2>3
  <1>6. CASE Next
    BY <1>0, <1>2, <1>3, <1>4, <1>5, <1>6 DEF Next, Invariants, IInv
  <1> QED
    BY <1>1, <1>6

LEMMA Invariance == Spec => []IInv
  BY InitInvariant, NextInvariant, PTL DEF Spec

(* Every variable has its type: no count of locks is ever negative, though *)
(* mutex_unlock/1 decrements it without a check.                           *)
THEOREM MutexTypes == Spec => []TypeOK
  <1>1. IInv => TypeOK
    BY DEF IInv
  <1> QED
    BY <1>1, Invariance, PTL

(* owner and count tell the truth about every mutex that is not destroyed. *)
THEOREM TrueFields == Spec => []CountedLocks
  <1>1. IInv => CountedLocks
    BY DEF IInv
  <1> QED
    BY <1>1, Invariance, PTL

(* A mutex that is not destroyed is held by one thread at a time.          *)
THEOREM Exclusion == Spec => []LiveExclusion
  <1>1. IInv => LiveExclusion
    BY DEF IInv, CountedLocks, LiveExclusion
  <1> QED
    BY <1>1, Invariance, PTL

(* Three fields of an object are assigned: the others stay. *)
LEMMA MarkKept ==
  ASSUME TypeOK, NEW w, NEW n, NEW a, NEW s,
         obj' = [obj EXCEPT ![w] = [obj[w] EXCEPT !.count = n, !.owner = a,
                                                  !.sys = s]]
  PROVE  \A p \in Objs : obj'[p].destroyed = obj[p].destroyed
  <1> SUFFICES ASSUME NEW p \in Objs
               PROVE  obj'[p].destroyed = obj[p].destroyed
    OBVIOUS
  <1>1. obj[p] \in Object
    BY FieldTypes
  <1>2. CASE p = w
    BY <1>1, <1>2 DEF TypeOK, Object
  <1>3. CASE p # w
    BY <1>3 DEF TypeOK
  <1> QED
    BY <1>2, <1>3

(* Nobody else marks an object as destroyed. *)
LEMMA OnlyMarkDestroyed ==
  ASSUME IInv, NEW t \in Threads,
         \/ LockStep(t) \/ UnlockStep(t) \/ Leave(t)
         \/ Withdraw(t) \/ DestroyMutex(t) \/ Arm(t) \/ Forget(t) \/ Collect(t)
  PROVE  \A p \in Objs : obj'[p].destroyed = obj[p].destroyed
  <1> DEFINE o == mptr[t]
  <1>0. TypeOK /\ o \in Objs /\ obj \in [Objs -> Object]
    BY DEF IInv, TypeOK
  <1>1. CASE LockStep(t)
    <2>1. CASE \/ Create(t) \/ Get(t) \/ CheckDestroyed(t)
               \/ LockOther(t) \/ TryBusy(t)
      BY <2>1 DEF Create, Get, CheckDestroyed, LockOther, TryBusy
    <2>2. CASE LockAgain(t)
      BY <1>0, <2>2 DEF LockAgain, Object
    <2>3. CASE LockTake(t)
      BY <1>0, <2>3 DEF LockTake, Object
    <2>4. CASE TryAgain(t)
      BY <1>0, <2>4 DEF TryAgain, Object
    <2>5. CASE TryTake(t)
      BY <1>0, <2>5 DEF TryTake, Object
    <2> QED
      BY <1>1, <2>1, <2>2, <2>3, <2>4, <2>5 DEF LockStep
  <1>2. CASE UnlockStep(t)
    <2>1. CASE Unlock(t)
      BY <1>0, <2>1, MarkKept DEF Unlock, UnlockOne
    <2>2. CASE UnlockDenied(t) \/ AfterUnlock(t) \/ Enumerate(t)
      BY <2>2 DEF UnlockDenied, AfterUnlock, Enumerate
    <2>3. CASE UnlockAll(t)
      <3>1. \/ obj' = obj
            \/ obj' = [obj EXCEPT ![o] = [obj[o] EXCEPT !.count = 0,
                                   !.owner = NoThread, !.sys = NoThread]]
        BY <2>3 DEF UnlockAll
      <3> QED
        BY <1>0, <3>1, MarkKept
    <2> QED
      BY <1>2, <2>1, <2>2, <2>3 DEF UnlockStep
  <1>3. CASE Leave(t)
    <2> DEFINE w == withs[t][Len(withs[t])]
    <2>1. obj' = obj \/ UnlockOne(t, w)
      BY <1>3 DEF Leave
    <2> HIDE DEF w
    <2> QED
      <3>1. CASE UnlockOne(t, w)
        <4> DEFINE n == obj[w].count - 1
                   a == IF n = 0 THEN NoThread ELSE t
                   s == IF n = 0 THEN NoThread ELSE obj[w].sys
        <4>1. obj' = [obj EXCEPT ![w] = [obj[w] EXCEPT !.count = n,
                                                 !.owner = a, !.sys = s]]
          BY <3>1 DEF UnlockOne
        <4> HIDE DEF n, a, s
        <4> QED
          BY <1>0, <4>1, MarkKept
      <3> QED
        BY <2>1, <3>1
  <1>4. CASE Withdraw(t)
    BY <1>0, <1>4 DEF Withdraw, Object
  <1>5. CASE DestroyMutex(t)
    BY <1>0, <1>5 DEF DestroyMutex, SystemDestroyed, Object
  <1>6. CASE Arm(t)
    BY <1>0, <1>6 DEF Arm, Object
  <1>7. CASE Forget(t)
    BY <1>7 DEF Forget
  <1>8. CASE Collect(t)
    <2>1. \/ obj' = obj
          \/ obj' = [obj EXCEPT ![1] = [obj[1] EXCEPT !.sys = NoThread,
                                 !.works = FALSE, !.freed = TRUE]]
      BY <1>8 DEF Collect
    <2>2. 1 \in Objs /\ obj[1] \in Object
      BY <1>0, MutexAssumption DEF Objs
    <2> QED
      BY <1>0, <2>1, <2>2 DEF Object
  <1> QED
    BY <1>1, <1>2, <1>3, <1>4, <1>5, <1>6, <1>7, <1>8

(* try_really_destroy_mutex() marks only a mutex that nobody holds.        *)
THEOREM OnlyUnheldDestroyed == Spec => DestroyedUnheld
  <1>1. ASSUME IInv, [Next]_vars
        PROVE  [\A o \in Objs : obj'[o].destroyed /\ ~obj[o].destroyed =>
                  \A t \in Threads : depth[t][o] = 0]_vars
    <2> SUFFICES ASSUME Next, NEW o \in Objs,
                        obj'[o].destroyed, ~obj[o].destroyed,
                        NEW u \in Threads
                 PROVE  depth[u][o] = 0
      BY <1>1 DEF vars
    <2>1. PICK t \in Threads :
            \/ \E c \in CallNames : Begin(t, c)
            \/ Step(t) \/ Leave(t) \/ Forget(t) \/ Collect(t)
      BY DEF Next
    <2>2. MarkDestroyed(t)
      <3>1. ~ \E c \in CallNames : Begin(t, c)
        BY DEF Begin
      <3>2. Step(t) => LockStep(t) \/ UnlockStep(t) \/ MarkDestroyed(t)
                       \/ Withdraw(t) \/ DestroyMutex(t) \/ Arm(t)
        BY DEF Step, DestroyStep
      <3>3. ~(\/ LockStep(t) \/ UnlockStep(t) \/ Leave(t) \/ Withdraw(t)
              \/ DestroyMutex(t) \/ Arm(t) \/ Forget(t) \/ Collect(t))
        BY <1>1, OnlyMarkDestroyed
      <3> QED
        BY <2>1, <3>1, <3>2, <3>3
    <2>3. TypeOK /\ mptr[t] \in Objs
      BY <1>1 DEF IInv, TypeOK
    <2>4. o = mptr[t]
      BY <2>2, <2>3 DEF MarkDestroyed, TypeOK
    <2>5. obj[o].owner = t /\ depth[t][o] = 0
      BY <1>1, <2>2, <2>4 DEF MarkDestroyed, IInv, DestroyerOwns
    <2>6. depth[u][o] \in Nat
      BY <2>3, FieldTypes
    <2> QED
      BY <1>1, <2>5, <2>6 DEF IInv, CountedLocks
  <1> QED
    BY <1>1, Invariance, PTL DEF Spec, DestroyedUnheld
-----------------------------------------------------------------------------
(* The blob of an anonymous mutex, and those who refer to it. *)

(* A thread that makes a call has the blob: mutex_unlock_all/0, which      *)
(* finds the mutex through the table, is not called.  The object is freed  *)
(* only when nobody has the blob any more.                                 *)
BlobReferred ==
  /\ \A t \in Threads : pc[t] \notin {"enum", "visit"}
  /\ \A t \in Threads : pc[t] # "idle" => t \in refs
  /\ (\E o \in Objs : obj[o].freed) => refs = {}

NobodySweeps == \A t \in Threads : "unlock_all" \notin Calls[t]

(* A field of an object is assigned: the memory stays as it is. *)
LEMMA MemoryKept ==
  ASSUME TypeOK, NEW w, NEW n, NEW a, NEW s,
         obj' = [obj EXCEPT ![w] = [obj[w] EXCEPT !.count = n, !.owner = a,
                                                  !.sys = s]]
  PROVE  \A p \in Objs : obj'[p].freed = obj[p].freed
  <1> SUFFICES ASSUME NEW p \in Objs
               PROVE  obj'[p].freed = obj[p].freed
    OBVIOUS
  <1>1. obj[p] \in Object
    BY FieldTypes
  <1>2. CASE p = w
    BY <1>1, <1>2 DEF TypeOK, Object
  <1>3. CASE p # w
    BY <1>3 DEF TypeOK
  <1> QED
    BY <1>2, <1>3

(* Only the garbage collector frees a blob. *)
LEMMA OnlyCollectFrees ==
  ASSUME IInv, Kind = "anon", NEW t \in Threads, Step(t) \/ Leave(t)
  PROVE  (\E o \in Objs : obj'[o].freed) => \E o \in Objs : obj[o].freed
  <1> DEFINE o == mptr[t]
             Same == \A p \in Objs : obj'[p].freed = obj[p].freed
  <1>0. TypeOK /\ o \in Objs /\ obj \in [Objs -> Object]
    BY DEF IInv, TypeOK
  <1>10. Same => ((\E p \in Objs : obj'[p].freed) => \E p \in Objs : obj[p].freed)
    OBVIOUS
  <1>11. ASSUME DestroyMutex(t)
         PROVE  (\E p \in Objs : obj'[p].freed) => \E p \in Objs : obj[p].freed
    <2>1. \A p \in Objs \ {o} : obj'[p] = obj[p]
      BY <1>0, <1>11 DEF DestroyMutex
    <2>2. obj'[o].freed = FALSE
      BY <1>0, <1>11 DEF DestroyMutex, SystemDestroyed, Object
    <2> QED
      BY <2>1, <2>2
  <1> SUFFICES Same \/ DestroyMutex(t)
    BY <1>10, <1>11
  <1>1. CASE LockStep(t)
    <2>1. CASE \/ Create(t) \/ Get(t) \/ CheckDestroyed(t)
               \/ LockOther(t) \/ TryBusy(t)
      BY <2>1 DEF Create, Get, CheckDestroyed, LockOther, TryBusy
    <2>2. CASE LockAgain(t)
      BY <1>0, <2>2 DEF LockAgain, Object
    <2>3. CASE LockTake(t)
      BY <1>0, <2>3 DEF LockTake, Object
    <2>4. CASE TryAgain(t)
      BY <1>0, <2>4 DEF TryAgain, Object
    <2>5. CASE TryTake(t)
      BY <1>0, <2>5 DEF TryTake, Object
    <2> QED
      BY <1>1, <2>1, <2>2, <2>3, <2>4, <2>5 DEF LockStep
  <1>2. CASE UnlockStep(t)
    <2>1. CASE Unlock(t)
      BY <1>0, <2>1, MemoryKept DEF Unlock, UnlockOne
    <2>2. CASE UnlockDenied(t) \/ AfterUnlock(t) \/ Enumerate(t)
      BY <2>2 DEF UnlockDenied, AfterUnlock, Enumerate
    <2>3. CASE UnlockAll(t)
      <3>1. \/ obj' = obj
            \/ obj' = [obj EXCEPT ![o] = [obj[o] EXCEPT !.count = 0,
                                   !.owner = NoThread, !.sys = NoThread]]
        BY <2>3 DEF UnlockAll
      <3> QED
        BY <1>0, <3>1, MemoryKept
    <2> QED
      BY <1>2, <2>1, <2>2, <2>3 DEF UnlockStep
  <1>3. CASE Leave(t)
    <2> DEFINE w == withs[t][Len(withs[t])]
    <2>1. obj' = obj \/ UnlockOne(t, w)
      BY <1>3 DEF Leave
    <2> HIDE DEF w
    <2>2. CASE UnlockOne(t, w)
      <3> DEFINE n == obj[w].count - 1
                 a == IF n = 0 THEN NoThread ELSE t
                 s == IF n = 0 THEN NoThread ELSE obj[w].sys
      <3>1. obj' = [obj EXCEPT ![w] = [obj[w] EXCEPT !.count = n,
                                               !.owner = a, !.sys = s]]
        BY <2>2 DEF UnlockOne
      <3> HIDE DEF n, a, s
      <3> QED
        BY <1>0, <3>1, MemoryKept
    <2> QED
      BY <2>1, <2>2
  <1>4. CASE MarkDestroyed(t)
    BY <1>0, <1>4 DEF MarkDestroyed, Object
  <1>5. CASE Withdraw(t)
    BY <1>0, <1>5 DEF Withdraw, Object
  <1>6. CASE Arm(t)
    BY <1>0, <1>6 DEF Arm, Object
  <1> QED
    BY <1>1, <1>2, <1>3, <1>4, <1>5, <1>6 DEF Step, DestroyStep

(* A call goes on in a thread that makes one, and starts no other. *)
LEMMA CallGoesOn ==
  ASSUME IInv, BlobReferred, NEW t \in Threads, Step(t) \/ Leave(t)
  PROVE  /\ refs' = refs
         /\ \A u \in Threads : pc'[u] # "idle" => pc[u] # "idle"
         /\ \A u \in Threads : pc'[u] \notin {"enum", "visit"}
  <1>0. pc \in [Threads -> PCs] /\ pc[t] \notin {"enum", "visit"}
    BY DEF IInv, TypeOK, BlobReferred
  <1>1. refs' = refs
    BY DEF Step, LockStep, UnlockStep, DestroyStep, Create, Get, CheckDestroyed,
           LockAgain, LockOther, LockTake, TryAgain, TryTake, TryBusy, Granted,
           Unlock, UnlockDenied, AfterUnlock, Enumerate, UnlockAll,
           MarkDestroyed, Withdraw, DestroyMutex, Arm, Leave
  <1>2. CASE Leave(t)
    BY <1>1, <1>2 DEF Leave, BlobReferred
  <1>3. CASE Step(t)
    <2>1. pc[t] # "idle"
      BY <1>3 DEF Step, LockStep, UnlockStep, DestroyStep, Create, Get,
           CheckDestroyed, LockAgain, LockOther, LockTake, TryAgain, TryTake,
           TryBusy, Unlock, UnlockDenied, AfterUnlock, Enumerate, UnlockAll,
           MarkDestroyed, Withdraw, DestroyMutex, Arm
    <2>2. \E p \in PCs \ {"enum", "visit"} : pc' = [pc EXCEPT ![t] = p]
      <3>1. CASE LockStep(t)
        BY <3>1 DEF LockStep, Create, Get, CheckDestroyed, LockAgain, LockOther,
             LockTake, TryAgain, TryTake, TryBusy, Granted, NotNow, Goto,
             Return, PCs
      <3>2. CASE UnlockStep(t)
        BY <1>0, <3>2 DEF UnlockStep, Unlock, UnlockDenied, AfterUnlock,
             Enumerate, UnlockAll, Goto, Return, PCs
      <3>3. CASE DestroyStep(t)
        BY <3>3 DEF DestroyStep, MarkDestroyed, Withdraw, DestroyMutex, Arm,
             Goto, Return, PCs
      <3> QED
        BY <1>3, <3>1, <3>2, <3>3 DEF Step
    <2> QED
      BY <1>0, <1>1, <2>1, <2>2 DEF BlobReferred
  <1> QED
    BY <1>2, <1>3

LEMMA BlobStep ==
  ASSUME IInv, BlobReferred, [Next]_vars, Kind = "anon", NobodySweeps
  PROVE  BlobReferred'
  <1>0. pc \in [Threads -> PCs] /\ obj \in [Objs -> Object]
    BY DEF IInv, TypeOK
  <1>1. CASE UNCHANGED vars
    BY <1>1 DEF vars, BlobReferred
  <1>2. ASSUME NEW t \in Threads, NEW c \in CallNames, Begin(t, c)
        PROVE  BlobReferred'
    <2>1. c # "unlock_all"
      BY <1>2 DEF Begin, NobodySweeps
    <2>2. t \in refs
      BY <1>2, <2>1 DEF Begin
    <2>3. refs' = refs /\ obj' = obj
      BY <1>2 DEF Begin
    <2>4. pc' = [pc EXCEPT ![t] = "create"] \/ pc' = [pc EXCEPT ![t] = "get"]
      BY <1>2, <2>1 DEF Begin
    <2> QED
      BY <1>0, <2>2, <2>3, <2>4 DEF BlobReferred
  <1>3. ASSUME NEW t \in Threads, Step(t) \/ Leave(t)
        PROVE  BlobReferred'
    BY <1>3, CallGoesOn, OnlyCollectFrees DEF BlobReferred
  <1>4. ASSUME NEW t \in Threads, Forget(t)
        PROVE  BlobReferred'
    <2>1. pc[t] = "idle"
      BY <1>4 DEF Forget, BlobReferred
    <2> QED
      BY <1>4, <2>1 DEF Forget, BlobReferred
  <1>5. ASSUME NEW t \in Threads, Collect(t)
        PROVE  BlobReferred'
    BY <1>5 DEF Collect, BlobReferred
  <1> QED
    BY <1>1, <1>2, <1>3, <1>4, <1>5 DEF Next

LEMMA BlobInvariance ==
  ASSUME Kind = "anon", NobodySweeps
  PROVE  Spec => []BlobReferred
  <1>1. Init => BlobReferred
    BY DEF Init, BlobReferred, NewObject
  <1>2. IInv /\ BlobReferred /\ [Next]_vars => BlobReferred'
    BY BlobStep
  <1> QED
    BY <1>1, <1>2, Invariance, PTL DEF Spec
-----------------------------------------------------------------------------
(***************************************************************************)
(* Proof that a Prolog mutex which nobody destroys implements              *)
(* RecursiveLock, for any threads and calls.                               *)
(***************************************************************************)

(* Nobody calls mutex_destroy/1 or drops the blob. *)
NobodyDestroys ==
  Forgetful = {} /\ \A t \in Threads : "destroy" \notin Calls[t]

(* What the refinement maps to the variables of RecursiveLock. *)
holderBar == IF table = NoObj THEN NoThread ELSE obj[table].owner
countBar == IF table = NoObj THEN 0 ELSE obj[table].count
callBar == [t \in Threads |-> IF Returned(t) THEN "none" ELSE call[t]]
replyBar == [t \in Threads |-> IF pc[t] = "after" THEN "ok" ELSE reply[t]]

(* The objects are as they were created, but for their locks. *)
Untouched ==
  /\ refs = Threads
  /\ \A o \in Objs :
       /\ ~obj[o].destroyed /\ ~obj[o].auto_destroy /\ ~obj[o].freed
       /\ obj[o].owner = NoThread => obj[o].count = 0

(* There is one object at most, and all pointers lead to it. *)
OneObject ==
  /\ table = IF made = 0 THEN NoObj ELSE 1
  /\ made = 0 => Kind # "anon" /\ obj[1].owner = NoThread
  /\ \A t \in Threads :
       /\ pc[t] \in UsesObject => made # 0 /\ mptr[t] = 1
       /\ \A i \in 1 .. Len(withs[t]) : made # 0 /\ withs[t][i] = 1

(* Which call a thread makes, by the place where it is in it. *)
CallAt ==
  \A t \in Threads :
    /\ pc[t] \notin {"dest", "del", "fini", "arm"}
    /\ pc[t] = "idle" => call[t] = "none"
    /\ pc[t] \in {"get", "found"} =>
         call[t] \in {"lock", "trylock", "with", "unlock"}
    /\ pc[t] = "ready" => call[t] \in {"lock", "with", "unlock"}
    /\ pc[t] = "block" => call[t] \in {"lock", "with"}
    /\ pc[t] = "try" => call[t] = "trylock"
    /\ pc[t] = "after" => call[t] = "unlock"
    /\ pc[t] = "create" => call[t] = "create"
    /\ pc[t] \in {"enum", "visit"} => call[t] = "unlock_all"

RInv == IInv /\ Untouched /\ OneObject /\ CallAt

-----------------------------------------------------------------------------
(* Only thread t moves. *)
Alone(t) == \A u \in Threads \ {t} :
  /\ pc'[u] = pc[u] /\ call'[u] = call[u] /\ reply'[u] = reply[u]
  /\ mptr'[u] = mptr[u] /\ withs'[u] = withs[u]

(* The state of RecursiveLock after a step of thread t. *)
LEMMA Bars ==
  ASSUME NEW t \in Threads, Alone(t)
  PROVE  /\ callBar' = [callBar EXCEPT ![t] =
              IF pc'[t] \in {"idle", "after"} THEN "none" ELSE call'[t]]
         /\ replyBar' = [replyBar EXCEPT ![t] =
              IF pc'[t] = "after" THEN "ok" ELSE reply'[t]]
         /\ callBar[t] = IF pc[t] \in {"idle", "after"} THEN "none" ELSE call[t]
         /\ replyBar[t] = IF pc[t] = "after" THEN "ok" ELSE reply[t]
  BY DEF Alone, callBar, replyBar, Returned

LEMMA Silent ==
  ASSUME NEW t \in Threads, Alone(t),
         holderBar' = holderBar, countBar' = countBar,
         callBar'[t] = callBar[t], replyBar'[t] = replyBar[t]
  PROVE  UNCHANGED Lock!vars
  <1>1. callBar' = callBar /\ replyBar' = replyBar
    BY DEF Alone, callBar, replyBar, Returned
  <1> QED
    BY <1>1 DEF Lock!vars, holderBar, countBar, callBar, replyBar

(* How a call of RecursiveLock returns. *)
LEMMA LockReturn ==
  ASSUME NEW t \in Threads, Alone(t), NEW r, pc'[t] \in {"idle", "after"},
         IF pc'[t] = "after" THEN r = "ok" ELSE reply'[t] = r
  PROVE  Lock!Return(t, r)
  BY Bars DEF Lock!Return, callBar, replyBar

(* Where get_mutex() leads, and who holds the mutex found. *)
LEMMA TheObject ==
  ASSUME RInv, made # 0
  PROVE  /\ table = 1 /\ 1 \in Objs /\ table # NoObj
         /\ holderBar = obj[1].owner /\ countBar = obj[1].count
         /\ obj[1] \in Object /\ obj[1].works /\ obj[1].sys = obj[1].owner
         /\ ~obj[1].destroyed /\ ~obj[1].auto_destroy /\ ~obj[1].freed
         /\ obj[1].owner = NoThread => obj[1].count = 0
         /\ obj[1].count \in Nat
  <1>1. 1 \in Objs /\ table = 1 /\ table # NoObj
    BY MutexAssumption DEF RInv, OneObject, Objs, NoObj
  <1>2. obj[1] \in Object /\ obj[1].count \in Nat
    BY <1>1, FieldTypes DEF RInv, IInv
  <1> QED
    BY <1>1, <1>2
    DEF RInv, IInv, SystemOwned, Untouched, holderBar, countBar

LEMMA NoObject ==
  ASSUME RInv, made = 0
  PROVE  /\ table = NoObj /\ holderBar = NoThread /\ countBar = 0
         /\ 1 \in Objs /\ obj[1].owner = NoThread /\ obj[1].count = 0
  BY MutexAssumption
  DEF RInv, OneObject, Untouched, holderBar, countBar, Objs

(* A step that leaves the objects alone keeps the state of the lock, also  *)
(* if it creates the object.                                               *)
LEMMA StateKept ==
  ASSUME RInv, obj' = obj,
         \/ made' = made /\ table' = table
         \/ made = 0 /\ made' = 1 /\ table' = 1
  PROVE  holderBar' = holderBar /\ countBar' = countBar
  <1>1. CASE made' = made /\ table' = table
    BY <1>1 DEF holderBar, countBar
  <1>2. CASE made = 0 /\ made' = 1 /\ table' = 1
    BY <1>2, NoObject DEF holderBar, countBar, NoObj
  <1> QED
    BY <1>1, <1>2

(* The invariant after a step of thread t, from what it does to t. *)
LEMMA InvariantStep ==
  ASSUME RInv, NEW t \in Threads, Alone(t),
         refs' = refs,
         \/ made' = made /\ table' = table
         \/ made = 0 /\ made' = 1 /\ table' = 1,
         \A o \in Objs :
           /\ ~obj'[o].destroyed /\ ~obj'[o].auto_destroy /\ ~obj'[o].freed
           /\ obj'[o].owner = NoThread => obj'[o].count = 0,
         made' = 0 => obj'[1].owner = NoThread,
         pc'[t] \in UsesObject => made' # 0 /\ mptr'[t] = 1,
         \A i \in 1 .. Len(withs'[t]) : made' # 0 /\ withs'[t][i] = 1,
         /\ pc'[t] \notin {"dest", "del", "fini", "arm"}
         /\ pc'[t] = "idle" => call'[t] = "none"
         /\ pc'[t] \in {"get", "found"} =>
              call'[t] \in {"lock", "trylock", "with", "unlock"}
         /\ pc'[t] = "ready" => call'[t] \in {"lock", "with", "unlock"}
         /\ pc'[t] = "block" => call'[t] \in {"lock", "with"}
         /\ pc'[t] = "try" => call'[t] = "trylock"
         /\ pc'[t] = "after" => call'[t] = "unlock"
         /\ pc'[t] = "create" => call'[t] = "create"
         /\ pc'[t] \in {"enum", "visit"} => call'[t] = "unlock_all"
  PROVE  (Untouched /\ OneObject /\ CallAt)'
  <1>1. Untouched'
    BY DEF RInv, Untouched
  <1>2. CallAt'
    BY DEF RInv, CallAt, Alone
  <1>3. table' = IF made' = 0 THEN NoObj ELSE 1
    BY DEF RInv, OneObject
  <1>4. made # 0 => made' # 0
    OBVIOUS
  <1>5. \A u \in Threads :
          /\ pc'[u] \in UsesObject => made' # 0 /\ mptr'[u] = 1
          /\ \A i \in 1 .. Len(withs'[u]) : made' # 0 /\ withs'[u][i] = 1
    BY <1>4 DEF RInv, OneObject, Alone
  <1>6. made' = 0 => Kind # "anon"
    BY DEF RInv, OneObject
  <1> QED
    BY <1>1, <1>2, <1>3, <1>5, <1>6 DEF OneObject

-----------------------------------------------------------------------------
Refines == (Untouched /\ OneObject /\ CallAt)' /\ [Lock!Next]_Lock!vars

(* A step in which thread t goes from one place in its call to another.    *)
LEMMA SilentStep ==
  ASSUME RInv, NEW t \in Threads, Alone(t), NEW p, Goto(t, p), p # "after",
         pc[t] \notin {"idle", "after"}, p \in PCs \ {"idle"},
         obj' = obj, refs' = refs, withs' = withs,
         \/ made' = made /\ table' = table
         \/ made = 0 /\ made' = 1 /\ table' = 1,
         p \in UsesObject => made' # 0 /\ mptr'[t] = 1,
         p \notin {"dest", "del", "fini", "arm", "get", "create", "enum"},
         p = "found" => call[t] \in {"lock", "trylock", "with", "unlock"},
         p = "ready" => call[t] \in {"lock", "with", "unlock"},
         p = "block" => call[t] \in {"lock", "with"},
         p = "try" => call[t] = "trylock",
         p = "visit" => call[t] = "unlock_all"
  PROVE  Refines
  <1>1. pc'[t] = p /\ call' = call /\ reply' = reply
    BY DEF Goto, RInv, IInv, TypeOK
  <1>2. holderBar' = holderBar /\ countBar' = countBar
    BY StateKept
  <1>3. UNCHANGED Lock!vars
    <2>1. /\ callBar'[t] = (IF p \in {"idle", "after"} THEN "none" ELSE call[t])
          /\ replyBar'[t] = (IF p = "after" THEN "ok" ELSE reply[t])
      BY <1>1 DEF callBar, replyBar, Returned
    <2>2. callBar[t] = call[t] /\ replyBar[t] = reply[t]
      BY DEF callBar, replyBar, Returned
    <2> QED
      BY <1>2, <2>1, <2>2, Silent
  <1>4. \A i \in 1 .. Len(withs'[t]) : made' # 0 /\ withs'[t][i] = 1
    BY DEF RInv, OneObject
  <1>5. (Untouched /\ OneObject /\ CallAt)'
    BY <1>1, <1>4, InvariantStep, NoObject DEF RInv, Untouched, OneObject
  <1> QED
    BY <1>3, <1>5 DEF Refines

(* A call returns without having changed the objects. *)
LEMMA PlainReturn ==
  ASSUME RInv, NEW t \in Threads, Alone(t), NEW r, Return(t, r),
         obj' = obj, refs' = refs, withs' = withs,
         \/ made' = made /\ table' = table
         \/ made = 0 /\ made' = 1 /\ table' = 1
  PROVE  /\ (Untouched /\ OneObject /\ CallAt)'
         /\ Lock!Return(t, r)
         /\ holderBar' = holderBar /\ countBar' = countBar
  <1>1. pc'[t] = "idle" /\ call'[t] = "none" /\ reply'[t] = r
    BY DEF Return, RInv, IInv, TypeOK
  <1>2. holderBar' = holderBar /\ countBar' = countBar
    BY StateKept
  <1>3. Lock!Return(t, r)
    BY <1>1, LockReturn
  <1>4. \A i \in 1 .. Len(withs'[t]) : made' # 0 /\ withs'[t][i] = 1
    BY DEF RInv, OneObject
  <1>5. (Untouched /\ OneObject /\ CallAt)'
    BY <1>1, <1>4, InvariantStep, NoObject DEF RInv, Untouched, OneObject, UsesObject
  <1> QED
    BY <1>2, <1>3, <1>5

(* A lock is granted: the object was free, or t's own. *)
LEMMA GrantStep ==
  ASSUME RInv, NEW t \in Threads, Granted(t, 1), made # 0,
         pc[t] \in {"ready", "block", "try"},
         call[t] \in {"lock", "trylock", "with"},
         obj[1].owner \in {NoThread, t},
         \A p \in Objs \ {1} : obj'[p] = obj[p],
         obj'[1].owner = t, obj'[1].count = obj[1].count + 1,
         obj'[1].destroyed = obj[1].destroyed,
         obj'[1].auto_destroy = obj[1].auto_destroy,
         obj'[1].freed = obj[1].freed
  PROVE  Refines
  <1>0. TypeOK
    BY DEF RInv, IInv
  <1>1. /\ Alone(t) /\ refs' = refs /\ made' = made /\ table' = table
        /\ pc'[t] = "idle" /\ call'[t] = "none" /\ reply'[t] = "ok"
    BY <1>0 DEF Granted, Return, Alone, TypeOK
  <1>2. /\ holderBar \in {NoThread, t} /\ holderBar' = t
        /\ countBar' = countBar + 1
    BY <1>1, TheObject DEF holderBar, countBar
  <1>3. Lock!Return(t, "ok")
    BY <1>1, LockReturn
  <1>4. Lock!Grant(t)
    BY <1>2, <1>3, Bars, <1>1 DEF Lock!Grant, callBar, holderBar, countBar
  <1>5. \A i \in 1 .. Len(withs'[t]) : made' # 0 /\ withs'[t][i] = 1
    <2>1. /\ withs[t] \in Seq(Objs) /\ 1 \in Objs
          /\ withs'[t] = withs[t] \/ withs'[t] = Append(withs[t], 1)
      BY <1>0, TheObject DEF Granted, TypeOK
    <2> DEFINE s == withs[t]
               r == withs'[t]
    <2>2. s \in Seq(Objs) /\ \A i \in 1 .. Len(s) : s[i] = 1
      BY <2>1 DEF RInv, OneObject
    <2>3. r = s \/ r = Append(s, 1)
      BY <2>1
    <2>4. made' # 0
      BY <1>1 DEF RInv, OneObject
    <2> HIDE DEF s, r
    <2>5. ASSUME NEW i \in 1 .. Len(r)
          PROVE  r[i] = 1
      <3>1. CASE r = s
        BY <2>2, <3>1
      <3>2. CASE r = Append(s, 1)
        BY <2>1, <2>2, <3>2
      <3> QED
        BY <2>3, <3>1, <3>2
    <2> QED
      BY <2>4, <2>5 DEF r
  <1>6. (Untouched /\ OneObject /\ CallAt)'
    <2>1. \A o \in Objs :
            /\ ~obj'[o].destroyed /\ ~obj'[o].auto_destroy /\ ~obj'[o].freed
            /\ obj'[o].owner = NoThread => obj'[o].count = 0
      BY MutexAssumption DEF RInv, Untouched
    <2> QED
      BY <1>1, <1>5, <2>1, InvariantStep DEF UsesObject
  <1> QED
    BY <1>4, <1>6 DEF Refines, Lock!Next

(* The locks of thread t on the object are given back, one or all. *)
LEMMA DropStep ==
  ASSUME RInv, NEW t \in Threads, Alone(t), made # 0,
         refs' = refs, made' = made, table' = table,
         \A p \in Objs \ {1} : obj'[p] = obj[p],
         obj'[1].owner \in {NoThread, t},
         obj'[1].owner = NoThread => obj'[1].count = 0,
         obj'[1].destroyed = obj[1].destroyed,
         obj'[1].auto_destroy = obj[1].auto_destroy,
         obj'[1].freed = obj[1].freed,
         pc'[t] \in {"idle", "after"},
         pc'[t] = "idle" => call'[t] = "none",
         pc'[t] = "after" => call'[t] = "unlock" /\ mptr'[t] = 1,
         \A i \in 1 .. Len(withs'[t]) : withs'[t][i] = 1
  PROVE  /\ (Untouched /\ OneObject /\ CallAt)'
         /\ holderBar' = obj'[1].owner /\ countBar' = obj'[1].count
  <1>1. \A o \in Objs :
          /\ ~obj'[o].destroyed /\ ~obj'[o].auto_destroy /\ ~obj'[o].freed
          /\ obj'[o].owner = NoThread => obj'[o].count = 0
    BY DEF RInv, Untouched
  <1>2. (Untouched /\ OneObject /\ CallAt)'
    BY <1>1, InvariantStep DEF UsesObject
  <1>3. holderBar' = obj'[1].owner /\ countBar' = obj'[1].count
    BY TheObject DEF holderBar, countBar
  <1> QED
    BY <1>2, <1>3
-----------------------------------------------------------------------------
(* One lemma for the steps of each part of PrologMutex. *)

(* Only t moves in a step of t, and nobody's references change. *)
LEMMA StepsAlone ==
  ASSUME RInv, NEW t \in Threads,
         \/ \E c \in CallNames : Begin(t, c)
         \/ LockStep(t) \/ UnlockStep(t) \/ Leave(t)
  PROVE  Alone(t) /\ refs' = refs
  <1>0. TypeOK
    BY DEF RInv, IInv
  <1>1. ASSUME NEW c \in CallNames, Begin(t, c) PROVE Alone(t) /\ refs' = refs
    BY <1>0, <1>1 DEF Begin, Alone, TypeOK
  <1>2. CASE Create(t) \/ Get(t) \/ CheckDestroyed(t)
    BY <1>0, <1>2 DEF Create, Get, CheckDestroyed, Goto, Return, Alone, TypeOK
  <1>3. CASE LockAgain(t) \/ LockOther(t) \/ LockTake(t)
    <2>1. CASE LockAgain(t)
      BY <1>0, <2>1 DEF LockAgain, Granted, Return, Alone, TypeOK
    <2>2. CASE LockOther(t)
      BY <1>0, <2>2 DEF LockOther, Goto, Alone, TypeOK
    <2>3. CASE LockTake(t)
      BY <1>0, <2>3 DEF LockTake, Granted, Return, Alone, TypeOK
    <2> QED
      BY <1>3, <2>1, <2>2, <2>3
  <1>4. CASE TryAgain(t) \/ TryTake(t) \/ TryBusy(t)
    <2>1. CASE TryAgain(t)
      BY <1>0, <2>1 DEF TryAgain, NotNow, Granted, Goto, Return, Alone, TypeOK
    <2>2. CASE TryTake(t)
      BY <1>0, <2>2 DEF TryTake, Granted, Goto, Return, Alone, TypeOK
    <2>3. CASE TryBusy(t)
      BY <1>0, <2>3 DEF TryBusy, NotNow, Goto, Return, Alone, TypeOK
    <2> QED
      BY <1>4, <2>1, <2>2, <2>3
  <1>5. CASE UnlockStep(t)
    BY <1>0, <1>5
    DEF UnlockStep, Unlock, UnlockDenied, AfterUnlock, Enumerate, UnlockAll,
        Goto, Return, Alone, TypeOK
  <1>6. CASE Leave(t)
    BY <1>0, <1>6 DEF Leave, Alone, TypeOK
  <1> QED
    BY <1>1, <1>2, <1>3, <1>4, <1>5, <1>6 DEF LockStep

LEMMA BeginStep ==
  ASSUME RInv, NobodyDestroys, NEW t \in Threads, NEW c \in CallNames,
         Begin(t, c)
  PROVE  Refines
  <1>0. TypeOK
    BY DEF RInv, IInv
  <1>1. Alone(t) /\ refs' = refs
    BY StepsAlone
  <1>2. c # "destroy" /\ pc[t] = "idle" /\ call[t] = "none"
    BY DEF Begin, NobodyDestroys, RInv, CallAt
  <1>3. /\ pc'[t] = CASE c = "unlock_all" -> "enum"
                      [] c = "create" -> "create" [] OTHER -> "get"
        /\ call'[t] = c /\ reply'[t] = "none"
        /\ obj' = obj /\ made' = made /\ table' = table /\ withs' = withs
    BY <1>0 DEF Begin, TypeOK
  <1>4. holderBar' = holderBar /\ countBar' = countBar
    BY <1>3, StateKept
  <1>5. pc'[t] \in {"enum", "create", "get"}
    BY <1>3
  <1>6. /\ callBar' = [callBar EXCEPT ![t] = c]
        /\ replyBar' = [replyBar EXCEPT ![t] = "none"]
        /\ callBar[t] = "none"
    BY <1>1, <1>2, <1>3, <1>5, Bars
  <1>7. c \in Lock!Requests
    BY <1>2 DEF Lock!Requests, CallNames
  <1>8. Lock!Invoke(t, c)
    BY <1>4, <1>6 DEF Lock!Invoke, callBar, replyBar, holderBar, countBar
  <1>9. \A i \in 1 .. Len(withs'[t]) : made' # 0 /\ withs'[t][i] = 1
    BY <1>3 DEF RInv, OneObject
  <1>10. (Untouched /\ OneObject /\ CallAt)'
    BY <1>1, <1>2, <1>3, <1>5, <1>9, InvariantStep, NoObject
    DEF RInv, Untouched, OneObject, UsesObject, CallNames
  <1> QED
    BY <1>7, <1>8, <1>10 DEF Refines, Lock!Next

LEMMA CreateStep ==
  ASSUME RInv, NEW t \in Threads, Create(t)
  PROVE  Refines
  <1>1. Alone(t) /\ refs' = refs
    BY StepsAlone DEF LockStep
  <1>2. PICK r \in {"ok", "permission"} : Return(t, r)
    BY DEF Create
  <1>3. /\ obj' = obj /\ withs' = withs
        /\ \/ made' = made /\ table' = table
           \/ made = 0 /\ made' = 1 /\ table' = 1
    BY NoObject, TheObject DEF Create, Register
  <1>4. /\ (Untouched /\ OneObject /\ CallAt)' /\ Lock!Return(t, r)
        /\ holderBar' = holderBar /\ countBar' = countBar
    BY <1>1, <1>2, <1>3, PlainReturn
  <1>5. callBar[t] = "create"
    BY DEF callBar, Returned, Create, RInv, CallAt
  <1>6. Lock!Create(t)
    BY <1>4, <1>5 DEF Lock!Create, callBar, holderBar, countBar
  <1> QED
    BY <1>4, <1>6 DEF Refines, Lock!Next

LEMMA GetStep ==
  ASSUME RInv, NEW t \in Threads, Get(t)
  PROVE  Refines
  <1>0. TypeOK
    BY DEF RInv, IInv
  <1>1. Alone(t) /\ refs' = refs
    BY StepsAlone DEF LockStep
  <1>2. /\ obj' = obj /\ withs' = withs /\ pc[t] = "get"
        /\ call[t] \in {"lock", "trylock", "with", "unlock"}
        /\ \/ made' = made /\ table' = table
           \/ made = 0 /\ made' = 1 /\ table' = 1
    BY NoObject, TheObject DEF Get, Register, RInv, CallAt
  <1>3. CASE Goto(t, "found")
    <2>1. made' # 0 /\ mptr'[t] = 1
      <3>1. CASE made # 0
        BY <1>0, <1>2, <1>3, <3>1, TheObject DEF Get, TypeOK
      <3>2. CASE made = 0
        <4>1. table = NoObj /\ Kind # "anon"
          BY <3>2 DEF RInv, OneObject
        <4>2. Return(t, "existence") => ~Goto(t, "found")
          BY <1>0 DEF Return, Goto, TypeOK
        <4>3. made' = made + 1 /\ mptr' = [mptr EXCEPT ![t] = made + 1]
          BY <1>3, <4>1, <4>2 DEF Get, Register
        <4> QED
          BY <1>0, <3>2, <4>3 DEF TypeOK
      <3> QED
        BY <3>1, <3>2
    <2> QED
      BY <1>1, <1>2, <1>3, <2>1, SilentStep DEF PCs
  <1>4. CASE ~Goto(t, "found")
    <2>1. /\ table = NoObj /\ call[t] = "unlock" /\ Return(t, "existence")
          /\ made' = made /\ table' = table
      BY <1>2, <1>4 DEF Get
    <2>2. /\ (Untouched /\ OneObject /\ CallAt)' /\ Lock!Return(t, "existence")
          /\ holderBar' = holderBar /\ countBar' = countBar
      BY <1>1, <1>2, <2>1, PlainReturn
    <2>3. callBar[t] = "unlock" /\ holderBar = NoThread /\ holderBar # t
      BY <1>2, <2>1, MutexAssumption DEF callBar, Returned, holderBar
    <2>4. Lock!Denied(t)
      BY <2>2, <2>3 DEF Lock!Denied, callBar, holderBar, countBar
    <2> QED
      BY <2>2, <2>4 DEF Refines, Lock!Next
  <1> QED
    BY <1>3, <1>4

LEMMA SmallSteps ==
  ASSUME RInv, NEW t \in Threads, CheckDestroyed(t) \/ LockOther(t)
  PROVE  Refines
  <1>0. TypeOK
    BY DEF RInv, IInv
  <1>1. Alone(t) /\ refs' = refs
    BY StepsAlone DEF LockStep
  <1>2. made # 0 /\ mptr[t] = 1 /\ ~obj[1].destroyed
    BY TheObject
    DEF CheckDestroyed, LockOther, UsesObject, RInv, OneObject
  <1>3. CASE CheckDestroyed(t)
    <2> DEFINE p == IF call[t] \in {"trylock", "destroy"} THEN "try" ELSE "ready"
    <2>1. /\ Goto(t, p) /\ pc[t] = "found"
          /\ obj' = obj /\ withs' = withs /\ made' = made /\ table' = table
          /\ mptr' = mptr
      BY <1>2, <1>3 DEF CheckDestroyed
    <2>2. /\ p = "ready" => call[t] \in {"lock", "with", "unlock"}
          /\ p = "try" => call[t] = "trylock"
      BY <2>1 DEF RInv, CallAt
    <2>3. p \in {"try", "ready"}
      OBVIOUS
    <2> HIDE DEF p
    <2> QED
      BY <1>1, <1>2, <2>1, <2>2, <2>3, SilentStep DEF PCs
  <1>4. CASE LockOther(t)
    <2>1. /\ Goto(t, "block") /\ pc[t] = "ready" /\ call[t] \in {"lock", "with"}
          /\ obj' = obj /\ withs' = withs /\ made' = made /\ table' = table
          /\ mptr' = mptr
      BY <1>4 DEF LockOther
    <2> QED
      BY <1>1, <1>2, <2>1, SilentStep DEF PCs
  <1> QED
    BY <1>3, <1>4

LEMMA TakeSteps ==
  ASSUME RInv, NEW t \in Threads,
         LockAgain(t) \/ LockTake(t) \/ TryAgain(t) \/ TryTake(t)
  PROVE  Refines
  <1>0. TypeOK
    BY DEF RInv, IInv
  <1>1. made # 0 /\ mptr[t] = 1
    BY DEF LockAgain, LockTake, TryAgain, TryTake, UsesObject, RInv, OneObject
  <1>2. /\ obj \in [Objs -> Object] /\ 1 \in Objs /\ obj[1].works
        /\ obj[1].sys = obj[1].owner /\ obj[1].count \in Nat
        /\ obj[1].owner = NoThread => obj[1].count = 0
    BY <1>0, <1>1, TheObject DEF TypeOK
  <1>3. CASE LockAgain(t) \/ TryAgain(t)
    <2>1. /\ Granted(t, 1) /\ obj[1].owner = t
          /\ pc[t] \in {"ready", "try"}
          /\ call[t] \in {"lock", "trylock", "with"}
          /\ obj' = [obj EXCEPT ![1].count = @ + 1]
      BY <1>1, <1>3 DEF LockAgain, TryAgain, RInv, CallAt
    <2> QED
      BY <1>1, <1>2, <2>1, GrantStep DEF Object
  <1>4. CASE LockTake(t) \/ TryTake(t)
    <2>1. /\ Granted(t, 1) /\ obj[1].owner = NoThread
          /\ pc[t] \in {"block", "try"}
          /\ call[t] \in {"lock", "trylock", "with"}
          /\ obj' = [obj EXCEPT ![1] =
                       [@ EXCEPT !.sys = t, !.owner = t, !.count = 1]]
      BY <1>1, <1>2, <1>4 DEF LockTake, TryTake, RInv, CallAt
    <2> QED
      BY <1>1, <1>2, <2>1, GrantStep DEF Object
  <1> QED
    BY <1>3, <1>4

LEMMA BusyStep ==
  ASSUME RInv, NEW t \in Threads, TryBusy(t)
  PROVE  Refines
  <1>1. Alone(t) /\ refs' = refs
    BY StepsAlone DEF LockStep
  <1>2. made # 0 /\ mptr[t] = 1 /\ call[t] = "trylock" /\ pc[t] = "try"
    BY DEF TryBusy, UsesObject, RInv, OneObject, CallAt
  <1>3. /\ Return(t, "fail") /\ holderBar \notin {NoThread, t}
        /\ obj' = obj /\ withs' = withs /\ made' = made /\ table' = table
    BY <1>2, TheObject DEF TryBusy
  <1>4. /\ (Untouched /\ OneObject /\ CallAt)' /\ Lock!Return(t, "fail")
        /\ holderBar' = holderBar /\ countBar' = countBar
    BY <1>1, <1>3, PlainReturn
  <1>5. callBar[t] = "trylock"
    BY <1>2 DEF callBar, Returned
  <1>6. Lock!Busy(t)
    BY <1>3, <1>4, <1>5 DEF Lock!Busy, callBar, holderBar, countBar
  <1> QED
    BY <1>4, <1>6 DEF Refines, Lock!Next

(* What PL_mutex_unlock() does to the object. *)
LEMMA UnlockedObject ==
  ASSUME TypeOK, NEW t \in Threads, NEW o \in Objs, UnlockOne(t, o)
  PROVE  /\ obj'[o].count = obj[o].count - 1
         /\ obj'[o].owner = IF obj[o].count = 1 THEN NoThread ELSE t
         /\ obj'[o].destroyed = obj[o].destroyed
         /\ obj'[o].auto_destroy = obj[o].auto_destroy
         /\ obj'[o].freed = obj[o].freed
         /\ \A p \in Objs \ {o} : obj'[p] = obj[p]
  <1>1. obj \in [Objs -> Object] /\ obj[o] \in Object /\ obj[o].count \in Nat
    BY FieldTypes DEF TypeOK
  <1> QED
    BY <1>1 DEF UnlockOne, Object

LEMMA UnlockSteps ==
  ASSUME RInv, NEW t \in Threads, Unlock(t) \/ UnlockDenied(t) \/ AfterUnlock(t)
  PROVE  Refines
  <1>0. TypeOK
    BY DEF RInv, IInv
  <1>1. Alone(t) /\ refs' = refs
    BY StepsAlone DEF UnlockStep
  <1>2. /\ made # 0 /\ mptr[t] = 1 /\ call[t] = "unlock"
        /\ pc[t] \in {"ready", "after"}
    BY DEF Unlock, UnlockDenied, AfterUnlock, UsesObject, RInv, OneObject, CallAt
  <1>3. CASE Unlock(t)
    <2>1. /\ obj[1].owner = t /\ UnlockOne(t, 1) /\ Goto(t, "after")
          /\ made' = made /\ table' = table /\ withs' = withs /\ mptr' = mptr
          /\ pc[t] = "ready"
      BY <1>2, <1>3 DEF Unlock
    <2>2. /\ obj'[1].count = obj[1].count - 1
          /\ obj'[1].owner = IF obj[1].count = 1 THEN NoThread ELSE t
          /\ obj'[1].destroyed = obj[1].destroyed
          /\ obj'[1].auto_destroy = obj[1].auto_destroy
          /\ obj'[1].freed = obj[1].freed
          /\ \A p \in Objs \ {1} : obj'[p] = obj[p]
      BY <1>0, <1>2, <2>1, UnlockedObject, TheObject
    <2>3. pc'[t] = "after" /\ call'[t] = "unlock"
      BY <1>0, <1>2, <2>1 DEF Goto, TypeOK
    <2>4. \A i \in 1 .. Len(withs'[t]) : withs'[t][i] = 1
      BY <2>1 DEF RInv, OneObject
    <2>5. t # NoThread
      BY MutexAssumption
    <2>6. obj'[1].owner = NoThread => obj'[1].count = 0
      BY <2>2, <2>5
    <2>7. /\ (Untouched /\ OneObject /\ CallAt)'
          /\ holderBar' = obj'[1].owner /\ countBar' = obj'[1].count
      BY <1>1, <1>2, <2>1, <2>2, <2>3, <2>4, <2>6, DropStep
    <2>8. Lock!Return(t, "ok")
      BY <1>1, <2>3, LockReturn
    <2>9. /\ callBar[t] = "unlock" /\ holderBar = t
          /\ countBar' = countBar - 1
          /\ holderBar' = IF countBar = 1 THEN NoThread ELSE t
      BY <1>2, <2>1, <2>2, <2>7, TheObject DEF callBar, Returned
    <2>10. Lock!Release(t)
      BY <2>8, <2>9
      DEF Lock!Release, Lock!Drop, callBar, holderBar, countBar
    <2> QED
      BY <2>7, <2>10 DEF Refines, Lock!Next
  <1>4. CASE UnlockDenied(t)
    <2>1. /\ Return(t, "permission") /\ holderBar # t /\ pc[t] = "ready"
          /\ obj' = obj /\ withs' = withs /\ made' = made /\ table' = table
      BY <1>2, <1>4, TheObject DEF UnlockDenied
    <2>2. /\ (Untouched /\ OneObject /\ CallAt)' /\ Lock!Return(t, "permission")
          /\ holderBar' = holderBar /\ countBar' = countBar
      BY <1>1, <2>1, PlainReturn
    <2>3. callBar[t] = "unlock"
      BY <1>2, <2>1 DEF callBar, Returned
    <2>4. Lock!Denied(t)
      BY <2>1, <2>2, <2>3 DEF Lock!Denied, callBar, holderBar, countBar
    <2> QED
      BY <2>2, <2>4 DEF Refines, Lock!Next
  <1>5. CASE AfterUnlock(t)
    <2>1. /\ Return(t, "ok") /\ pc[t] = "after"
          /\ obj' = obj /\ withs' = withs /\ made' = made /\ table' = table
      BY <1>2, <1>5, TheObject DEF AfterUnlock
    <2>2. /\ (Untouched /\ OneObject /\ CallAt)'
          /\ holderBar' = holderBar /\ countBar' = countBar
      BY <1>1, <2>1, PlainReturn
    <2>3. pc'[t] = "idle" /\ reply'[t] = "ok"
      BY <1>0, <2>1 DEF Return, TypeOK
    <2>4. callBar'[t] = callBar[t] /\ replyBar'[t] = replyBar[t]
      BY <2>1, <2>3 DEF callBar, replyBar, Returned
    <2>5. UNCHANGED Lock!vars
      BY <1>1, <2>2, <2>4, Silent
    <2> QED
      BY <2>2, <2>5 DEF Refines
  <1> QED
    BY <1>3, <1>4, <1>5

LEMMA LeaveStep ==
  ASSUME RInv, NEW t \in Threads, Leave(t)
  PROVE  Refines
  <1>0. TypeOK /\ withs[t] \in Seq(Objs)
    BY DEF RInv, IInv, TypeOK
  <1>1. Alone(t) /\ refs' = refs
    BY StepsAlone
  <1>2. /\ Len(withs[t]) > 0 /\ made # 0 /\ withs[t][Len(withs[t])] = 1
        /\ pc[t] = "idle" /\ call[t] = "none"
    BY <1>0 DEF Leave, RInv, OneObject, CallAt
  <1>3. /\ pc'[t] = "idle" /\ call'[t] = "none" /\ reply' = reply
        /\ made' = made /\ table' = table
    BY <1>0, <1>2 DEF Leave
  <1>4. \A i \in 1 .. Len(withs'[t]) : withs'[t][i] = 1
    <2>1. withs'[t] = SubSeq(withs[t], 1, Len(withs[t]) - 1)
      BY <1>0 DEF Leave, TypeOK
    <2> QED
      BY <1>0, <2>1 DEF RInv, OneObject
  <1>5. callBar'[t] = callBar[t] /\ replyBar'[t] = replyBar[t]
    BY <1>2, <1>3 DEF callBar, replyBar, Returned
  <1>6. CASE obj[1].owner = t
    <2>1. UnlockOne(t, 1)
      BY <1>2, <1>6 DEF Leave
    <2>2. /\ obj'[1].count = obj[1].count - 1
          /\ obj'[1].owner = IF obj[1].count = 1 THEN NoThread ELSE t
          /\ obj'[1].destroyed = obj[1].destroyed
          /\ obj'[1].auto_destroy = obj[1].auto_destroy
          /\ obj'[1].freed = obj[1].freed
          /\ \A p \in Objs \ {1} : obj'[p] = obj[p]
      BY <1>0, <1>2, <1>6, <2>1, UnlockedObject, TheObject
    <2>3. t # NoThread
      BY MutexAssumption
    <2>4. obj'[1].owner = NoThread => obj'[1].count = 0
      BY <2>2, <2>3
    <2>5. /\ (Untouched /\ OneObject /\ CallAt)'
          /\ holderBar' = obj'[1].owner /\ countBar' = obj'[1].count
      BY <1>1, <1>2, <1>3, <1>4, <2>2, <2>4, DropStep
    <2>6. /\ callBar[t] = "none" /\ holderBar = t
          /\ countBar' = countBar - 1
          /\ holderBar' = IF countBar = 1 THEN NoThread ELSE t
      BY <1>2, <1>6, <2>2, <2>5, TheObject DEF callBar, Returned
    <2>7. callBar' = callBar /\ replyBar' = replyBar
      BY <1>1, <1>5 DEF Alone, callBar, replyBar, Returned
    <2>8. Lock!Leave(t)
      BY <2>6, <2>7
      DEF Lock!Leave, Lock!Drop, callBar, replyBar, holderBar, countBar
    <2> QED
      BY <2>5, <2>8 DEF Refines, Lock!Next
  <1>7. CASE obj[1].owner # t
    <2>1. obj' = obj
      BY <1>2, <1>7 DEF Leave
    <2>2. holderBar' = holderBar /\ countBar' = countBar
      BY <1>3, <2>1, StateKept
    <2>3. UNCHANGED Lock!vars
      BY <1>1, <1>5, <2>2, Silent
    <2>4. (Untouched /\ OneObject /\ CallAt)'
      BY <1>1, <1>2, <1>3, <1>4, <2>1, InvariantStep
      DEF RInv, Untouched, OneObject, UsesObject
    <2> QED
      BY <2>3, <2>4 DEF Refines
  <1> QED
    BY <1>6, <1>7

LEMMA UnlockAllSteps ==
  ASSUME RInv, NEW t \in Threads, Enumerate(t) \/ UnlockAll(t)
  PROVE  Refines
  <1>0. TypeOK
    BY DEF RInv, IInv
  <1>1. Alone(t) /\ refs' = refs
    BY StepsAlone DEF UnlockStep
  <1>2. /\ made' = made /\ table' = table /\ withs' = withs
        /\ call[t] = "unlock_all" /\ pc[t] \in {"enum", "visit"}
    BY DEF Enumerate, UnlockAll, RInv, CallAt
  <1>3. callBar[t] = "unlock_all"
    BY <1>2 DEF callBar, Returned
  <1>4. t # NoThread
    BY MutexAssumption
  <1>5. ASSUME Return(t, "ok"), obj' = obj, holderBar # t PROVE Refines
    <2>1. /\ (Untouched /\ OneObject /\ CallAt)' /\ Lock!Return(t, "ok")
          /\ holderBar' = holderBar /\ countBar' = countBar
      BY <1>1, <1>2, <1>5, PlainReturn
    <2>2. Lock!ReleaseAll(t)
      BY <1>3, <1>5, <2>1 DEF Lock!ReleaseAll, callBar, holderBar, countBar
    <2> QED
      BY <2>1, <2>2 DEF Refines, Lock!Next
  <1>6. CASE Enumerate(t) /\ table = NoObj
    <2>1. holderBar # t
      BY <1>4, <1>6 DEF holderBar
    <2> QED
      BY <1>5, <1>6, <2>1 DEF Enumerate
  <1>7. CASE Enumerate(t) /\ table # NoObj
    <2>1. made # 0 /\ table = 1
      BY <1>7 DEF RInv, OneObject
    <2>2. /\ Goto(t, "visit") /\ obj' = obj /\ mptr'[t] = 1
      BY <1>0, <1>7, <2>1 DEF Enumerate, TypeOK
    <2> QED
      BY <1>1, <1>2, <2>1, <2>2, SilentStep DEF PCs
  <1>8. CASE UnlockAll(t)
    <2>1. made # 0 /\ mptr[t] = 1 /\ Return(t, "ok")
      BY <1>8 DEF UnlockAll, UsesObject, RInv, OneObject
    <2>2. CASE obj[1].owner # t
      <3>1. obj' = obj /\ holderBar # t
        BY <1>8, <2>1, <2>2, TheObject DEF UnlockAll
      <3> QED
        BY <1>5, <2>1, <3>1
    <2>3. CASE obj[1].owner = t
      <3>1. obj' = [obj EXCEPT ![1] = [@ EXCEPT !.count = 0,
                                   !.owner = NoThread, !.sys = NoThread]]
        BY <1>8, <2>1, <2>3 DEF UnlockAll
      <3>2. /\ obj'[1].count = 0 /\ obj'[1].owner = NoThread
            /\ obj'[1].destroyed = obj[1].destroyed
            /\ obj'[1].auto_destroy = obj[1].auto_destroy
            /\ obj'[1].freed = obj[1].freed
            /\ \A p \in Objs \ {1} : obj'[p] = obj[p]
        BY <1>0, <2>1, <3>1, TheObject DEF TypeOK, Object
      <3>3. pc'[t] = "idle" /\ call'[t] = "none" /\ reply'[t] = "ok"
        BY <1>0, <2>1 DEF Return, TypeOK
      <3>4. \A i \in 1 .. Len(withs'[t]) : withs'[t][i] = 1
        BY <1>2 DEF RInv, OneObject
      <3>5. /\ (Untouched /\ OneObject /\ CallAt)'
            /\ holderBar' = NoThread /\ countBar' = 0
        BY <1>1, <1>2, <2>1, <3>2, <3>3, <3>4, DropStep
      <3>6. Lock!Return(t, "ok")
        BY <1>1, <3>3, LockReturn
      <3>7. holderBar = t
        BY <2>1, <2>3, TheObject
      <3>8. Lock!ReleaseAll(t)
        BY <1>3, <3>5, <3>6, <3>7
        DEF Lock!ReleaseAll, callBar, holderBar, countBar
      <3> QED
        BY <3>5, <3>8 DEF Refines, Lock!Next
    <2> QED
      BY <2>2, <2>3
  <1> QED
    BY <1>6, <1>7, <1>8

-----------------------------------------------------------------------------
LEMMA RInvInit ==
  ASSUME Init, NobodyDestroys
  PROVE  Untouched /\ OneObject /\ CallAt
  BY MutexAssumption
  DEF Init, NobodyDestroys, Untouched, OneObject, CallAt, NewObject, Objs,
      NoObj, UsesObject

LEMMA LockInit ==
  ASSUME Init
  PROVE  Lock!Init
  BY MutexAssumption
  DEF Init, Lock!Init, Returned, NewObject, Objs, NoObj

LEMMA RInvNext ==
  ASSUME NobodyDestroys, RInv, [Next]_vars
  PROVE  (Untouched /\ OneObject /\ CallAt)' /\ [Lock!Next]_Lock!vars
  <1>1. CASE UNCHANGED vars
    BY <1>1
    DEF vars, RInv, Untouched, OneObject, CallAt, Lock!vars, Returned
  <1>2. CASE Next
    <2> PICK t \in Threads :
          \/ \E c \in CallNames : Begin(t, c)
          \/ Step(t) \/ Leave(t) \/ Forget(t) \/ Collect(t)
      BY <1>2 DEF Next
    <2>1. ~Forget(t) /\ ~DestroyStep(t)
      BY DEF Forget, NobodyDestroys, DestroyStep, MarkDestroyed, Withdraw,
             DestroyMutex, Arm, RInv, CallAt
    <2>2. ~Collect(t)
      BY DEF Collect, RInv, Untouched
    <2>3. Refines
      BY <2>1, <2>2, BeginStep, CreateStep, GetStep, SmallSteps, TakeSteps,
         BusyStep, UnlockSteps, UnlockAllSteps, LeaveStep
      DEF Step, LockStep, UnlockStep
    <2> QED
      BY <2>3 DEF Refines
  <1> QED
    BY <1>1, <1>2

(* A Prolog mutex that nobody destroys is a recursive lock: every step of  *)
(* mutex_create/1, mutex_lock/1, mutex_trylock/1, mutex_unlock/1,          *)
(* mutex_unlock_all/0 and with_mutex/2 by any number of threads is a step  *)
(* of RecursiveLock or changes nothing of its state.                       *)
THEOREM RecursiveLockImplemented ==
  ASSUME NobodyDestroys
  PROVE  Spec => ImplementsLock
  <1>1. Init => Untouched /\ OneObject /\ CallAt
    BY RInvInit
  <1>2. IInv /\ Untouched /\ OneObject /\ CallAt /\ [Next]_vars =>
          (Untouched /\ OneObject /\ CallAt)' /\ [Lock!Next]_Lock!vars
    BY RInvNext DEF RInv
  <1>3. Init => Lock!Init
    BY LockInit
  <1>4. Spec => []IInv
    BY Invariance
  <1> QED
    BY <1>1, <1>2, <1>3, <1>4, PTL DEF Spec, ImplementsLock, Lock!Spec

LEMMA RInvariance ==
  ASSUME NobodyDestroys
  PROVE  Spec => []RInv
  <1>1. Init => Untouched /\ OneObject /\ CallAt
    BY RInvInit
  <1>2. IInv /\ Untouched /\ OneObject /\ CallAt /\ [Next]_vars =>
          (Untouched /\ OneObject /\ CallAt)'
    BY RInvNext DEF RInv
  <1>3. IInv /\ Untouched /\ OneObject /\ CallAt => RInv
    BY DEF RInv
  <1> QED
    BY <1>1, <1>2, <1>3, Invariance, PTL DEF Spec

(* The memory of a mutex is not touched after it was returned: an          *)
(* anonymous mutex, which threads lock, unlock and destroy by its blob     *)
(* while the garbage collector looks for a blob that nobody has; and a     *)
(* mutex of either kind that is never destroyed.                           *)
THEOREM MemoryUsedInTime ==
  ASSUME NobodyDestroys \/ (Kind = "anon" /\ NobodySweeps)
  PROVE  Spec => []NoUseAfterFree
  <1>1. CASE NobodyDestroys
    <2>1. RInv => NoUseAfterFree
      BY DEF RInv, IInv, TypeOK, Untouched, NoUseAfterFree, Valid
    <2> QED
      BY <1>1, <2>1, RInvariance, PTL
  <1>2. CASE Kind = "anon" /\ NobodySweeps
    <2>1. IInv /\ BlobReferred => NoUseAfterFree
      BY DEF IInv, TypeOK, BlobReferred, NoUseAfterFree, Valid, UsesObject
    <2> QED
      BY <1>2, <2>1, Invariance, BlobInvariance, PTL
  <1> QED
    BY <1>1, <1>2
=============================================================================
