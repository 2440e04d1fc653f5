----------------------------- MODULE PrologMutex -----------------------------
(***************************************************************************)
(* A user mutex (struct pl_mutex, src/src/pl-thread.h) and the threads     *)
(* that call mutex_create/1,2, mutex_lock/1, mutex_trylock/1,              *)
(* mutex_unlock/1, mutex_unlock_all/0, mutex_destroy/1 and with_mutex/2 on *)
(* it (src/src/pl-thread.c).                                               *)
(*                                                                         *)
(* A named mutex is found through the table of mutexes and is created by   *)
(* whoever locks a name that is not there, so that one name may stand for  *)
(* one object after the other; an anonymous mutex is one object that is    *)
(* reached through its blob.  None of the calls holds a lock while it uses *)
(* the pointer it found: each use is a step of its own.  The fields count  *)
(* and owner are written by the thread that holds the system mutex, in the *)
(* step that takes or releases it.                                         *)
(*                                                                         *)
(* No step is defined for a thread that is about to use the memory of an   *)
(* object that was freed (UsesObject), nor for a trylock whose result the  *)
(* assertion of PL_mutex_trylock() rejects: the run ends there.            *)
(***************************************************************************)
EXTENDS Integers, Sequences, FiniteSets

CONSTANTS
  Threads,      \* the Prolog threads
  Calls,        \* the predicates that each thread calls
  Forgetful,    \* the threads that may drop their reference to the blob
  Kind,         \* "named": an alias; "anon": a blob
  ObjBound,     \* bound on the objects created, 1 for an anonymous mutex
  CallBound,    \* bound on the calls of a thread, mutex_unlock/1 excepted
  NoThread

CallNames == {"create", "lock", "trylock", "with", "unlock", "unlock_all",
              "destroy"}

ASSUME MutexAssumption ==
  /\ NoThread \notin Threads
  /\ Calls \in [Threads -> SUBSET CallNames]
  /\ Forgetful \subseteq Threads
  /\ Kind \in {"named", "anon"}
  /\ ObjBound \in Nat \ {0} /\ CallBound \in Nat
  /\ Kind = "anon" => ObjBound = 1 /\ \A t \in Threads : "create" \notin Calls[t]

VARIABLES
  obj,      \* the mutex objects
  made,     \* how many of them were created
  table,    \* GD->thread.mutexTable: the object registered, or NoObj
  refs,     \* the threads that refer to the blob
  pc,       \* where each thread is in the call it makes
  call,     \* the call
  reply,    \* how it ended
  mptr,     \* pl_mutex *m
  withs,    \* the pointers of the calls of with_mutex/2 that run their goal
  depth,    \* history: the locks that each thread was granted and still has
  left      \* calls left, for model checking

vars == <<obj, made, table, refs, pc, call, reply, mptr, withs, depth, left>>

Objs == 1..ObjBound
NoObj == 0

Object == [
  sys          : Threads \cup {NoThread}, \* who holds the pthread_mutex_t
  works        : BOOLEAN,                 \* the pthread_mutex_t is usable
  owner        : Threads \cup {NoThread},
  count        : Nat,
  initialized  : BOOLEAN,
  destroyed    : BOOLEAN,
  auto_destroy : BOOLEAN,
  freed        : BOOLEAN]                 \* the memory was returned

NewObject == [sys |-> NoThread, works |-> TRUE, owner |-> NoThread,
              count |-> 0, initialized |-> TRUE, destroyed |-> FALSE,
              auto_destroy |-> FALSE, freed |-> FALSE]

PCs == {"idle", "get", "found", "ready", "block", "after", "try", "dest",
        "del", "fini", "arm", "create", "enum", "visit"}

(* The thread is about to use the memory that m points to. *)
UsesObject == {"found", "ready", "block", "after", "try", "dest", "del",
               "fini", "arm", "visit"}
Valid(t) == ~obj[mptr[t]].freed

-----------------------------------------------------------------------------
Init ==
  /\ obj = [o \in Objs |-> NewObject]
  /\ made = IF Kind = "anon" THEN 1 ELSE 0
  /\ table = IF Kind = "anon" THEN 1 ELSE NoObj
  /\ refs = Threads
  /\ pc = [t \in Threads |-> "idle"]
  /\ call = [t \in Threads |-> "none"]
  /\ reply = [t \in Threads |-> "none"]
  /\ mptr = [t \in Threads |-> 1]
  /\ withs = [t \in Threads |-> <<>>]
  /\ depth = [t \in Threads |-> [o \in Objs |-> 0]]
  /\ left = [t \in Threads |-> CallBound]

Goto(t, next) ==
  /\ pc' = [pc EXCEPT ![t] = next]
  /\ UNCHANGED <<call, reply>>

Return(t, r) ==
  /\ pc' = [pc EXCEPT ![t] = "idle"]
  /\ call' = [call EXCEPT ![t] = "none"]
  /\ reply' = [reply EXCEPT ![t] = r]

(* A call begins.  Only a program that still has the blob can name it. *)
Begin(t, c) ==
  /\ pc[t] = "idle"
  /\ c \in Calls[t]
  /\ c # "unlock_all" => t \in refs
  /\ IF c = "unlock" THEN UNCHANGED left
     ELSE left[t] > 0 /\ left' = [left EXCEPT ![t] = @ - 1]
  /\ pc' = [pc EXCEPT ![t] = CASE c = "unlock_all" -> "enum"
                               [] c = "create" -> "create"
                               [] OTHER -> "get"]
  /\ call' = [call EXCEPT ![t] = c]
  /\ reply' = [reply EXCEPT ![t] = "none"]
  /\ UNCHANGED <<obj, made, table, refs, mptr, withs, depth>>

(* mutexCreate() for the name, with L_THREAD held. *)
Register ==
  /\ made < ObjBound
  /\ made' = made + 1
  /\ table' = made + 1

Create(t) ==
  /\ pc[t] = "create"
  /\ \/ table # NoObj /\ Return(t, "permission") /\ UNCHANGED <<made, table>>
     \/ table = NoObj /\ Register /\ Return(t, "ok")
  /\ UNCHANGED <<obj, refs, mptr, withs, depth, left>>

(* get_mutex(): the pointer of the blob, or the object under the name;     *)
(* those who lock create what is not there.                                *)
Get(t) ==
  /\ pc[t] = "get"
  /\ \/ /\ Kind = "anon"
        /\ mptr' = [mptr EXCEPT ![t] = 1]
        /\ Goto(t, "found")
        /\ UNCHANGED <<made, table>>
     \/ /\ Kind = "named" /\ table # NoObj
        /\ mptr' = [mptr EXCEPT ![t] = table]
        /\ Goto(t, "found")
        /\ UNCHANGED <<made, table>>
     \/ /\ Kind = "named" /\ table = NoObj
        /\ call[t] \in {"lock", "trylock", "with"}
        /\ Register
        /\ mptr' = [mptr EXCEPT ![t] = made + 1]
        /\ Goto(t, "found")
     \/ /\ Kind = "named" /\ table = NoObj
        /\ call[t] \in {"unlock", "destroy"}
        /\ Return(t, "existence")
        /\ UNCHANGED <<made, table, mptr>>
  /\ UNCHANGED <<obj, refs, withs, depth, left>>

(* get_mutex() looks at m->destroyed, without the lock. *)
CheckDestroyed(t) ==
  /\ pc[t] = "found" /\ Valid(t)
  /\ IF obj[mptr[t]].destroyed
     THEN Return(t, "existence")
     ELSE Goto(t, IF call[t] \in {"trylock", "destroy"} THEN "try" ELSE "ready")
  /\ UNCHANGED <<obj, made, table, refs, mptr, withs, depth, left>>

-----------------------------------------------------------------------------
(* mutex_lock/1 and the entry of with_mutex/2. *)

(* The call was granted a lock on o: with_mutex/2 starts its goal. *)
Granted(t, o) ==
  /\ depth' = [depth EXCEPT ![t][o] = @ + 1]
  /\ withs' = IF call[t] = "with" THEN [withs EXCEPT ![t] = Append(@, o)]
                                  ELSE withs
  /\ Return(t, "ok")
  /\ UNCHANGED <<made, table, refs, mptr, left>>

(* Mutant: a recursive lock is not counted. *)
LockAgainUncounted(t) ==
  LET o == mptr[t] IN
  /\ pc[t] = "ready" /\ Valid(t)
  /\ call[t] \in {"lock", "with"}
  /\ obj[o].owner = t
  /\ Granted(t, o)
  /\ UNCHANGED obj

LockAgain(t) ==
  LET o == mptr[t] IN
  /\ pc[t] = "ready" /\ Valid(t)
  /\ call[t] \in {"lock", "with"}
  /\ obj[o].owner = t
  /\ obj' = [obj EXCEPT ![o].count = @ + 1]
  /\ Granted(t, o)

LockOther(t) ==
  /\ pc[t] = "ready" /\ Valid(t)
  /\ call[t] \in {"lock", "with"}
  /\ obj[mptr[t]].owner # t
  /\ Goto(t, "block")
  /\ UNCHANGED <<obj, made, table, refs, mptr, withs, depth, left>>

(* pthread_mutex_lock() returns.  Its result is not looked at: on a mutex  *)
(* that was destroyed it fails at once, or it succeeds for a thread that   *)
(* blocked in it before.                                                   *)
LockTake(t) ==
  LET o == mptr[t] IN
  /\ pc[t] = "block" /\ Valid(t)
  /\ \E s \in (IF obj[o].sys = NoThread THEN {t} ELSE {}) \cup
              (IF obj[o].works THEN {} ELSE {obj[o].sys}) :
       obj' = [obj EXCEPT ![o] = [@ EXCEPT !.sys = s, !.owner = t, !.count = 1]]
  /\ Granted(t, o)

-----------------------------------------------------------------------------
(* PL_mutex_trylock(), for mutex_trylock/1 and try_really_destroy_mutex(). *)

(* What follows when the mutex cannot be destroyed now. *)
NotNow(t) == IF call[t] = "destroy" THEN Goto(t, "arm") ELSE Return(t, "ok")

(* Mutant: the owner may destroy the mutex that it holds. *)
TryAgainDestroys(t) ==
  LET o == mptr[t] IN
  /\ pc[t] = "try" /\ Valid(t)
  /\ obj[o].owner = t
  /\ \/ /\ call[t] = "trylock"
        /\ obj' = [obj EXCEPT ![o].count = @ + 1]
        /\ Granted(t, o)
     \/ /\ call[t] # "trylock"
        /\ Goto(t, "dest")
        /\ UNCHANGED <<obj, made, table, refs, mptr, withs, depth, left>>

(* The caller holds it: count # 1, so that a destroyer unlocks it again. *)
TryAgain(t) ==
  LET o == mptr[t] IN
  /\ pc[t] = "try" /\ Valid(t)
  /\ obj[o].owner = t
  /\ \/ /\ call[t] = "trylock"
        /\ obj' = [obj EXCEPT ![o].count = @ + 1]
        /\ Granted(t, o)
     \/ /\ call[t] # "trylock"
        /\ NotNow(t)
        /\ UNCHANGED <<obj, made, table, refs, mptr, withs, depth, left>>

TryTake(t) ==
  LET o == mptr[t] IN
  /\ pc[t] = "try" /\ Valid(t)
  /\ obj[o].owner # t /\ obj[o].works /\ obj[o].sys = NoThread
  /\ obj' = [obj EXCEPT ![o] = [@ EXCEPT !.sys = t, !.owner = t, !.count = 1]]
  /\ \/ call[t] = "trylock" /\ Granted(t, o)
     \/ /\ call[t] # "trylock"
        /\ Goto(t, "dest")
        /\ UNCHANGED <<made, table, refs, mptr, withs, depth, left>>

TryBusy(t) ==
  LET o == mptr[t] IN
  /\ pc[t] = "try" /\ Valid(t)
  /\ obj[o].owner # t /\ obj[o].works /\ obj[o].sys # NoThread
  /\ IF call[t] = "trylock" THEN Return(t, "fail") ELSE NotNow(t)
  /\ UNCHANGED <<obj, made, table, refs, mptr, withs, depth, left>>

-----------------------------------------------------------------------------
(* mutex_unlock/1, mutex_unlock_all/0 and the exit of with_mutex/2. *)

(* Mutant: the first unlock releases the mutex. *)
UnlockAtOnce(t, o) ==
  /\ obj' = [obj EXCEPT ![o] = [@ EXCEPT !.count = 0, !.owner = NoThread,
                                         !.sys = NoThread]]
  /\ depth' = [depth EXCEPT ![t][o] = @ - 1]

(* PL_mutex_unlock() by the owner of o. *)
UnlockOne(t, o) ==
  LET n == obj[o].count - 1 IN
  /\ obj' = [obj EXCEPT ![o] =
               [@ EXCEPT !.count = n,
                         !.owner = IF n = 0 THEN NoThread ELSE t,
                         !.sys = IF n = 0 THEN NoThread ELSE obj[o].sys]]
  /\ depth' = [depth EXCEPT ![t][o] = @ - 1]

Unlock(t) ==
  /\ pc[t] = "ready" /\ Valid(t)
  /\ call[t] = "unlock"
  /\ obj[mptr[t]].owner = t
  /\ UnlockOne(t, mptr[t])
  /\ Goto(t, "after")
  /\ UNCHANGED <<made, table, refs, mptr, withs, left>>

UnlockDenied(t) ==
  /\ pc[t] = "ready" /\ Valid(t)
  /\ call[t] = "unlock"
  /\ obj[mptr[t]].owner # t
  /\ Return(t, "permission")
  /\ UNCHANGED <<obj, made, table, refs, mptr, withs, depth, left>>

(* Mutant: mutex_unlock/1 does not look at auto_destroy. *)
AfterUnlockIgnored(t) ==
  /\ pc[t] = "after" /\ Valid(t)
  /\ Return(t, "ok")
  /\ UNCHANGED <<obj, made, table, refs, mptr, withs, depth, left>>

(* mutex_unlock/1 reads m->auto_destroy after it released the mutex. *)
AfterUnlock(t) ==
  /\ pc[t] = "after" /\ Valid(t)
  /\ IF obj[mptr[t]].auto_destroy THEN Goto(t, "try") ELSE Return(t, "ok")
  /\ UNCHANGED <<obj, made, table, refs, mptr, withs, depth, left>>

(* The goal of with_mutex/2 is done; it may have unlocked the mutex. *)
Leave(t) ==
  /\ pc[t] = "idle" /\ withs[t] # <<>>
  /\ LET o == withs[t][Len(withs[t])] IN
       /\ ~obj[o].freed
       /\ IF obj[o].owner = t THEN UnlockOne(t, o) ELSE UNCHANGED <<obj, depth>>
  /\ withs' = [withs EXCEPT ![t] = SubSeq(@, 1, Len(@) - 1)]
  /\ UNCHANGED <<made, table, refs, pc, call, reply, mptr, left>>

(* mutex_unlock_all/0 enumerates the table. *)
Enumerate(t) ==
  /\ pc[t] = "enum"
  /\ \/ table = NoObj /\ Return(t, "ok") /\ UNCHANGED mptr
     \/ /\ table # NoObj
        /\ mptr' = [mptr EXCEPT ![t] = table]
        /\ Goto(t, "visit")
  /\ UNCHANGED <<obj, made, table, refs, withs, depth, left>>

UnlockAll(t) ==
  LET o == mptr[t] IN
  /\ pc[t] = "visit" /\ Valid(t)
  /\ IF obj[o].owner = t
     THEN /\ obj' = [obj EXCEPT ![o] = [@ EXCEPT !.count = 0,
                                   !.owner = NoThread, !.sys = NoThread]]
          /\ depth' = [depth EXCEPT ![t][o] = 0]
     ELSE UNCHANGED <<obj, depth>>
  /\ Return(t, "ok")
  /\ UNCHANGED <<made, table, refs, mptr, withs, left>>

-----------------------------------------------------------------------------
(* try_really_destroy_mutex(), when the mutex was taken with count = 1. *)

MarkDestroyed(t) ==
  /\ pc[t] = "dest" /\ Valid(t)
  /\ obj' = [obj EXCEPT ![mptr[t]].destroyed = TRUE]
  /\ Goto(t, "del")
  /\ UNCHANGED <<made, table, refs, mptr, withs, depth, left>>

(* deleteHTable(), and the mutex is unlocked. *)
Withdraw(t) ==
  /\ pc[t] = "del" /\ Valid(t)
  /\ table' = NoObj
  /\ obj' = [obj EXCEPT ![mptr[t]] = [@ EXCEPT !.count = 0,
                                !.owner = NoThread, !.sys = NoThread]]
  /\ Goto(t, "fini")
  /\ UNCHANGED <<made, refs, mptr, withs, depth, left>>

(* pthread_mutex_destroy(): a mutex that is held stays as it is (EBUSY). *)
SystemDestroyed(m) ==
  [m EXCEPT !.initialized = FALSE,
            !.works = @ /\ (m.initialized => m.sys # NoThread)]

(* Mutant: destroy_mutex() frees the object, whoever refers to it. *)
DestroyFree(t) ==
  /\ pc[t] = "fini" /\ Valid(t)
  /\ obj' = [obj EXCEPT ![mptr[t]] =
               [SystemDestroyed(@) EXCEPT !.freed = TRUE]]
  /\ Return(t, "ok")
  /\ UNCHANGED <<made, table, refs, mptr, withs, depth, left>>

(* destroy_mutex(): a named mutex is freed, a blob keeps its memory. *)
DestroyMutex(t) ==
  /\ pc[t] = "fini" /\ Valid(t)
  /\ obj' = [obj EXCEPT ![mptr[t]] =
               [SystemDestroyed(@) EXCEPT !.freed = (Kind = "named")]]
  /\ Return(t, "ok")
  /\ UNCHANGED <<made, table, refs, mptr, withs, depth, left>>

(* mutex_destroy/1 leaves the work to the thread that unlocks the mutex. *)
Arm(t) ==
  /\ pc[t] = "arm" /\ Valid(t)
  /\ obj' = [obj EXCEPT ![mptr[t]].auto_destroy = TRUE]
  /\ Return(t, "ok")
  /\ UNCHANGED <<made, table, refs, mptr, withs, depth, left>>

(* A thread drops its last reference to the blob; a call has one. *)
Forget(t) ==
  /\ Kind = "anon" /\ t \in Forgetful \cap refs
  /\ pc[t] \in {"idle", "enum", "visit"} /\ withs[t] = <<>>
  /\ refs' = refs \ {t}
  /\ UNCHANGED <<obj, made, table, pc, call, reply, mptr, withs, depth, left>>

(* release_mutexref(), called by the atom garbage collector in thread t.   *)
(* A mutex that another thread holds is given up.                          *)
Collect(t) ==
  /\ Kind = "anon" /\ refs = {} /\ made = 1
  /\ pc[t] = "idle"
  /\ made' = 2
  /\ table' = NoObj
  /\ IF obj[1].owner \in {NoThread, t}
     THEN obj' = [obj EXCEPT ![1] =
                    [@ EXCEPT !.sys = NoThread, !.works = FALSE, !.freed = TRUE]]
     ELSE UNCHANGED obj
  /\ UNCHANGED <<refs, pc, call, reply, mptr, withs, depth, left>>

-----------------------------------------------------------------------------
LockStep(t) ==
  \/ Create(t) \/ Get(t) \/ CheckDestroyed(t)
  \/ LockAgain(t) \/ LockOther(t) \/ LockTake(t)
  \/ TryAgain(t) \/ TryTake(t) \/ TryBusy(t)

UnlockStep(t) ==
  \/ Unlock(t) \/ UnlockDenied(t) \/ AfterUnlock(t)
  \/ Enumerate(t) \/ UnlockAll(t)

DestroyStep(t) ==
  MarkDestroyed(t) \/ Withdraw(t) \/ DestroyMutex(t) \/ Arm(t)

Step(t) == LockStep(t) \/ UnlockStep(t) \/ DestroyStep(t)

Next == \E t \in Threads :
  \/ \E c \in CallNames : Begin(t, c)
  \/ Step(t) \/ Leave(t) \/ Forget(t) \/ Collect(t)

Spec == Init /\ [][Next]_vars

Holds(t) == \E o \in Objs : depth[t][o] > 0

(* Threads run, goals of with_mutex/2 end, and who holds a mutex calls     *)
(* mutex_unlock/1 in the end.                                              *)
Fairness == \A t \in Threads :
  /\ WF_vars(Step(t)) /\ WF_vars(Leave(t))
  /\ WF_vars(Holds(t) /\ Begin(t, "unlock"))

FairSpec == Spec /\ Fairness

-----------------------------------------------------------------------------
(* The type of every variable; struct pl_mutex and the locals of its users. *)
TypeOK ==
  /\ obj \in [Objs -> Object]
  /\ made \in Nat
  /\ table \in Objs \cup {NoObj}
  /\ refs \subseteq Threads
  /\ pc \in [Threads -> PCs]
  /\ call \in [Threads -> CallNames \cup {"none"}]
  /\ reply \in [Threads -> {"none", "ok", "fail", "existence", "permission"}]
  /\ mptr \in [Threads -> Objs]
  /\ withs \in [Threads -> Seq(Objs)]
  /\ depth \in [Threads -> [Objs -> Nat]]
  /\ left \in [Threads -> Nat]

(* A mutex that is not destroyed is held by one thread at a time, whatever *)
(* mixture of locks, trylocks, unlocks and attempts to destroy it runs.    *)
LiveExclusion ==
  \A o \in Objs : ~obj[o].destroyed =>
    \A t, u \in Threads : depth[t][o] > 0 /\ depth[u][o] > 0 => t = u

(* "only one thread can hold a mutex": the mutex as the program knows it,  *)
(* by its name or its blob, also when it is destroyed.                     *)
MutualExclusion == \A t, u \in Threads : Holds(t) /\ Holds(u) => t = u

(* The fields tell the truth: a thread that holds the mutex n times owns   *)
(* it with count n, so that it takes n unlocks to give it up.              *)
CountedLocks ==
  \A o \in Objs : ~obj[o].destroyed =>
    \A t \in Threads : depth[t][o] > 0 =>
      obj[o].owner = t /\ obj[o].count = depth[t][o]

(* A mutex is destroyed only while no thread holds it. *)
DestroyedUnheld ==
  [][\A o \in Objs : obj'[o].destroyed /\ ~obj[o].destroyed =>
       \A t \in Threads : depth[t][o] = 0]_vars

(* The memory of a mutex is returned only after every thread that has a    *)
(* pointer to it is done with it.                                          *)
NoUseAfterFree ==
  \A t \in Threads : pc[t] \in UsesObject => Valid(t)

(* assert(rc == EBUSY) in PL_mutex_trylock(): it is not called for a mutex *)
(* whose pthread_mutex_t was destroyed.                                    *)
TrylockAssertion ==
  \A t \in Threads : pc[t] = "try" /\ Valid(t) =>
    obj[mptr[t]].works \/ obj[mptr[t]].owner = t

(* mutex_destroy/1 of a mutex that a thread holds, and gives up with       *)
(* mutex_unlock/1, destroys it in the end, unless the holder forgets it.   *)
ArmedIsDestroyed ==
  \A o \in Objs :
    (obj[o].auto_destroy /\ \E t \in Threads : depth[t][o] > 0)
      ~> (\/ obj[o].destroyed
          \/ \E t \in Threads \ refs : depth[t][o] > 0)

(* "it will be destroyed when it becomes unlocked": no mutex that was      *)
(* scheduled for destruction is unlocked and alive when all is quiet.      *)
DelayedDestruction ==
  \A o \in Objs :
    (/\ obj[o].auto_destroy /\ obj[o].owner = NoThread
     /\ \A t \in Threads : pc[t] = "idle") => obj[o].destroyed

(* While nobody destroys it the mutex is a recursive lock: the fields of   *)
(* the object are its state, and mutex_unlock/1 takes effect before it     *)
(* looks at auto_destroy.                                                  *)
Returned(t) == pc[t] \in {"idle", "after"}
Lock == INSTANCE RecursiveLock WITH
  holder <- IF table = NoObj THEN NoThread ELSE obj[table].owner,
  count <- IF table = NoObj THEN 0 ELSE obj[table].count,
  call <- [t \in Threads |-> IF Returned(t) THEN "none" ELSE call[t]],
  reply <- [t \in Threads |-> IF pc[t] = "after" THEN "ok" ELSE reply[t]]
ImplementsLock == Lock!Spec
=============================================================================
