---------------------------- MODULE RecursiveLock ----------------------------
(***************************************************************************)
(* What a Prolog mutex that nobody destroys promises: a recursive lock.    *)
(* Each call takes effect at one instant between call and return; a lock   *)
(* is granted when the mutex is free or held by the caller already, a      *)
(* trylock fails only while another thread holds the mutex, and only the   *)
(* holder can release it.  PrologMutex implements this specification.      *)
(***************************************************************************)
EXTENDS Integers

CONSTANTS Threads, NoThread

VARIABLES
  holder,   \* the thread that holds the mutex, or NoThread
  count,    \* how often it locked it
  call,     \* the pending call of each thread
  reply     \* how its last call ended

vars == <<holder, count, call, reply>>

Requests == {"lock", "trylock", "with", "unlock", "unlock_all", "create"}

Init ==
  /\ holder = NoThread /\ count = 0
  /\ call = [t \in Threads |-> "none"]
  /\ reply = [t \in Threads |-> "none"]

Invoke(t, c) ==
  /\ call[t] = "none"
  /\ call' = [call EXCEPT ![t] = c]
  /\ reply' = [reply EXCEPT ![t] = "none"]
  /\ UNCHANGED <<holder, count>>

Return(t, r) ==
  /\ call' = [call EXCEPT ![t] = "none"]
  /\ reply' = [reply EXCEPT ![t] = r]

Grant(t) ==
  /\ call[t] \in {"lock", "trylock", "with"}
  /\ holder \in {NoThread, t}
  /\ holder' = t /\ count' = count + 1
  /\ Return(t, "ok")

Busy(t) ==
  /\ call[t] = "trylock"
  /\ holder \notin {NoThread, t}
  /\ Return(t, "fail")
  /\ UNCHANGED <<holder, count>>

(* The holder gives one of its locks back. *)
Drop(t) ==
  /\ holder = t
  /\ count' = count - 1
  /\ holder' = IF count = 1 THEN NoThread ELSE t

Release(t) == call[t] = "unlock" /\ Drop(t) /\ Return(t, "ok")

(* unlock by a thread that does not hold the mutex, or before it exists. *)
Denied(t) ==
  /\ call[t] = "unlock"
  /\ holder # t
  /\ \/ Return(t, "permission")
     \/ holder = NoThread /\ Return(t, "existence")
  /\ UNCHANGED <<holder, count>>

ReleaseAll(t) ==
  /\ call[t] = "unlock_all"
  /\ IF holder = t THEN holder' = NoThread /\ count' = 0
                   ELSE UNCHANGED <<holder, count>>
  /\ Return(t, "ok")

Create(t) ==
  /\ call[t] = "create"
  /\ \E r \in {"ok", "permission"} : Return(t, r)
  /\ UNCHANGED <<holder, count>>

(* The goal of with_mutex/2 ended. *)
Leave(t) ==
  /\ call[t] = "none"
  /\ Drop(t)
  /\ UNCHANGED <<call, reply>>

Next == \E t \in Threads :
  \/ \E c \in Requests : Invoke(t, c)
  \/ Grant(t) \/ Busy(t) \/ Release(t) \/ Denied(t)
  \/ ReleaseAll(t) \/ Create(t) \/ Leave(t)

Spec == Init /\ [][Next]_vars
=============================================================================
