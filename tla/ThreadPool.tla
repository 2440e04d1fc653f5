----------------------------- MODULE ThreadPool -----------------------------
(***************************************************************************)
(* library(thread_pool): a manager thread keeps the pools, clients send it *)
(* requests and wait for a reply, and a worker sends it a message when it  *)
(* exits.  A client that finds no manager starts one; one that finds no    *)
(* pool may have it created lazily.                                        *)
(*                                                                         *)
(* The pools do not touch each other; one stands for all.  The queues of   *)
(* the threads are those of MessageQueue: a message is received by the     *)
(* thread it was sent to, in order, and sending to a thread that exited is *)
(* an error.  with_mutex/2 is that of PrologMutex, which also shows that   *)
(* the mutex_destroy/1 inside it leaves the mutex alone.  The list of the  *)
(* members, which is only shown, is left out.                              *)
(***************************************************************************)
EXTENDS Naturals, Sequences, FiniteSets, SequencesExt

CONSTANTS
  Clients,    \* threads that use the pool
  NoClient,
  Calls,      \* what each of them may call
  CallBound,  \* how often
  Signalled,  \* clients whose wait may end by an exception, and who may exit
  Workers,    \* threads that may run in pools
  Size,       \* slots of the pool
  Backlog,    \* requests that may be delayed
  FaultBound  \* how often thread_create/3 fails

Verbs == {"create_pool", "destroy_pool", "current", "create", "create_nowait"}

ASSUME PoolAssumption ==
  /\ NoClient \notin Clients /\ Signalled \subseteq Clients
  /\ Calls \in [Clients -> SUBSET Verbs]
  /\ CallBound \in Nat /\ Size \in Nat /\ Backlog \in Nat /\ FaultBound \in Nat
  /\ IsFiniteSet(Workers)

VARIABLES
  manager,   \* the thread __thread_pool_manager: "none", "running", "dead"
  mail,      \* its messages
  pool,      \* a sequence: the pool, if there is one
  pc,        \* what each client is doing,
  verb,      \* for which call
  stage,     \* and which part of it,
  inbox,     \* the replies to it
  starting,  \* who holds the mutex __thread_pool
  creating,  \* who holds the mutex named after the pool
  serves,    \* the pool that a thread of Workers runs in, 0 when it does not run
  left,      \* calls that a client may still make
  faults,    \* failures of thread_create/3 that may still happen
  pools,     \* history: how many pools were created,
  lost,      \*   the clients whose request is gone with the pool or the manager,
  gaveUp     \*   and those that once stopped waiting

clientVars == <<pc, verb, stage, starting, creating, left, gaveUp>>
managerVars == <<manager, mail, pool, serves, faults, pools, lost>>
vars == <<clientVars, inbox, managerVars>>

Init ==
  /\ manager = "none" /\ mail = <<>> /\ pool = <<>>
  /\ pc = [c \in Clients |-> "idle"]
  /\ verb = [c \in Clients |-> "current"]
  /\ stage = [c \in Clients |-> "only"]
  /\ inbox = [c \in Clients |-> <<>>]
  /\ starting = NoClient /\ creating = NoClient
  /\ serves = [w \in Workers |-> 0]
  /\ left = [c \in Clients |-> CallBound] /\ faults = FaultBound
  /\ pools = 0 /\ lost = {} /\ gaveUp = {}
-----------------------------------------------------------------------------
(* A client: every request begins with pool_manager/1. *)

Goto(c, next) == pc' = [pc EXCEPT ![c] = next]

Ask(c, part) == Goto(c, "check") /\ stage' = [stage EXCEPT ![c] = part]

Request(c) ==
  CASE stage[c] = "ask" -> "current" [] stage[c] = "make" -> "create_pool" [] OTHER -> verb[c]

Call(c, what) ==
  /\ pc[c] = "idle" /\ what \in Calls[c]
  /\ left[c] > 0 /\ left' = [left EXCEPT ![c] = @ - 1]
  /\ verb' = [verb EXCEPT ![c] = what]
  /\ Ask(c, IF what \in {"create", "create_nowait"} THEN "first" ELSE "only")
  /\ UNCHANGED <<inbox, starting, creating, gaveUp, managerVars>>

Without(holder, c) == IF holder = c THEN NoClient ELSE holder

(* The call returns, or an exception leaves it and what it is nested in. *)
Return(c) ==
  /\ Goto(c, "idle")
  /\ verb' = [verb EXCEPT ![c] = "current"] /\ stage' = [stage EXCEPT ![c] = "only"]
  /\ starting' = Without(starting, c) /\ creating' = Without(creating, c)
  /\ UNCHANGED left

(* thread_running/1, before the mutex is taken and again with it held. *)
Check(c) ==
  /\ pc[c] = "check"
  /\ \/ manager = "running" /\ Goto(c, "send") /\ starting' = Without(starting, c)
     \/ manager = "dead" /\ Goto(c, "join") /\ UNCHANGED starting
     \/ /\ manager = "none"
        /\ Goto(c, IF starting = c THEN "launch" ELSE "start") /\ UNCHANGED starting
  /\ UNCHANGED <<verb, stage, creating, left, gaveUp, inbox, managerVars>>

(* thread_join/2 of a manager that died.  Somebody else may have done it:  *)
(* then there is no such thread, or a new one to wait for.                 *)
Join(c) ==
  /\ pc[c] = "join"
  /\ \/ /\ manager = "dead" /\ manager' = "none"
        /\ Goto(c, IF starting = c THEN "launch" ELSE "start")
        /\ UNCHANGED <<verb, stage, starting, creating, left>>
     \/ manager = "none" /\ Return(c) /\ UNCHANGED manager
  /\ UNCHANGED <<gaveUp, inbox, mail, pool, serves, faults, pools, lost>>

Start(c) ==
  /\ pc[c] = "start"
  /\ starting = NoClient /\ starting' = c
  /\ Goto(c, "check")
  /\ UNCHANGED <<verb, stage, creating, left, gaveUp, inbox, managerVars>>

Launch(c) ==
  /\ pc[c] = "launch"
  /\ manager' = "running"
  /\ Goto(c, "send") /\ starting' = NoClient
  /\ UNCHANGED <<verb, stage, creating, left, gaveUp, inbox, mail, pool, serves, faults,
                 pools, lost>>

Send(c) ==
  /\ pc[c] = "send"
  /\ \/ /\ manager = "running"
        /\ mail' = Append(mail, [verb |-> Request(c), for |-> c])
        /\ Goto(c, "wait")
        /\ UNCHANGED <<verb, stage, starting, creating, left>>
     \/ manager # "running" /\ Return(c) /\ UNCHANGED mail
  /\ UNCHANGED <<gaveUp, inbox, manager, pool, serves, faults, pools, lost>>

(* create_pool_lazily/1 *)
Lazily(c) ==
  /\ pc[c] = "lazy"
  /\ creating = NoClient /\ creating' = c
  /\ Ask(c, "ask")
  /\ UNCHANGED <<verb, starting, left, gaveUp, inbox, managerVars>>

(* The pool is there: thread_create_in_pool_/4 is called again. *)
Again(c) ==
  /\ creating' = NoClient
  /\ Ask(c, "again")
  /\ UNCHANGED <<verb, starting, left>>

(* wait_reply/0,1 takes the first reply in the queue.  In the second       *)
(* disjunct the hook create_pool/1 asks for the pool; in the last one the  *)
(* call is over, which after "no" is the failure of the hook.              *)
Receive(c) ==
  LET reply == Head(inbox[c]) IN
  /\ pc[c] = "wait" /\ inbox[c] # <<>>
  /\ inbox' = [inbox EXCEPT ![c] = Tail(@)]
  /\ \/ /\ stage[c] = "first" /\ reply = "no_pool"
        /\ Goto(c, "lazy")
        /\ UNCHANGED <<verb, stage, starting, creating, left>>
     \/ /\ stage[c] = "ask" /\ reply \in {"no", "id"}
        /\ Ask(c, "make")
        /\ UNCHANGED <<verb, starting, creating, left>>
     \/ <<stage[c], reply>> \in {<<"ask", "yes">>, <<"make", "true">>} /\ Again(c)
     \/ /\ <<stage[c], reply>> \notin {<<"first", "no_pool">>, <<"ask", "yes">>, <<"make", "true">>}
        /\ Return(c)
  /\ UNCHANGED <<gaveUp, managerVars>>

(* An exception ends the wait; the reply will find the thread or not. *)
GiveUp(c) ==
  /\ pc[c] = "wait" /\ c \in Signalled
  /\ Return(c)
  /\ gaveUp' = gaveUp \cup {c}
  /\ UNCHANGED <<inbox, managerVars>>

Exit(c) ==
  /\ pc[c] = "idle" /\ c \in Signalled
  /\ Goto(c, "exited")
  /\ inbox' = [inbox EXCEPT ![c] = <<>>]
  /\ UNCHANGED <<verb, stage, starting, creating, left, gaveUp, managerVars>>

(* worker_exitted/3 *)
End(w) ==
  /\ serves[w] # 0
  /\ serves' = [serves EXCEPT ![w] = 0]
  /\ mail' = IF manager = "running"
             THEN Append(mail, [verb |-> "exitted", from |-> serves[w]]) ELSE mail
  /\ UNCHANGED <<clientVars, inbox, manager, pool, faults, pools, lost>>

ClientStep(c) ==
  \/ Check(c) \/ Join(c) \/ Start(c) \/ Launch(c) \/ Send(c) \/ Lazily(c) \/ Receive(c)
-----------------------------------------------------------------------------
(* The manager: update_thread_pool/3 and update_pool/3 of one message. *)

Takes(verbs) == manager = "running" /\ mail # <<>> /\ Head(mail).verb \in verbs

Askers(messages) == {m.for : m \in {n \in ToSet(messages) : n.verb # "exitted"}}

Answer(c, reply, p) ==
  /\ pc[c] # "exited"
  /\ inbox' = [inbox EXCEPT ![c] = Append(@, reply)]
  /\ mail' = Tail(mail) /\ pool' = p
  /\ UNCHANGED manager

(* There is no thread c any more: the error is the end of the manager. *)
Die(c, p) ==
  /\ pc[c] = "exited"
  /\ manager' = "dead" /\ mail' = <<>> /\ pool' = <<>>
  /\ lost' = lost \cup Askers(Tail(mail)) \cup (IF p = <<>> THEN {} ELSE ToSet(p[1].waiting))
  /\ UNCHANGED inbox

(* The pool becomes p and c gets a reply. *)
Reply(c, reply, p) == (Answer(c, reply, p) /\ UNCHANGED lost) \/ Die(c, p)

CreatePool ==
  LET c == Head(mail).for IN
  /\ Takes({"create_pool"})
  /\ \/ /\ pool = <<>>
        /\ pools' = pools + 1
        /\ Reply(c, "true", << [free |-> Size, waiting |-> <<>>, name |-> pools + 1,
                                failed |-> 0, strangers |-> 0] >>)
     \/ pool # <<>> /\ Reply(c, "permission", pool) /\ UNCHANGED pools
  /\ UNCHANGED <<clientVars, serves, faults>>

(* The requests that wait for a slot go with the pool. *)
DestroyPool ==
  LET c == Head(mail).for IN
  /\ Takes({"destroy_pool"})
  /\ \/ pool # <<>> /\ Answer(c, "true", <<>>) /\ lost' = lost \cup ToSet(pool[1].waiting)
     \/ pool # <<>> /\ Die(c, pool)
     \/ pool = <<>> /\ Reply(c, "no_pool", pool)
  /\ UNCHANGED <<clientVars, serves, faults, pools>>

CurrentPools ==
  /\ Takes({"current"})
  /\ Reply(Head(mail).for, IF pool = <<>> THEN "no" ELSE "yes", pool)
  /\ UNCHANGED <<clientVars, serves, faults, pools>>

(* Mutant: a thread is created without taking a slot. *)
CreateThreadUntaken(c, p) ==
  /\ \E w \in Workers : serves[w] = 0 /\ serves' = [serves EXCEPT ![w] = p.name]
  /\ Reply(c, "id", <<p>>)
  /\ UNCHANGED faults

(* thread_create/3 for client c in pool p, which has a free slot.  The     *)
(* slot is taken before and not given back when the creation fails.        *)
CreateThread(c, p) ==
  \/ /\ \E w \in Workers : /\ serves[w] = 0
                           /\ serves' = [serves EXCEPT ![w] = p.name]
     /\ Reply(c, "id", << [p EXCEPT !.free = @ - 1] >>)
     /\ UNCHANGED faults
  \/ /\ faults > 0 /\ faults' = faults - 1
     /\ Reply(c, "error", << [p EXCEPT !.free = @ - 1, !.failed = @ + 1] >>)
     /\ UNCHANGED serves

CanDelay(waits, p) == waits = "create" /\ Len(p.waiting) < Backlog

(* The pool is full: the request waits, or is refused. *)
Delay(c, waits, p) ==
  \/ /\ CanDelay(waits, p)
     /\ pool' = << [p EXCEPT !.waiting = Append(@, c)] >>
     /\ mail' = Tail(mail)
     /\ UNCHANGED <<manager, inbox, lost>>
  \/ ~CanDelay(waits, p) /\ Reply(c, "full", <<p>>)

Create ==
  LET c == Head(mail).for IN
  /\ Takes({"create", "create_nowait"})
  /\ \/ pool = <<>> /\ Reply(c, "no_pool", pool) /\ UNCHANGED <<serves, faults>>
     \/ pool # <<>> /\ pool[1].free > 0 /\ CreateThread(c, pool[1])
     \/ /\ pool # <<>> /\ pool[1].free = 0
        /\ Delay(c, Head(mail).verb, pool[1])
        /\ UNCHANGED <<serves, faults>>
  /\ UNCHANGED <<clientVars, pools>>

(* Mutant: the request that is started stays in the backlog. *)
ExittedKeepsFirst ==
  LET p == [pool[1] EXCEPT !.free = @ + 1] IN
  /\ Takes({"exitted"}) /\ pool # <<>> /\ pool[1].waiting # <<>>
  /\ CreateThread(Head(p.waiting), p)
  /\ UNCHANGED <<clientVars, pools>>

(* Mutant: nothing that waits is started. *)
ExittedStartsNone ==
  /\ Takes({"exitted"})
  /\ mail' = Tail(mail)
  /\ pool' = IF pool = <<>> THEN pool ELSE << [pool[1] EXCEPT !.free = @ + 1] >>
  /\ UNCHANGED <<clientVars, manager, inbox, serves, faults, lost, pools>>

(* A slot is free, whatever pool of this name the worker came from, and    *)
(* the request that waits longest gets it.                                 *)
Exitted ==
  LET p == [pool[1] EXCEPT !.free = @ + 1,
                           !.strangers = IF Head(mail).from = pool[1].name THEN @ ELSE @ + 1]
  IN
  /\ Takes({"exitted"})
  /\ \/ /\ pool = <<>>
        /\ mail' = Tail(mail) /\ UNCHANGED <<pool, manager, inbox, serves, faults, lost>>
     \/ /\ pool # <<>> /\ pool[1].waiting = <<>>
        /\ mail' = Tail(mail) /\ pool' = <<p>>
        /\ UNCHANGED <<manager, inbox, serves, faults, lost>>
     \/ /\ pool # <<>> /\ pool[1].waiting # <<>>
        /\ CreateThread(Head(p.waiting), [p EXCEPT !.waiting = Tail(@)])
  /\ UNCHANGED <<clientVars, pools>>

ManagerStep == CreatePool \/ DestroyPool \/ CurrentPools \/ Create \/ Exitted

Next ==
  \/ \E c \in Clients : \/ \E what \in Verbs : Call(c, what)
                        \/ ClientStep(c) \/ GiveUp(c) \/ Exit(c)
  \/ \E w \in Workers : End(w)
  \/ ManagerStep

Spec == Init /\ [][Next]_vars

(* Threads run, and the goals in the pool come to an end. *)
FairSpec ==
  /\ Spec /\ WF_vars(ManagerStep)
  /\ \A c \in Clients : WF_vars(ClientStep(c))
  /\ \A w \in Workers : WF_vars(End(w))
-----------------------------------------------------------------------------
(* Slots of the pool: what is free, what its threads take until the        *)
(* manager hears of their exit, and what failed creations took for good.   *)
(* It grows by the exits of threads of a destroyed pool of the same name,  *)
(* so a pool never has more threads than these and its size.               *)
Busy(p) == Cardinality({w \in Workers : serves[w] = p.name})
Leaving(p) == Cardinality({k \in DOMAIN mail : mail[k].verb = "exitted" /\ mail[k].from = p.name})

SlotsExact ==
  pool # <<>> =>
    LET p == pool[1] IN
    /\ p.free + Busy(p) + Leaving(p) + p.failed = Size + p.strangers
    /\ p.waiting # <<>> => p.free = 0

(* A client that waits has its request with the manager, in the backlog or *)
(* answered, once; one that does not has none: no reply is left for a      *)
(* later request to take.  Unless the manager or the pool went, or the     *)
(* client itself gave up.                                                  *)
Places(c) ==
  Cardinality({k \in DOMAIN mail : mail[k].verb # "exitted" /\ mail[k].for = c})
  + (IF pool = <<>> THEN 0 ELSE Cardinality({k \in DOMAIN pool[1].waiting : pool[1].waiting[k] = c}))
  + Len(inbox[c])

OneAnswer ==
  \A c \in Clients \ gaveUp :
    Places(c) = IF pc[c] = "wait" /\ c \notin lost THEN 1 ELSE 0

(* Every slot of the pool was lost to a creation that failed. *)
Exhausted ==
  pool # <<>> /\ pool[1].free = 0 /\ Busy(pool[1]) = 0 /\ Leaving(pool[1]) = 0

(* A client that waits is answered, unless its request went with the pool  *)
(* or the manager, or the pool has no slot left.                           *)
EveryRequestAnswered ==
  \A c \in Clients : pc[c] = "wait" ~> (pc[c] # "wait" \/ c \in lost \/ Exhausted)
=============================================================================
