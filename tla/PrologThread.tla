---------------------------- MODULE PrologThread ----------------------------
(***************************************************************************)
(* The life of Prolog threads (src/src/pl-thread.c): thread_create/3,      *)
(* start_thread(), the end of a thread in freePrologThread(),              *)
(* thread_join/2, thread_detach/1, and the slots (PL_thread_info_t),       *)
(* thread identifiers and aliases that they share.                         *)
(*                                                                         *)
(* A region of the code that holds L_THREAD is one step, and so is each    *)
(* use of a slot outside of it.  Tids are the POSIX threads that           *)
(* thread_create/3 makes, each used once; Callers are threads that live    *)
(* on and call the predicates.  Slot 1 is that of the main thread.         *)
(***************************************************************************)
EXTENDS Integers, FiniteSets

CONSTANTS
  Callers,      \* the threads that call the predicates below
  Verbs,        \* what each of them calls
  Names,        \* aliases
  NoName,
  NoCaller,
  Options,      \* the options that threads are created with; a daemon
                \* may detach itself, and its creator does not join it
  Faults,       \* what may fail for a thread, by its option detached(Bool)
  Results,      \* how threads end
  SlotBound,    \* bound on the slots: thread_max is doubled as needed
  TidBound      \* bound on the POSIX threads

FaultNames == {"options", "inherit", "id", "pthread", "memory"}

Slots == 1..SlotBound
NoSlot == 0
Tids == 1..TidBound
NoTid == 0

ASSUME ThreadAssumption ==
  /\ SlotBound \in Nat \ {0} /\ TidBound \in Nat
  /\ NoName \notin Names /\ NoCaller \notin Callers
  /\ Callers \cap Int = {} /\ Names \cap Int = {}
  /\ Verbs \in [Callers -> SUBSET {"create", "join", "join_any", "detach",
                                "detach_any"}]
  /\ Options \subseteq 
       [alias : Names \cup {NoName}, detached : BOOLEAN, daemon : BOOLEAN]
  /\ Results \subseteq {"SUCCEEDED", "FAILED", "EXCEPTION", "EXITED"}
  /\ Faults \in [BOOLEAN -> SUBSET FaultNames]

VARIABLES
  info,     \* GD->thread.threads
  highest,  \* thread_highest_id
  aliases,  \* threadTable: the slot of a name
  live,     \* statistics.threads_created - threads_finished
  os,       \* the POSIX threads
  pc,       \* where each thread is
  at,       \* PL_thread_info_t *info: the slot it uses
  again,    \* it is in a free_thread_info() called by free_thread_info()
  call,     \* the predicate a caller is in, and
  opt,      \* the options it was called with
  want,     \* history: the POSIX thread that thread_join/2 found
  mine      \* the threads that a caller created and has yet to join

vars == <<info, highest, aliases, live, os, pc, at, again, call, opt, want,
          mine>>
slotVars == <<info, highest, aliases, live>>
callVars == <<call, opt, want, mine>>

Actors == Callers \cup Tids

Alive == {"CREATED", "RUNNING"}
Final == {"SUCCEEDED", "FAILED", "EXCEPTION", "EXITED", "NOMEM"}

Info == [
  status   : Alive \cup Final \cup {"UNUSED"},
  data     : BOOLEAN,                 \* thread_data # NULL
  detached : BOOLEAN,
  tid      : Tids \cup {NoTid},
  name     : Names \cup {NoName},
  goal     : BOOLEAN]

Unused == [status |-> "UNUSED", data |-> FALSE, detached |-> FALSE,
           tid |-> NoTid, name |-> NoName, goal |-> FALSE]

(* A POSIX thread; joiner is the thread that waits in pthread_join().      *)
OsThread == [state : {"none", "run", "zombie", "gone"}, detached : BOOLEAN,
             joiner : Callers \cup {NoCaller}, daemon : BOOLEAN]

CreatePCs == {"options", "alias", "id", "start"}
FreePCs == {"free", "free_data", "free_detached", "unalias", "clear"}
PCs == {"idle", "found", "join", "wait", "joined", "init", "run", "hooks"}
       \cup CreatePCs \cup FreePCs

NoOption == [alias |-> NoName, detached |-> FALSE, daemon |-> FALSE]

-----------------------------------------------------------------------------
Init ==
  /\ info = [s \in Slots |-> IF s # 1 THEN Unused
               ELSE [Unused EXCEPT !.status = "RUNNING", !.data = TRUE]]
  /\ highest = 1
  /\ aliases = [n \in Names |-> NoSlot]
  /\ live = 1
  /\ os = [i \in Tids |-> [state |-> "none", detached |-> FALSE,
                           joiner |-> NoCaller, daemon |-> FALSE]]
  /\ pc = [a \in Actors |-> "idle"]
  /\ at = [a \in Actors |-> 1]
  /\ again = [a \in Actors |-> FALSE]
  /\ call = [c \in Callers |-> "none"]
  /\ opt = [c \in Callers |-> NoOption]
  /\ want = [c \in Callers |-> NoTid]
  /\ mine = [c \in Callers |-> {}]

Goto(a, next) == pc' = [pc EXCEPT ![a] = next]

(* A caller is done with its call. *)
Return(c) ==
  /\ Goto(c, "idle")
  /\ at' = [at EXCEPT ![c] = 1]
  /\ call' = [call EXCEPT ![c] = "none"]
  /\ opt' = [opt EXCEPT ![c] = NoOption]
  /\ want' = [want EXCEPT ![c] = NoTid]

(* get_thread(): an integer or an alias leads to a slot that is in use.    *)
SlotOf(id) == IF id \in Names THEN aliases[id] ELSE id
Found(id) ==
  /\ SlotOf(id) # NoSlot /\ SlotOf(id) <= highest
  /\ info[SlotOf(id)].status # "UNUSED"

-----------------------------------------------------------------------------
(* thread_create/3 *)

(* Mutant: a slot whose thread ended is free. *)
FreeSlotsEnded == {s \in Slots : ~info[s].data}

FreeSlots == {s \in Slots : info[s].status = "UNUSED"}

(* alloc_thread() takes the first free slot. *)
Alloc(c, o) ==
  /\ pc[c] = "idle" /\ "create" \in Verbs[c] /\ o \in Options
  /\ FreeSlots # {}
  /\ Cardinality({d \in Callers : call[d] = "create"})
       < Cardinality({i \in Tids : os[i].state = "none"})
  /\ LET s == CHOOSE s \in FreeSlots : \A r \in FreeSlots : s <= r IN
       /\ info' = [info EXCEPT ![s] =
                     [@ EXCEPT !.status = "CREATED", !.data = TRUE]]
       /\ highest' = IF s > highest THEN s ELSE highest
       /\ at' = [at EXCEPT ![c] = s]
  /\ live' = live + 1
  /\ Goto(c, "options")
  /\ call' = [call EXCEPT ![c] = "create"]
  /\ opt' = [opt EXCEPT ![c] = o]
  /\ UNCHANGED <<aliases, os, again, want, mine>>

MayFail(c, fault) == fault \in Faults[opt[c].detached]

(* scan_options() stores the options, also when it fails later; a thread   *)
(* to inherit from that does not exist ends the call.                      *)
ScanOptions(c) ==
  /\ pc[c] = "options"
  /\ info' = [info EXCEPT ![at[c]].detached = opt[c].detached]
  /\ \/ Goto(c, "alias") /\ UNCHANGED <<at, call, opt, want>>
     \/ /\ MayFail(c, "options")
        /\ Goto(c, "free")
        /\ UNCHANGED <<at, call, opt, want>>
     \/ MayFail(c, "inherit") /\ Return(c)
  /\ UNCHANGED <<highest, aliases, live, os, again, mine>>

(* aliasThread(): names are unique. *)
TakeAlias(c) ==
  LET n == opt[c].alias IN
  /\ pc[c] = "alias"
  /\ \/ n = NoName /\ Goto(c, "id") /\ UNCHANGED <<info, aliases>>
     \/ /\ n # NoName /\ aliases[n] # NoSlot
        /\ Goto(c, "free")
        /\ UNCHANGED <<info, aliases>>
     \/ /\ n # NoName /\ aliases[n] = NoSlot
        /\ aliases' = [aliases EXCEPT ![n] = at[c]]
        /\ info' = [info EXCEPT ![at[c]].name = n]
        /\ Goto(c, "id")
  /\ UNCHANGED <<highest, live, os, at, again>> /\ UNCHANGED callVars

(* The identifier is unified, and the goal is recorded. *)
RecordGoal(c) ==
  /\ pc[c] = "id"
  /\ \/ info' = [info EXCEPT ![at[c]].goal = TRUE] /\ Goto(c, "start")
     \/ MayFail(c, "id") /\ Goto(c, "free") /\ UNCHANGED info
  /\ UNCHANGED <<highest, aliases, live, os, at, again>>
  /\ UNCHANGED callVars

(* pthread_create(), with L_THREAD held. *)
Start(c) ==
  LET s == at[c]
      id == IF info[s].name # NoName THEN info[s].name ELSE s
  IN
  /\ pc[c] = "start" /\ info[s].goal
  /\ \/ \E i \in Tids :
          /\ os[i].state = "none"
          /\ \A j \in 1..(i - 1) : os[j].state # "none"
          /\ os' = [os EXCEPT ![i] = [@ EXCEPT !.state = "run",
                       !.detached = info[s].detached, !.daemon = opt[c].daemon]]
          /\ info' = [info EXCEPT ![s].tid = i]
          /\ at' = [at EXCEPT ![i] = s, ![c] = 1]
          /\ pc' = [pc EXCEPT ![i] = "init", ![c] = "idle"]
          /\ call' = [call EXCEPT ![c] = "none"]
          /\ opt' = [opt EXCEPT ![c] = NoOption]
          /\ mine' = [mine EXCEPT ![c] =
               IF info[s].detached \/ opt[c].daemon THEN @ ELSE @ \cup {id}]
     \/ /\ MayFail(c, "pthread")
        /\ Goto(c, "free")
        /\ UNCHANGED <<info, os, at, call, opt, mine>>
  /\ UNCHANGED <<highest, aliases, live, again, want>>

CreateStep(c) ==
  ScanOptions(c) \/ TakeAlias(c) \/ RecordGoal(c) \/ Start(c)

-----------------------------------------------------------------------------
(* start_thread() and the end of a thread. *)

(* The POSIX thread is gone; a zombie remains if it is to be joined. *)
EndThread(i) ==
  /\ os' = [os EXCEPT ![i].state = IF os[i].detached THEN "gone" ELSE "zombie"]
  /\ Goto(i, "idle")
  /\ at' = [at EXCEPT ![i] = 1]

(* initialise_thread() finds memory for the stacks, or not. *)
Initialise(i) ==
  /\ pc[i] = "init" /\ info[at[i]].goal
  /\ \/ /\ info' = [info EXCEPT ![at[i]].status = "RUNNING"]
        /\ Goto(i, "run")
        /\ UNCHANGED <<os, at>>
     \/ /\ "memory" \in Faults[info[at[i]].detached]
        /\ info' = [info EXCEPT ![at[i]].status = "NOMEM"]
        /\ EndThread(i)
  /\ UNCHANGED <<highest, aliases, live, again>> /\ UNCHANGED callVars

(* The goal ends, or calls thread_exit/1; freePrologThread() does so for   *)
(* foreign code that called pthread_exit().                                *)
Finish(i) ==
  /\ pc[i] = "run"
  /\ \E r \in Results : info' = [info EXCEPT ![at[i]].status = r]
  /\ Goto(i, "hooks")
  /\ UNCHANGED <<highest, aliases, live, os, at, again>>
  /\ UNCHANGED callVars

(* run_thread_exit_hooks(), in the thread itself. *)
RunHooks(i) ==
  /\ pc[i] = "hooks"
  /\ Goto(i, "free_data")
  /\ UNCHANGED <<os, at, again>> /\ UNCHANGED slotVars /\ UNCHANGED callVars

ThreadStep(i) ==
  Initialise(i) \/ Finish(i) \/ RunHooks(i)

-----------------------------------------------------------------------------
(* free_thread_info(), for a caller that created or joined the thread, and *)
(* freePrologThread() of the thread itself or of such a caller.            *)

FreeInfo(c) ==
  /\ pc[c] \in {"free", "joined"}
  /\ Goto(c, IF info[at[c]].data THEN "free_data" ELSE "unalias")
  /\ UNCHANGED <<os, at, again>> /\ UNCHANGED slotVars /\ UNCHANGED callVars

FreeData(a) ==
  /\ pc[a] = "free_data"
  /\ info' = [info EXCEPT ![at[a]].data = FALSE]
  /\ live' = live - 1
  /\ Goto(a, "free_detached")
  /\ UNCHANGED <<highest, aliases, os, at, again>> /\ UNCHANGED callVars

(* Mutant: the slot of a thread is freed as it ends. *)
FreeDetachedAlways(a) ==
  /\ pc[a] = "free_detached"
  /\ Goto(a, "unalias")
  /\ UNCHANGED <<os, at, again>> /\ UNCHANGED slotVars /\ UNCHANGED callVars

(* Mutant: the slot of a thread is left to those who join it. *)
FreeDetachedNever(a) ==
  /\ pc[a] = "free_detached"
  /\ IF a \in Tids THEN EndThread(a)
     ELSE Goto(a, "unalias") /\ UNCHANGED <<os, at>>
  /\ UNCHANGED again /\ UNCHANGED slotVars /\ UNCHANGED callVars

(* info->detached is read without a lock.  A caller that frees a detached  *)
(* slot is in free_thread_info() already, and does the rest of it twice.   *)
(* A thread whose slot stays touches nothing shared from here to its end:  *)
(* a detach or a join in between leaves what it leaves after the end, so   *)
(* the end is part of this step.                                           *)
FreeDetached(a) ==
  LET detached == info[at[a]].detached IN
  /\ pc[a] = "free_detached"
  /\ IF a \in Tids /\ ~detached THEN EndThread(a)
     ELSE Goto(a, "unalias") /\ UNCHANGED <<os, at>>
  /\ again' = [again EXCEPT ![a] = a \in Callers /\ detached]
  /\ UNCHANGED slotVars /\ UNCHANGED callVars

(* Mutant: the name stays in the table. *)
UnaliasNothing(a) ==
  /\ pc[a] = "unalias"
  /\ Goto(a, "clear")
  /\ UNCHANGED <<os, at, again>> /\ UNCHANGED slotVars /\ UNCHANGED callVars

(* unaliasThread(info->name), whichever thread has the name. *)
Unalias(a) ==
  /\ pc[a] = "unalias"
  /\ aliases' = [n \in Names |->
                   IF n = info[at[a]].name THEN NoSlot ELSE aliases[n]]
  /\ Goto(a, "clear")
  /\ UNCHANGED <<info, highest, live, os, at, again>>
  /\ UNCHANGED callVars

(* The highest id once slot s is cleared; a slot that is clear has id 0. *)
Lowered(s) ==
  LET used == {r \in 2..(s - 1) : info[r].status # "UNUSED"} IN
  IF info[s].status = "UNUSED" \/ s # highest THEN highest
  ELSE IF used = {} THEN 1
  ELSE CHOOSE r \in used : \A q \in used : q <= r

Clear(a) ==
  /\ pc[a] = "clear"
  /\ highest' = Lowered(at[a])
  /\ info' = [info EXCEPT ![at[a]] = Unused]
  /\ again' = [again EXCEPT ![a] = FALSE]
  /\ \/ again[a] /\ Goto(a, "unalias") /\ UNCHANGED <<os, at, call, opt, want>>
     \/ ~again[a] /\ a \in Tids /\ EndThread(a) /\ UNCHANGED <<call, opt, want>>
     \/ ~again[a] /\ a \in Callers /\ Return(a) /\ UNCHANGED os
  /\ UNCHANGED <<aliases, live, mine>>

FreeStep(a) == FreeData(a) \/ FreeDetached(a) \/ Unalias(a) \/ Clear(a)

-----------------------------------------------------------------------------
(* thread_join/2 *)

(* get_thread_sync(), with L_THREAD held.                                  *)
FindToJoin(c, id) ==
  /\ pc[c] = "idle" /\ id # 1
  /\ \/ "join" \in Verbs[c] /\ id \in mine[c]
     \/ "join_any" \in Verbs[c]
  /\ mine' = [mine EXCEPT ![c] = @ \ {id}]
  /\ IF Found(id)
     THEN /\ Goto(c, "found")
          /\ at' = [at EXCEPT ![c] = SlotOf(id)]
          /\ call' = [call EXCEPT ![c] = "join"]
          /\ want' = [want EXCEPT ![c] = info[SlotOf(id)].tid]
     ELSE UNCHANGED <<pc, at, call, want>>
  /\ UNCHANGED <<os, again, opt>> /\ UNCHANGED slotVars

(* info->detached is read without the lock.                                *)
CheckJoin(c) ==
  /\ pc[c] = "found"
  /\ IF info[at[c]].detached THEN Return(c)
     ELSE Goto(c, "join") /\ UNCHANGED <<at, call, opt, want>>
  /\ UNCHANGED <<os, again, mine>> /\ UNCHANGED slotVars

(* pthread_join(info->tid) starts: it fails if the thread is detached, has *)
(* another joiner or is gone.                                              *)
Join(c) ==
  LET i == info[at[c]].tid IN
  /\ pc[c] = "join"
  /\ IF i # NoTid /\ ~os[i].detached /\ os[i].joiner = NoCaller
     THEN /\ os' = [os EXCEPT ![i].joiner = c]
          /\ Goto(c, "wait")
          /\ UNCHANGED <<at, call, opt, want>>
     ELSE Return(c) /\ UNCHANGED os
  /\ UNCHANGED <<again, mine>> /\ UNCHANGED slotVars

(* unify_thread_status() and free_thread_info() follow. *)
Joined(c) ==
  /\ pc[c] = "wait"
  /\ \E i \in Tids :
       /\ os[i].joiner = c /\ os[i].state = "zombie"
       /\ os' = [os EXCEPT ![i].state = "gone"]
  /\ Goto(c, "joined")
  /\ UNCHANGED <<at, again>> /\ UNCHANGED slotVars /\ UNCHANGED callVars

JoinStep(c) == CheckJoin(c) \/ Join(c) \/ Joined(c)

-----------------------------------------------------------------------------
(* thread_detach/1, with L_THREAD held; of a thread that was created.  A   *)
(* caller joins or detaches the threads that it created, once (join and    *)
(* detach), or whatever thread there is (join_any and detach_any).         *)

(* pthread_detach(i) succeeds, also when i ended; a thread that another    *)
(* waits for in pthread_join() stays as it is.                             *)
SystemDetach(i) ==
  os' = IF os[i].joiner # NoCaller THEN os
        ELSE [os EXCEPT ![i] = [os[i] EXCEPT !.detached = TRUE,
                 !.state = IF os[i].state = "zombie" THEN "gone"
                                                     ELSE os[i].state]]

(* By itself, from its goal or its exit hooks. *)
DetachSelf(i) ==
  /\ os[i].daemon /\ pc[i] \in {"run", "hooks"} /\ ~info[at[i]].detached
  /\ SystemDetach(i)
  /\ info' = [info EXCEPT ![at[i]].detached = TRUE]
  /\ UNCHANGED <<highest, aliases, live, pc, at, again>>
  /\ UNCHANGED callVars

Detach(c, id) ==
  LET s == SlotOf(id) IN
  /\ pc[c] = "idle" /\ id # 1
  /\ \/ "detach" \in Verbs[c] /\ id \in mine[c]
     \/ "detach_any" \in Verbs[c]
  /\ mine' = [mine EXCEPT ![c] = @ \ {id}]
  /\ Found(id) /\ info[s].tid # NoTid /\ ~info[s].detached
  /\ \/ /\ os[info[s].tid].state # "gone"
        /\ SystemDetach(info[s].tid)
        /\ info' = [info EXCEPT ![s].detached = TRUE]
        /\ UNCHANGED <<pc, at, call>>
     \/ /\ os[info[s].tid].state = "gone"         \* ESRCH
        /\ at' = [at EXCEPT ![c] = s]
        /\ Goto(c, "free")
        /\ call' = [call EXCEPT ![c] = "detach"]
        /\ UNCHANGED <<os, info>>
  /\ UNCHANGED <<highest, aliases, live, again, opt, want>>

-----------------------------------------------------------------------------
Ids == Names \cup (Slots \ {1})

CallerStep(c) == CreateStep(c) \/ FreeInfo(c) \/ FreeStep(c) \/ JoinStep(c)

Next ==
  \/ \E c \in Callers :
       \/ \E o \in Options : Alloc(c, o)
       \/ \E id \in Ids : FindToJoin(c, id) \/ Detach(c, id)
       \/ CallerStep(c)
  \/ \E i \in Tids : ThreadStep(i) \/ FreeStep(i) \/ DetachSelf(i)

Spec == Init /\ [][Next]_vars

(* Threads run, and their goals end. *)
Fairness ==
  /\ \A c \in Callers : WF_vars(CallerStep(c))
  /\ \A i \in Tids : WF_vars(ThreadStep(i) \/ FreeStep(i))

FairSpec == Spec /\ Fairness

-----------------------------------------------------------------------------
(* The type of every variable; at least one thread, the main thread, has   *)
(* been created and not finished: the assertion in freePrologThread().     *)
TypeOK ==
  /\ info \in [Slots -> Info]
  /\ highest \in Slots
  /\ aliases \in [Names -> Slots \cup {NoSlot}]
  /\ live \in Nat \ {0}
  /\ os \in [Tids -> OsThread]
  /\ pc \in [Actors -> PCs]
  /\ at \in [Actors -> Slots]
  /\ again \in [Actors -> BOOLEAN]
  /\ call \in [Callers -> {"none", "create", "join", "detach"}]
  /\ opt \in [Callers -> [alias : Names \cup {NoName}, detached : BOOLEAN,
                          daemon : BOOLEAN]]
  /\ want \in [Callers -> Tids \cup {NoTid}]
  /\ mine \in [Callers -> SUBSET Ids]

(* c is in thread_create/3, and has a slot that is not started yet. *)
Creating(c) ==
  pc[c] \in CreatePCs \/ (pc[c] \in FreePCs /\ call[c] = "create")

(* A slot is not given to a thread while another thread needs it: each     *)
(* thread that runs finds its own record in its slot, up to its last look  *)
(* at info->detached, and a slot under creation belongs to one creator.    *)
SlotOwned ==
  /\ \A i \in Tids : pc[i] # "idle" => info[at[i]].tid = i
  /\ \A c \in Callers : Creating(c) =>
       /\ info[at[c]].status = "CREATED" /\ info[at[c]].tid = NoTid
       /\ \A d \in Callers \ {c} : Creating(d) => at[d] # at[c]

(* thread_join/2 returns the status of the thread that it was asked to     *)
(* wait for, and that thread has ended.                                    *)
JoinsItsOwn ==
  \A c \in Callers : pc[c] = "joined" =>
    info[at[c]].tid = want[c] /\ info[at[c]].status \in Final

(* An alias leads to the thread that has it, or to none. *)
AliasTrue ==
  \A n \in Names : aliases[n] # NoSlot => info[aliases[n]].name = n

(* get_thread() refuses identifiers above thread_highest_id: it is never   *)
(* below the identifier of a thread.                                       *)
HighestCovers ==
  \A s \in Slots : info[s].status # "UNUSED" => s <= highest

(* The statistics by which enableThreads() decides whether the caller is   *)
(* alone count the threads that have data.                                 *)
LiveCounted == live = Cardinality({s \in Slots : info[s].data})

(* assert(info->goal) in pl_thread_create() and in start_thread(). *)
GoalAssertion ==
  /\ \A c \in Callers : pc[c] = "start" => info[at[c]].goal
  /\ \A i \in Tids : pc[i] = "init" => info[at[i]].goal

(* A thread that is created detached, or is detached before it ended,      *)
(* gives its slot back when it ends.                                       *)
RunningDetachedReclaimed ==
  \A i \in Tids :
    (pc[i] # "idle" /\ info[at[i]].detached)
      ~> \A s \in Slots : info[s].tid # i

(* "If true, the system will reclaim all associated resources              *)
(* automatically after the thread finishes": also the slot.                *)
DetachedReclaimed ==
  \A i \in Tids :
    (\E s \in Slots : info[s].tid = i /\ info[s].detached)
      ~> \A s \in Slots : info[s].tid # i
=============================================================================
