------------------------ MODULE PrologThread_proofs ------------------------
(***************************************************************************)
(* Proofs about PrologThread, for any callers, threads, slots, names and   *)
(* results: callers join or detach the threads that they created, once,    *)
(* and no thread_create/3 fails after it stored detached(true).            *)
(***************************************************************************)
EXTENDS PrologThread, WellFoundedInduction, TLAPS

(* Callers join and detach the threads that they created, once.            *)
Disciplined ==
  \A c \in Callers : Verbs[c] \cap {"join_any", "detach_any"} = {}

(* A thread_create/3 that was given detached(true) does not fail after it  *)
(* stored it: it would free the slot twice.                                *)
DetachedStarts ==
  /\ \A o \in Options : o.detached => o.alias = NoName
  /\ Faults[TRUE] \cap {"options", "id", "pthread"} = {}

-----------------------------------------------------------------------------
(* The types, but for the counter of the statistics. *)
Typed ==
  /\ info \in [Slots -> Info]
  /\ aliases \in [Names -> Slots \cup {NoSlot}]
  /\ os \in [Tids -> OsThread]
  /\ pc \in [Actors -> PCs]
  /\ at \in [Actors -> Slots]
  /\ again \in [Actors -> BOOLEAN]
  /\ call \in [Callers -> {"none", "create", "join", "detach"}]
  /\ opt \in [Callers -> Options \cup {NoOption}]
  /\ want \in [Callers -> Tids \cup {NoTid}]
  /\ mine \in [Callers -> SUBSET (Names \cup Slots)]

(* A slot that is not in use is blank, and a POSIX thread has one slot.    *)
SlotRecords ==
  /\ \A s \in Slots : info[s].status = "UNUSED" =>
       info[s].tid = NoTid /\ info[s].name = NoName /\ ~info[s].detached
  /\ \A s \in Slots : info[s].tid # NoTid => os[info[s].tid].state # "none"
  /\ \A r, s \in Slots :
       info[r].tid = info[s].tid /\ info[s].tid # NoTid => r = s

(* A POSIX thread that runs uses its slot, and clears it only if it is     *)
(* detached; the slot of one that does not run tells how it ended.         *)
ThreadAt(i) ==
  /\ pc[i] # "idle" <=> os[i].state = "run"
  /\ pc[i] # "idle" => info[at[i]].tid = i
  /\ pc[i] \in {"unalias", "clear"} => info[at[i]].detached
  /\ pc[i] \notin {"init", "run"} =>
       \A s \in Slots : info[s].tid = i => info[s].status \in Final
ThreadSlots == \A i \in Tids : ThreadAt(i)

(* The predicate that a caller is in. *)
CallOf(c) ==
  /\ pc[c] \in CreatePCs => call[c] = "create"
  /\ pc[c] \in {"found", "join", "wait", "joined"} => call[c] = "join"
  /\ pc[c] \in FreePCs => call[c] \in {"create", "join"}
  /\ pc[c] \notin {"init", "run", "hooks"}
CallAt == \A c \in Callers : CallOf(c)

(* The slot of a thread that is under creation. *)
CreatorAt(c) ==
  Creating(c) =>
    /\ info[at[c]].status = "CREATED" /\ info[at[c]].tid = NoTid
    /\ pc[c] \in {"options", "alias"} => info[at[c]].name = NoName
    /\ pc[c] # "options" => info[at[c]].detached = opt[c].detached
    /\ opt[c].detached => pc[c] \in CreatePCs
CreatorSlots == \A c \in Callers : CreatorAt(c)

(* Callers that are in a call use different slots. *)
Exclusive ==
  \A c, d \in Callers :
    pc[c] # "idle" /\ pc[d] # "idle" /\ at[c] = at[d] => c = d

(* The slot of a thread that is being joined keeps that thread, which does *)
(* not detach itself, and has ended when its slot is freed.                *)
JoinerAt(c) ==
  pc[c] # "idle" /\ call[c] = "join" =>
    /\ want[c] # NoTid /\ info[at[c]].tid = want[c]
    /\ ~info[at[c]].detached /\ ~os[want[c]].daemon
    /\ pc[c] \in {"joined"} \cup FreePCs => pc[want[c]] = "idle"
JoinerSlots == \A c \in Callers : JoinerAt(c)

(* pthread_join() returns to the caller that waits in it. *)
WaitsFor ==
  \A i \in Tids : \A c \in Callers :
    os[i].joiner = c /\ os[i].state # "gone" => pc[c] = "wait" /\ want[c] = i

(* The identifier of a thread: its alias, or the number of its slot. *)
IdOf(s) == IF info[s].name = NoName THEN s ELSE info[s].name

(* A thread that its creator has yet to join is there.                     *)
Awaits(id) ==
  LET s == SlotOf(id)
      i == info[s].tid
  IN /\ s # NoSlot /\ i # NoTid /\ id = IdOf(s)
     /\ ~info[s].detached
     /\ ~os[i].daemon /\ ~os[i].detached
     /\ os[i].joiner = NoCaller /\ os[i].state # "gone"
     /\ \A d \in Callers : pc[d] # "idle" => at[d] # s

(* What a caller created and has yet to join is there, for nobody else.    *)
MineLive ==
  \A c \in Callers : \A id \in mine[c] :
    /\ Awaits(id)
    /\ \A d \in Callers : id \in mine[d] => d = c

(* A name that a slot has leads to it, until free_thread_info() removes it *)
(* from the table, just before it clears the slot.                         *)
AliasSlots ==
  /\ \A s \in Slots : info[s].name # NoName =>
       \/ aliases[info[s].name] = s
       \/ \E a \in Actors : pc[a] = "clear" /\ at[a] = s
  /\ \A a \in Actors : pc[a] = "clear" => \A n \in Names : aliases[n] # at[a]

(* No slot is freed twice. *)
FreedOnce == \A a \in Actors : ~again[a]

LifeInv ==
  /\ Typed /\ SlotRecords /\ ThreadSlots /\ CallAt /\ CreatorSlots /\ Exclusive
  /\ JoinerSlots /\ WaitsFor /\ MineLive /\ AliasTrue /\ AliasSlots /\ FreedOnce

-----------------------------------------------------------------------------
LEMMA ActorKinds ==
  /\ Callers \subseteq Actors /\ Tids \subseteq Actors /\ Callers \cap Tids = {}
  /\ NoTid \notin Tids /\ NoSlot \notin Slots /\ NoCaller \notin Callers
  /\ NoName \notin Names /\ Names \cap Slots = {} /\ 1 \in Slots
  BY ThreadAssumption DEF Actors, Tids, NoTid, Slots, NoSlot

(* alloc_thread() finds the first free slot. *)
LEMMA FirstSlot ==
  ASSUME NEW S \in SUBSET Slots, S # {}
  PROVE  (CHOOSE s \in S : \A r \in S : s <= r) \in S
  <1> DEFINE R == OpToRel(<, Nat)
  <1>1. S \subseteq Nat
    BY DEF Slots
  <1>2. IsWellFoundedOn(R, Nat)
    BY NatLessThanWellFounded
  <1>3. \A r, s \in Nat : r < s => <<r, s>> \in R
    BY DEF OpToRel
  <1> HIDE DEF R
  <1>4. \E s \in S : \A r \in S : ~(<<r, s>> \in R)
    BY <1>1, <1>2, WFMin
  <1>5. \E s \in S : \A r \in S : s <= r
    <2>1. PICK s \in S : \A r \in S : ~(<<r, s>> \in R)
      BY <1>4
    <2>2. \A r \in S : ~(r < s)
      BY <1>1, <1>3, <2>1
    <2>3. \A r \in S : s <= r
      BY <1>1, <2>2
    <2> QED
      BY <2>3
  <1> QED
    BY <1>5

(* Nobody but a uses the slot of a, or is about to join the thread in it.  *)
Private(a) ==
  /\ info[at[a]].status # "UNUSED"
  /\ \A b \in Actors \ {a} : pc[b] # "idle" => at[b] # at[a]
  /\ \A d \in Callers : \A id \in mine[d] : SlotOf(id) # at[a]

LEMMA CallerAlone ==
  ASSUME LifeInv, NEW c \in Callers, pc[c] # "idle"
  PROVE  /\ info[at[c]].status # "UNUSED"
         /\ \A d \in Callers \ {c} : pc[d] # "idle" => at[d] # at[c]
         /\ \A d \in Callers : \A id \in mine[d] : SlotOf(id) # at[c]
         /\ \A i \in Tids : pc[i] # "idle" /\ at[i] = at[c] =>
              pc[c] \in {"found", "join", "wait"} /\ info[at[c]].tid = i
  <1> USE ActorKinds
  <1>1. at[c] \in Slots /\ pc[c] \in PCs
    BY DEF LifeInv, Typed
  <1>2. Creating(c) \/ (call[c] = "join" /\ info[at[c]].tid = want[c] /\ want[c] # NoTid)
    BY <1>1 DEF LifeInv, CallAt, CallOf, JoinerSlots, JoinerAt, Creating, PCs, CreatePCs, FreePCs
  <1>3. info[at[c]].status # "UNUSED"
    BY <1>1, <1>2 DEF LifeInv, CreatorSlots, CreatorAt, SlotRecords
  <1>4. \A d \in Callers \ {c} : pc[d] # "idle" => at[d] # at[c]
    BY DEF LifeInv, Exclusive
  <1>5. \A d \in Callers : \A id \in mine[d] : SlotOf(id) # at[c]
    BY DEF LifeInv, MineLive, Awaits
  <1>6. ASSUME NEW i \in Tids, pc[i] # "idle", at[i] = at[c]
        PROVE  pc[c] \in {"found", "join", "wait"} /\ info[at[c]].tid = i
    <2>1. info[at[c]].tid = i
      BY <1>6 DEF LifeInv, ThreadSlots, ThreadAt
    <2>2. ~Creating(c)
      BY <2>1 DEF LifeInv, CreatorSlots, CreatorAt
    <2>3. pc[c] \notin {"joined"} \cup FreePCs
      BY <1>2, <1>6, <2>1, <2>2 DEF LifeInv, JoinerSlots, JoinerAt
    <2> QED
      BY <1>1, <2>1, <2>2, <2>3 DEF LifeInv, CallAt, CallOf, PCs, Creating
  <1> QED
    BY <1>3, <1>4, <1>5, <1>6

(* A name that is about to be removed from the table leads to its slot. *)
LEMMA NameLeads ==
  ASSUME LifeInv, NEW a \in Actors, pc[a] = "unalias", Private(a),
         info[at[a]].name # NoName
  PROVE  aliases[info[at[a]].name] = at[a]
  <1>1. at[a] \in Slots
    BY DEF LifeInv, Typed
  <1>2. ~ \E b \in Actors : pc[b] = "clear" /\ at[b] = at[a]
    BY DEF Private
  <1> QED
    BY <1>1, <1>2 DEF LifeInv, AliasSlots

LEMMA CallerPrivate ==
  ASSUME LifeInv, NEW c \in Callers, pc[c] \in CreatePCs \cup FreePCs \cup {"joined"}
  PROVE  Private(c)
  <1>1. pc[c] # "idle" /\ pc[c] \notin {"found", "join", "wait"}
    BY DEF CreatePCs, FreePCs
  <1> QED
    BY <1>1, CallerAlone DEF Private, Actors

(* Who may look at the slot of thread i while it runs. *)
Running(i) ==
  /\ info[at[i]].status # "UNUSED" /\ info[at[i]].tid = i
  /\ \A s \in Slots : info[s].tid = i => s = at[i]
  /\ \A j \in Tids \ {i} : pc[j] # "idle" => at[j] # at[i]
  /\ \A d \in Callers : pc[d] # "idle" /\ at[d] = at[i] =>
       /\ call[d] = "join" /\ want[d] = i /\ pc[d] \in {"found", "join", "wait"}
       /\ ~info[at[i]].detached /\ ~os[i].daemon
  /\ \A d \in Callers : \A id \in mine[d] : SlotOf(id) = at[i] =>
       ~info[at[i]].detached /\ ~os[i].daemon

LEMMA ThreadAlone ==
  ASSUME LifeInv, NEW i \in Tids, pc[i] # "idle"
  PROVE  Running(i)
  <1> USE ActorKinds
  <1>1. at[i] \in Slots
    BY DEF LifeInv, Typed
  <1>2. info[at[i]].tid = i
    BY DEF LifeInv, ThreadSlots, ThreadAt
  <1>3. info[at[i]].status # "UNUSED"
    BY <1>1, <1>2 DEF LifeInv, SlotRecords
  <1>4. \A j \in Tids \ {i} : pc[j] # "idle" => at[j] # at[i]
    BY <1>2 DEF LifeInv, ThreadSlots, ThreadAt
  <1>5. ASSUME NEW d \in Callers, pc[d] # "idle", at[d] = at[i]
        PROVE  /\ call[d] = "join" /\ want[d] = i /\ pc[d] \in {"found", "join", "wait"}
               /\ ~info[at[i]].detached /\ ~os[i].daemon
    <2>1. pc[d] \in {"found", "join", "wait"}
      BY <1>5, CallerAlone
    <2>2. call[d] = "join"
      BY <2>1 DEF LifeInv, CallAt, CallOf
    <2> QED
      BY <1>2, <1>5, <2>1, <2>2 DEF LifeInv, JoinerSlots, JoinerAt
  <1>6. \A d \in Callers : \A id \in mine[d] : SlotOf(id) = at[i] =>
          ~info[at[i]].detached /\ ~os[i].daemon
    BY <1>2 DEF LifeInv, MineLive, Awaits
  <1>7. \A s \in Slots : info[s].tid = i => s = at[i]
    BY <1>1, <1>2 DEF LifeInv, SlotRecords
  <1> QED
    BY <1>2, <1>3, <1>4, <1>5, <1>6, <1>7 DEF Running

(* A slot that is being freed is private. *)
LEMMA FreePrivate ==
  ASSUME LifeInv, NEW a \in Actors, pc[a] \in {"unalias", "clear"}
  PROVE  Private(a)
  <1>1. CASE a \in Callers
    BY <1>1, CallerPrivate DEF FreePCs
  <1>2. CASE a \in Tids
    <2>1. info[at[a]].detached
      BY <1>2 DEF LifeInv, ThreadSlots, ThreadAt
    <2> QED
      BY <1>2, <2>1, ThreadAlone DEF Running, Private, Actors
  <1> QED
    BY <1>1, <1>2 DEF Actors

-----------------------------------------------------------------------------
(* Only actor a moves; only slot s changes. *)
Others(a) ==
  /\ \A b \in Actors \ {a} : pc'[b] = pc[b] /\ at'[b] = at[b]
  /\ \A d \in Callers \ {a} :
       /\ call'[d] = call[d] /\ opt'[d] = opt[d] /\ want'[d] = want[d]
       /\ mine'[d] = mine[d]
Elsewhere(s) == \A r \in Slots \ {s} : info'[r] = info[r]

(* The POSIX thread i ended, or was detached. *)
Ended(i) ==
  /\ pc'[i] = "idle"
  /\ \A j \in Tids :
       /\ os'[j].joiner = os[j].joiner /\ os'[j].daemon = os[j].daemon
       /\ os'[j].detached = os[j].detached
       /\ j # i => os'[j].state = os[j].state
  /\ os'[i].state = IF os[i].detached THEN "gone" ELSE "zombie"
DetachedAt(i) ==
  \A j \in Tids :
    /\ os'[j].joiner = os[j].joiner /\ os'[j].daemon = os[j].daemon
    /\ j # i => os'[j] = os[j]
    /\ os'[j].state # os[j].state =>
         os[j].state = "zombie" /\ os'[j].state = "gone"

(* Names and the table of aliases stay, and no slot is cleared. *)
LEMMA AliasesKept ==
  ASSUME LifeInv, aliases' = aliases,
         \A s \in Slots : info'[s].name = info[s].name,
         \A a \in Actors : /\ pc'[a] = "clear" <=> pc[a] = "clear"
                           /\ pc[a] = "clear" => at'[a] = at[a]
  PROVE  AliasTrue' /\ AliasSlots'
  <1>1. aliases \in [Names -> Slots \cup {NoSlot}]
    BY DEF LifeInv, Typed
  <1>2. AliasTrue'
    BY <1>1 DEF LifeInv, AliasTrue
  <1>3. AliasSlots'
    <2>1. ASSUME NEW s \in Slots, info'[s].name # NoName
          PROVE  \/ aliases'[info'[s].name] = s
                 \/ \E a \in Actors : pc'[a] = "clear" /\ at'[a] = s
      BY <2>1 DEF LifeInv, AliasSlots
    <2>2. ASSUME NEW a \in Actors, pc'[a] = "clear", NEW n \in Names
          PROVE  aliases'[n] # at'[a]
      BY <2>2 DEF LifeInv, AliasSlots
    <2> QED
      BY <2>1, <2>2 DEF AliasSlots
  <1> QED
    BY <1>2, <1>3

(* A thread that its creator has yet to join. *)
Unjoined(id) ==
  LET s == SlotOf(id)
      i == info[s].tid
  IN /\ s \in Slots /\ i \in Tids /\ info[s] \in Info
     /\ ~info[s].detached /\ info[s].status # "UNUSED"
     /\ os[i].state # "gone" /\ os[i].joiner = NoCaller
     /\ ~os[i].daemon /\ ~os[i].detached
     /\ \A r \in Slots : info[r].tid = i => r = s
     /\ \A d \in Callers : pc[d] # "idle" => at[d] # s

LEMMA MineFacts ==
  ASSUME LifeInv, NEW c \in Callers, NEW id \in mine[c]
  PROVE  Unjoined(id)
  <1> USE ActorKinds
  <1> DEFINE s == SlotOf(id)
  <1>1. /\ s # NoSlot /\ info[s].tid # NoTid /\ ~info[s].detached
        /\ os[info[s].tid].state # "gone" /\ os[info[s].tid].joiner = NoCaller
        /\ ~os[info[s].tid].daemon /\ ~os[info[s].tid].detached
        /\ \A d \in Callers : pc[d] # "idle" => at[d] # s
    BY DEF LifeInv, MineLive, Awaits
  <1>2. id \in Names \cup Slots
    BY DEF LifeInv, Typed
  <1>3. s \in Slots
    <2>1. CASE id \in Names
      BY <1>1, <2>1 DEF LifeInv, Typed, SlotOf
    <2>2. CASE id \notin Names
      BY <1>2, <2>2 DEF SlotOf
    <2> QED
      BY <2>1, <2>2
  <1> HIDE DEF s
  <1>4. info[s] \in Info /\ info[s].tid \in Tids
    BY <1>1, <1>3 DEF LifeInv, Typed, Info
  <1>5. info[s].status # "UNUSED"
    BY <1>1, <1>3 DEF LifeInv, SlotRecords
  <1>6. \A r \in Slots : info[r].tid = info[s].tid => r = s
    BY <1>1, <1>3 DEF LifeInv, SlotRecords
  <1> QED
    BY <1>1, <1>3, <1>4, <1>5, <1>6 DEF s, Unjoined

(* No two threads that are to be joined have the same slot. *)
LEMMA MineDistinct ==
  ASSUME LifeInv, NEW c \in Callers, NEW d \in Callers,
         NEW id \in mine[c], NEW e \in mine[d], SlotOf(id) = SlotOf(e)
  PROVE  id = e /\ c = d
  <1>1. id = IdOf(SlotOf(id)) /\ e = IdOf(SlotOf(e))
    BY DEF LifeInv, MineLive, Awaits
  <1>2. id = e
    BY <1>1
  <1> QED
    BY <1>2 DEF LifeInv, MineLive, Awaits

(* What the callers have yet to join stays as it is. *)
MineSame(id) ==
  LET s == SlotOf(id)
      i == info[s].tid
  IN /\ info'[s].tid = i /\ info'[s].name = info[s].name /\ ~info'[s].detached
     /\ os'[i].daemon = os[i].daemon /\ os'[i].joiner = os[i].joiner
     /\ os'[i].detached = os[i].detached /\ os'[i].state # "gone"
     /\ \A d \in Callers : pc'[d] # "idle" => at'[d] # s
     /\ id \in Names => aliases'[id] = aliases[id]

LEMMA AwaitsKept ==
  ASSUME LifeInv, NEW c \in Callers, NEW id \in mine[c], MineSame(id)
  PROVE  Awaits(id)'
  <1> DEFINE s == SlotOf(id)
             i == info[s].tid
  <1>1. SlotOf(id)' = s
    BY DEF SlotOf, MineSame
  <1>2. /\ info'[s].tid = i /\ info'[s].name = info[s].name
        /\ ~info'[s].detached
        /\ os'[i].daemon = os[i].daemon /\ os'[i].joiner = os[i].joiner
        /\ os'[i].detached = os[i].detached /\ os'[i].state # "gone"
        /\ \A d \in Callers : pc'[d] # "idle" => at'[d] # s
    BY DEF MineSame
  <1>3. /\ s # NoSlot /\ i # NoTid /\ id = IdOf(s)
        /\ ~os[i].daemon /\ ~os[i].detached
        /\ os[i].joiner = NoCaller
    BY DEF LifeInv, MineLive, Awaits
  <1>4. id = IF info'[s].name = NoName THEN s ELSE info'[s].name
    BY <1>2, <1>3 DEF IdOf
  <1> HIDE DEF s, i
  <1> QED
    BY <1>1, <1>2, <1>3, <1>4 DEF IdOf, Awaits

LEMMA MineKept ==
  ASSUME LifeInv,
         \A c \in Callers : mine'[c] \subseteq mine[c],
         \A c \in Callers : \A id \in mine'[c] : MineSame(id)
  PROVE  MineLive'
  <1> SUFFICES ASSUME NEW c \in Callers, NEW id \in mine'[c]
               PROVE  Awaits(id)' /\ \A d \in Callers : id \in mine'[d] => d = c
    BY DEF MineLive
  <1>1. Awaits(id)'
    BY AwaitsKept
  <1>2. \A d \in Callers : id \in mine'[d] => d = c
    BY DEF LifeInv, MineLive
  <1> QED
    BY <1>1, <1>2

(* Records of which a field is assigned keep their type. *)
LEMMA InfoFields ==
  ASSUME NEW m \in Info
  PROVE  /\ \A s \in Alive \cup Final : \A b \in BOOLEAN :
              [m EXCEPT !.status = s, !.data = b] \in Info
         /\ \A s \in Alive \cup Final : [m EXCEPT !.status = s] \in Info
         /\ \A b \in BOOLEAN : /\ [m EXCEPT !.data = b] \in Info
                              /\ [m EXCEPT !.detached = b] \in Info
                              /\ [m EXCEPT !.goal = b] \in Info
         /\ \A i \in Tids \cup {NoTid} : [m EXCEPT !.tid = i] \in Info
         /\ \A n \in Names \cup {NoName} : [m EXCEPT !.name = n] \in Info
         /\ Unused \in Info
  BY DEF Info, Unused

LEMMA OsFields ==
  ASSUME NEW m \in OsThread
  PROVE  /\ \A s \in {"none", "run", "zombie", "gone"} :
              [m EXCEPT !.state = s] \in OsThread
         /\ \A b, d \in BOOLEAN :
              [m EXCEPT !.state = "run", !.detached = b, !.daemon = d] \in OsThread
         /\ \A s \in {"none", "run", "zombie", "gone"} :
              [m EXCEPT !.detached = TRUE, !.state = s] \in OsThread
         /\ \A c \in Callers : [m EXCEPT !.joiner = c] \in OsThread
  BY DEF OsThread

LEMMA OptFields ==
  ASSUME Typed, NEW c \in Callers
  PROVE  /\ opt[c].detached \in BOOLEAN /\ opt[c].daemon \in BOOLEAN
         /\ opt[c].alias \in Names \cup {NoName}
  <1> DEFINE R == [alias : Names \cup {NoName}, detached : BOOLEAN,
                   daemon : BOOLEAN]
  <1>1. opt[c] \in Options \cup {NoOption}
    BY DEF Typed
  <1>2. NoOption \in R
    BY DEF NoOption
  <1>3. Options \subseteq R
    BY ThreadAssumption
  <1>4. opt[c] \in R
    BY <1>1, <1>2, <1>3
  <1> QED
    BY <1>4

(* A slot that is in use keeps its thread. *)
LEMMA SlotsKept ==
  ASSUME LifeInv, NEW s \in Slots, Elsewhere(s), info'[s].tid = info[s].tid,
         info'[s].status = "UNUSED" =>
           /\ info[s].status = "UNUSED" /\ info'[s].name = info[s].name
           /\ info'[s].detached = info[s].detached,
         \A i \in Tids : os[i].state # "none" => os'[i].state # "none"
  PROVE  SlotRecords'
  <1>1. \A r \in Slots : /\ info'[r].tid = info[r].tid
                         /\ info[r].tid \in Tids \cup {NoTid}
    BY DEF Elsewhere, LifeInv, Typed, Info
  <1>2. \A r \in Slots \ {s} : info'[r] = info[r]
    BY DEF Elsewhere
  <1>3. \A r \in Slots : info'[r].status = "UNUSED" =>
          info'[r].tid = NoTid /\ info'[r].name = NoName /\ ~info'[r].detached
    BY <1>1, <1>2 DEF LifeInv, SlotRecords
  <1>4. \A r \in Slots : info'[r].tid # NoTid => os'[info'[r].tid].state # "none"
    BY <1>1 DEF LifeInv, SlotRecords
  <1>5. \A q, r \in Slots :
          info'[q].tid = info'[r].tid /\ info'[r].tid # NoTid => q = r
    BY <1>1 DEF LifeInv, SlotRecords
  <1> QED
    BY <1>3, <1>4, <1>5 DEF SlotRecords

LEMMA EndThreadEffect ==
  ASSUME Typed, NEW i \in Tids, EndThread(i)
  PROVE  Ended(i) /\ os' \in [Tids -> OsThread]
  <1> DEFINE m == [os[i] EXCEPT !.state = IF os[i].detached THEN "gone"
                                                         ELSE "zombie"]
  <1>1. os[i] \in OsThread /\ m \in OsThread
    BY OsFields DEF Typed
  <1>2. os' = [os EXCEPT ![i] = m]
    BY DEF EndThread
  <1>3. pc'[i] = "idle"
    BY ActorKinds DEF EndThread, Goto, Typed
  <1>4. \A j \in Tids \ {i} : os'[j] = os[j]
    BY <1>2 DEF Typed
  <1>5. os'[i] = m
    BY <1>2 DEF Typed
  <1>6. /\ m.joiner = os[i].joiner /\ m.daemon = os[i].daemon
        /\ m.detached = os[i].detached
        /\ m.state = IF os[i].detached THEN "gone" ELSE "zombie"
    BY <1>1 DEF OsThread
  <1> HIDE DEF m
  <1>7. os' \in [Tids -> OsThread]
    BY <1>1, <1>2 DEF Typed
  <1> QED
    BY <1>3, <1>4, <1>5, <1>6, <1>7 DEF Ended

LEMMA DetachEffect ==
  ASSUME Typed, NEW i \in Tids, SystemDetach(i)
  PROVE  DetachedAt(i) /\ os' \in [Tids -> OsThread]
  <1> DEFINE st == IF os[i].state = "zombie" THEN "gone" ELSE os[i].state
             m == [os[i] EXCEPT !.detached = TRUE, !.state = st]
  <1>1. os[i] \in OsThread /\ st \in {"none", "run", "zombie", "gone"}
    BY DEF Typed, OsThread
  <1>2. m \in OsThread
    BY <1>1, OsFields
  <1>3. CASE os' = os
    BY <1>3 DEF Typed, DetachedAt
  <1>4. CASE os' = [os EXCEPT ![i] = m]
    <2>1. \A j \in Tids \ {i} : os'[j] = os[j]
      BY <1>4 DEF Typed
    <2>2. os'[i] = m
      BY <1>4 DEF Typed
    <2>3. m.joiner = os[i].joiner /\ m.daemon = os[i].daemon /\ m.state = st
      BY <1>1 DEF OsThread
    <2>4. os' \in [Tids -> OsThread]
      BY <1>2, <1>4 DEF Typed
    <2> HIDE DEF m
    <2> QED
      BY <2>1, <2>2, <2>3, <2>4 DEF DetachedAt
  <1>5. os' = os \/ os' = [os EXCEPT ![i] = m]
    BY <1>1 DEF SystemDetach, OsThread
  <1> QED
    BY <1>3, <1>4, <1>5


-----------------------------------------------------------------------------
(* pthread_create() starts the thread i, or fails. *)
Started(c, i) ==
  LET s == at[c] IN
  /\ pc[c] = "start" /\ os[i].state = "none"
  /\ os' = [os EXCEPT ![i] = [os[i] EXCEPT !.state = "run",
               !.detached = info[s].detached, !.daemon = opt[c].daemon]]
  /\ info' = [info EXCEPT ![s] = [info[s] EXCEPT !.tid = i]]
  /\ at' = [at EXCEPT ![i] = s, ![c] = 1]
  /\ pc' = [pc EXCEPT ![i] = "init", ![c] = "idle"]
  /\ call' = [call EXCEPT ![c] = "none"]
  /\ opt' = [opt EXCEPT ![c] = NoOption]
  /\ mine' = [mine EXCEPT ![c] =
       IF info[s].detached \/ opt[c].daemon THEN mine[c]
       ELSE mine[c] \cup {IdOf(s)}]
  /\ UNCHANGED <<aliases, again, want>>
StartFails(c) ==
  /\ pc[c] = "start" /\ MayFail(c, "pthread") /\ Goto(c, "free")
  /\ UNCHANGED <<info, os, at, call, opt, want, mine, aliases, again>>

LEMMA StartOutcomes ==
  ASSUME NEW c \in Callers, Start(c)
  PROVE  StartFails(c) \/ \E i \in Tids : Started(c, i)
  BY DEF Start, Started, StartFails, IdOf

LEMMA AllocKeeps ==
  ASSUME LifeInv, Disciplined, DetachedStarts, NEW c \in Callers, NEW o,
         Alloc(c, o)
  PROVE  LifeInv'
  <1> USE ActorKinds
  <1> DEFINE s == at'[c]
  <1>1. Typed /\ c \in Actors /\ at[c] \in Slots /\ info[at[c]] \in Info
    BY DEF LifeInv, Typed
  <1>2. /\ s \in Slots
        /\ info[s].status = "UNUSED"
        /\ info'[s].status = "CREATED"
        /\ info'[s].detached = info[s].detached
        /\ info'[s].tid = info[s].tid
        /\ info'[s].name = info[s].name
        /\ Elsewhere(s)
        /\ Others(c)
        /\ pc[c] = "idle"
        /\ pc'[c] = "options"
        /\ call'[c] = "create"
        /\ o \in Options
        /\ opt'[c] = o
        /\ info' = [info EXCEPT ![s] = [info[s] EXCEPT
                     !.status = "CREATED", !.data = TRUE]]
        /\ UNCHANGED <<aliases, os, again, want, mine>>
    <2> DEFINE first == CHOOSE r \in FreeSlots : \A q \in FreeSlots : r <= q
    <2>1. first \in FreeSlots
      BY FirstSlot DEF FreeSlots, Alloc
    <2>2. /\ info' = [info EXCEPT ![first] = [info[first] EXCEPT
                         !.status = "CREATED", !.data = TRUE]]
          /\ at' = [at EXCEPT ![c] = first]
      BY DEF Alloc
    <2> HIDE DEF first
    <2>3. s = first /\ s \in Slots /\ info[s].status = "UNUSED"
      BY <1>1, <2>1, <2>2 DEF Typed, FreeSlots
    <2>4. info[s] \in Info
      BY <1>1, <2>3 DEF Typed
    <2>5. Elsewhere(s)
      BY <1>1, <2>2, <2>3 DEF Typed, Elsewhere
    <2>6. info' = [info EXCEPT ![s] = [info[s] EXCEPT
                    !.status = "CREATED", !.data = TRUE]]
      BY <2>2, <2>3
    <2>7. /\ info'[s].status = "CREATED" /\ info'[s].tid = info[s].tid
          /\ info'[s].detached = info[s].detached
          /\ info'[s].name = info[s].name
      BY <1>1, <2>3, <2>4, <2>6 DEF Typed, Info
    <2>8. UNCHANGED <<aliases, os, again, want, mine>>
      BY DEF Alloc
    <2>9. /\ pc[c] = "idle" /\ pc'[c] = "options" /\ call'[c] = "create"
          /\ o \in Options /\ opt'[c] = o
      BY <1>1 DEF Alloc, Typed, Goto
    <2>10. Others(c)
      BY <1>1, <2>2, <2>8 DEF Alloc, Typed, Goto, Others
    <2> QED
      BY <2>3, <2>5, <2>6, <2>7, <2>8, <2>9, <2>10
  <1>p. /\ info[s].tid = NoTid /\ info[s].name = NoName /\ ~info[s].detached
        /\ \A d \in Callers : pc[d] # "idle" => at[d] # s
        /\ \A j \in Tids : pc[j] # "idle" => at[j] # s
        /\ \A d \in Callers : \A e \in mine[d] : SlotOf(e) # s
    <2>1. \A d \in Callers : \A e \in mine[d] : SlotOf(e) # s
      BY <1>2, MineFacts DEF Unjoined
    <2>2. \A j \in Tids : pc[j] # "idle" => at[j] # s
      BY <1>2, ThreadAlone DEF Running
    <2> QED
      BY <1>2, <2>1, <2>2, CallerAlone DEF LifeInv, SlotRecords
  <1>3. Typed'
    <2>1. info' \in [Slots -> Info]
      <3>1. [info[s] EXCEPT !.status = "CREATED", !.data = TRUE] \in Info
        BY <1>1, <1>2, InfoFields DEF Typed, Alive
      <3> QED
        BY <1>1, <1>2, <3>1 DEF Typed
    <2>2. pc' \in [Actors -> PCs] /\ at' \in [Actors -> Slots]
      BY <1>1, <1>2 DEF Typed, Alloc, Goto, PCs, CreatePCs
    <2>3. /\ call' \in [Callers -> {"none", "create", "join", "detach"}]
          /\ opt' \in [Callers -> Options \cup {NoOption}]
      BY <1>1 DEF Typed, Alloc
    <2> QED
      BY <1>1, <1>2, <2>1, <2>2, <2>3 DEF Typed
  <1>4. SlotRecords'
    BY <1>1, <1>2, SlotsKept
  <1>5. ThreadSlots'
    <2>1. ASSUME NEW j \in Tids
          PROVE  ThreadAt(j)'
      <3>1. ThreadAt(j) /\ at[j] \in Slots
        BY <1>1 DEF LifeInv, ThreadSlots, Typed
      <3>2. pc'[j] = pc[j] /\ at'[j] = at[j] /\ os' = os
        BY <1>2 DEF Others
      <3>3. \A r \in Slots : /\ info'[r].tid = info[r].tid
                             /\ info'[r].detached = info[r].detached
                             /\ info[r].tid = j => info'[r] = info[r]
        BY <1>2, <1>p DEF Elsewhere
      <3> QED
        BY <3>1, <3>2, <3>3 DEF ThreadAt
    <2> QED
      BY <2>1 DEF ThreadSlots
  <1>6. CallAt'
    BY <1>1, <1>2 DEF LifeInv, Typed, CallAt, CreatePCs, FreePCs, CallOf,
       Others, Elsewhere
  <1>7. CreatorSlots'
    <2>1. ASSUME NEW d \in Callers \ {c}
          PROVE  CreatorAt(d)'
      <3>1. CreatorAt(d) /\ at[d] \in Slots
        BY <1>1 DEF LifeInv, CreatorSlots, Typed
      <3>2. pc[d] # "idle" => info'[at[d]] = info[at[d]]
        BY <1>2, <1>p, <3>1 DEF Elsewhere
      <3>3. pc[d] = "idle" => ~Creating(d)'
        BY <1>2 DEF Others, Creating, CreatePCs, FreePCs
      <3> QED
        BY <1>2, <3>1, <3>2, <3>3 DEF CreatorAt, Creating, Others
    <2>2. CreatorAt(c)'
      BY <1>2, <1>p DEF CreatorAt, Creating, CreatePCs
    <2> QED
      BY <2>1, <2>2 DEF CreatorSlots
  <1>8. Exclusive'
    BY <1>2, <1>p DEF LifeInv, Exclusive, Others
  <1>9. JoinerSlots'
    <2>1. ASSUME NEW d \in Callers \ {c}
          PROVE  JoinerAt(d)'
      <3>1. JoinerAt(d) /\ at[d] \in Slots /\ want[d] \in Tids \cup {NoTid}
        BY <1>1 DEF LifeInv, JoinerSlots, Typed
      <3>2. pc[d] # "idle" => info'[at[d]] = info[at[d]]
        BY <1>2, <1>p, <3>1 DEF Elsewhere
      <3>3. /\ pc'[d] = pc[d] /\ at'[d] = at[d] /\ call'[d] = call[d]
            /\ \A j \in Tids : pc'[j] = pc[j]
        BY <1>2 DEF Others
      <3> QED
        BY <1>2, <3>1, <3>2, <3>3 DEF JoinerAt
    <2>2. JoinerAt(c)'
      BY <1>2 DEF JoinerAt
    <2> QED
      BY <2>1, <2>2 DEF JoinerSlots
  <1>10. WaitsFor'
    BY <1>1, <1>2 DEF LifeInv, Typed, WaitsFor, Others, Elsewhere
  <1>11. MineLive'
    <2>1. ASSUME NEW d \in Callers, NEW e \in mine'[d]
          PROVE  e \in mine[d] /\ MineSame(e)
      <3>1. e \in mine[d]
        BY <1>2, <2>1
      <3>2. Unjoined(e) /\ SlotOf(e) # s
        BY <1>p, <3>1, MineFacts
      <3>3. info'[SlotOf(e)] = info[SlotOf(e)]
        BY <1>2, <3>2 DEF Unjoined, Elsewhere
      <3>4. \A f \in Callers : pc'[f] # "idle" => at'[f] # SlotOf(e)
        BY <1>2, <3>2 DEF Others, Unjoined
      <3> QED
        BY <1>2, <3>1, <3>2, <3>3, <3>4 DEF MineSame, Unjoined
    <2> QED
      BY <1>2, <2>1, MineKept
  <1>12. AliasTrue' /\ AliasSlots'
    <2>1. \A r \in Slots : info'[r].name = info[r].name
      BY <1>2 DEF Elsewhere
    <2>2. \A b \in Actors : /\ pc'[b] = "clear" <=> pc[b] = "clear"
                            /\ pc[b] = "clear" => at'[b] = at[b]
      BY <1>2 DEF Others
    <2> QED
      BY <1>2, <2>1, <2>2, AliasesKept
  <1>13. FreedOnce'
    BY <1>1, <1>2 DEF LifeInv, Typed, FreedOnce, Others, Elsewhere
  <1> QED
    BY <1>3, <1>4, <1>5, <1>6, <1>7, <1>8, <1>9, <1>10, <1>11, <1>12, <1>13 DEF
       LifeInv

LEMMA ScanOptionsKeeps ==
  ASSUME LifeInv, Disciplined, DetachedStarts, NEW c \in Callers,
         ScanOptions(c)
  PROVE  LifeInv'
  <1> USE ActorKinds
  <1> DEFINE s == at[c]
  <1>1. Typed /\ c \in Actors /\ at[c] \in Slots /\ info[at[c]] \in Info
    BY DEF LifeInv, Typed
  <1>2. /\ info'[s].status = info[s].status
        /\ info'[s].tid = info[s].tid
        /\ info'[s].name = info[s].name
        /\ info'[s].detached = opt[c].detached
        /\ Elsewhere(s)
        /\ Others(c)
        /\ pc[c] = "options"
        /\ pc'[c] \in {"alias", "free", "idle"}
        /\ pc'[c] = "free" => ~opt[c].detached
        /\ pc'[c] # "idle" => UNCHANGED <<at, call, opt, want>>
        /\ UNCHANGED <<aliases, os, again, mine>>
    <2>1. /\ info' = [info EXCEPT ![at[c]].detached = opt[c].detached]
          /\ pc[c] = "options"
          /\ UNCHANGED <<aliases, os, again, mine>>
      BY DEF ScanOptions, Goto, Return, MayFail
    <2>2. /\ info'[s].status = info[s].status
          /\ info'[s].tid = info[s].tid
          /\ info'[s].name = info[s].name
          /\ info'[s].detached = opt[c].detached
          /\ Elsewhere(s)
      BY <1>1, <2>1 DEF Typed, Info, Elsewhere
    <2>3. /\ Others(c)
          /\ pc'[c] \in {"alias", "free", "idle"}
          /\ pc'[c] # "idle" => UNCHANGED <<at, call, opt, want>>
      BY <1>1 DEF Typed, ScanOptions, MayFail, Goto, Return, Others
    <2>4. pc'[c] = "free" => ~opt[c].detached
      BY <1>1 DEF LifeInv, DetachedStarts, Typed, ScanOptions, MayFail, Goto,
         Return
    <2> QED
      BY <2>1, <2>2, <2>3, <2>4
  <1>3. Typed'
    <2>1. info' \in [Slots -> Info]
      BY <1>1, InfoFields, OptFields DEF Typed, ScanOptions, MayFail, Goto,
         Return, Alive, Final
    <2>2. os' \in [Tids -> OsThread]
      BY <1>1, <1>2 DEF Typed
    <2>3. /\ pc' \in [Actors -> PCs] /\ at' \in [Actors -> Slots]
          /\ opt' \in [Callers -> Options \cup {NoOption}]
      BY <1>1 DEF Typed, ScanOptions, MayFail, Goto, Return, PCs,
         CreatePCs, FreePCs
    <2> QED
      BY <1>1, <2>1, <2>2, <2>3 DEF Typed, ScanOptions, MayFail, Goto, Return
  <1>p. Private(c)
    BY CallerPrivate DEF ScanOptions, CreatePCs, FreePCs
  <1>4. SlotRecords'
    BY <1>1, <1>2, <1>p, SlotsKept DEF Private
  <1>5. ThreadSlots'
    <2>1. ASSUME NEW j \in Tids
          PROVE  ThreadAt(j)'
      <3>1. ThreadAt(j)
        BY DEF LifeInv, ThreadSlots
      <3> QED
        BY <1>1, <1>2, <1>p, <3>1 DEF Typed, ThreadAt, Final, Others,
           Elsewhere, Private
    <2> QED
      BY <2>1 DEF ThreadSlots
  <1>6. CallAt'
    BY <1>1, <1>2, <1>p DEF LifeInv, Typed, CallAt, CreatePCs, FreePCs, CallOf,
       Others, Elsewhere, Private
  <1>7. CreatorSlots'
    <2>1. ASSUME NEW d \in Callers \ {c}
          PROVE  CreatorAt(d)'
      <3>1. CreatorAt(d)
        BY DEF LifeInv, CreatorSlots
      <3> QED
        BY <1>1, <1>2, <1>p, <3>1 DEF Typed, CreatorAt, CreatePCs, FreePCs,
           Creating, Others, Elsewhere, Private
    <2>2. CreatorAt(c)'
      <3>1. CreatorAt(c) /\ CallOf(c)
        BY DEF LifeInv, CreatorSlots, CallAt
      <3> QED
        BY <1>1, <1>2, <1>p, <3>1 DEF Typed, CreatorAt, CreatePCs, FreePCs,
           Creating, Others, Elsewhere, Private, CallOf
    <2> QED
      BY <2>1, <2>2 DEF CreatorSlots
  <1>8. Exclusive'
    BY <1>1, <1>2, <1>p DEF LifeInv, Typed, Exclusive, Others, Elsewhere,
       Private
  <1>9. JoinerSlots'
    <2>1. ASSUME NEW d \in Callers \ {c}
          PROVE  JoinerAt(d)'
      <3>1. JoinerAt(d)
        BY DEF LifeInv, JoinerSlots
      <3> QED
        BY <1>1, <1>2, <1>p, <3>1 DEF Typed, JoinerAt, CreatePCs, FreePCs,
           Others, Elsewhere, Private
    <2>2. JoinerAt(c)'
      <3>1. JoinerAt(c) /\ CallOf(c)
        BY DEF LifeInv, JoinerSlots, CallAt
      <3> QED
        BY <1>1, <1>2, <1>p, <3>1 DEF Typed, JoinerAt, CreatePCs, FreePCs,
           Others, Elsewhere, Private, CallOf
    <2> QED
      BY <2>1, <2>2 DEF JoinerSlots
  <1>10. WaitsFor'
    BY <1>1, <1>2, <1>p DEF LifeInv, Typed, WaitsFor, Others, Elsewhere, Private
  <1>11. MineLive'
    <2>1. ASSUME NEW d \in Callers, NEW e \in mine'[d]
          PROVE  e \in mine[d] /\ MineSame(e)
      <3>1. e \in mine[d]
        BY <1>1, <1>2, <1>p, <2>1 DEF Others
      <3> QED
        BY <1>1, <1>2, <1>p, <3>1, MineFacts DEF MineSame, Unjoined, Typed,
           Others, Elsewhere, Private
    <2> QED
      BY <1>1, <1>2, <1>p, <2>1, MineKept
  <1>12. AliasTrue' /\ AliasSlots'
    BY <1>1, <1>2, AliasesKept DEF Others, Elsewhere
  <1>13. FreedOnce'
    BY <1>1, <1>2, <1>p DEF LifeInv, Typed, FreedOnce, Others, Elsewhere,
       Private
  <1> QED
    BY <1>3, <1>4, <1>5, <1>6, <1>7, <1>8, <1>9, <1>10, <1>11, <1>12, <1>13 DEF
       LifeInv

LEMMA TakeAliasKeeps ==
  ASSUME LifeInv, Disciplined, DetachedStarts, NEW c \in Callers,
         TakeAlias(c)
  PROVE  LifeInv'
  <1> USE ActorKinds
  <1> DEFINE s == at[c]
             n == opt[c].alias
  <1>1. Typed /\ c \in Actors /\ at[c] \in Slots /\ info[at[c]] \in Info
    BY DEF LifeInv, Typed
  <1>2. /\ info'[s].status = info[s].status
        /\ info'[s].detached = info[s].detached
        /\ info'[s].tid = info[s].tid
        /\ info'[s].name \in {info[s].name, n}
        /\ Elsewhere(s)
        /\ Others(c)
        /\ pc[c] = "alias"
        /\ pc'[c] \in {"id", "free"}
        /\ \/ n = NoName /\ pc'[c] = "id" /\ UNCHANGED <<info, aliases>>
           \/ n # NoName /\ pc'[c] = "free" /\ UNCHANGED <<info, aliases>>
           \/ /\ n \in Names /\ aliases[n] = NoSlot /\ info'[s].name = n
              /\ pc'[c] = "id" /\ aliases' = [aliases EXCEPT ![n] = s]
        /\ opt[c].detached => n = NoName
        /\ UNCHANGED <<at, call, opt, want, os, again, mine>>
    BY <1>1, OptFields DEF LifeInv, DetachedStarts, Typed, NoOption,
       CreatorSlots, CreatorAt, Creating, CreatePCs, Typed, Info, TakeAlias,
       Goto, callVars, Elsewhere, Others
  <1>3. Typed'
    <2>1. info' \in [Slots -> Info]
      <3>1. CASE info' = info
        BY <1>1, <3>1 DEF Typed
      <3>2. CASE info' = [info EXCEPT ![at[c]] = [info[at[c]] EXCEPT !.name = n]]
        <4>1. [info[at[c]] EXCEPT !.name = n] \in Info
          BY <1>1, InfoFields, OptFields
        <4> QED
          BY <1>1, <3>2, <4>1 DEF Typed
      <3> QED
        BY <3>1, <3>2 DEF TakeAlias
    <2> QED
      BY <1>1, <2>1 DEF Typed, TakeAlias, Goto, callVars, PCs, CreatePCs,
         FreePCs
  <1>p. Private(c)
    BY CallerPrivate DEF TakeAlias, CreatePCs, FreePCs
  <1>4. SlotRecords'
    BY <1>1, <1>2, <1>p, SlotsKept DEF Private
  <1>5. ThreadSlots'
    <2>1. ASSUME NEW j \in Tids
          PROVE  ThreadAt(j)'
      <3>1. ThreadAt(j)
        BY DEF LifeInv, ThreadSlots
      <3> QED
        BY <1>1, <1>2, <1>p, <3>1 DEF Typed, ThreadAt, Final, Others,
           Elsewhere, Private
    <2> QED
      BY <2>1 DEF ThreadSlots
  <1>6. CallAt'
    BY <1>1, <1>2, <1>p DEF LifeInv, Typed, CallAt, CreatePCs, FreePCs, CallOf,
       Others, Elsewhere, Private
  <1>7. CreatorSlots'
    <2>1. ASSUME NEW d \in Callers \ {c}
          PROVE  CreatorAt(d)'
      <3>1. CreatorAt(d)
        BY DEF LifeInv, CreatorSlots
      <3> QED
        BY <1>1, <1>2, <1>p, <3>1 DEF Typed, CreatorAt, CreatePCs, FreePCs,
           Creating, Others, Elsewhere, Private
    <2>2. CreatorAt(c)'
      <3>1. CreatorAt(c) /\ CallOf(c)
        BY DEF LifeInv, CreatorSlots, CallAt
      <3> QED
        BY <1>1, <1>2, <1>p, <3>1 DEF Typed, CreatorAt, CreatePCs, FreePCs,
           Creating, Others, Elsewhere, Private, CallOf
    <2> QED
      BY <2>1, <2>2 DEF CreatorSlots
  <1>8. Exclusive'
    BY <1>1, <1>2, <1>p DEF LifeInv, Typed, Exclusive, Others, Elsewhere,
       Private
  <1>9. JoinerSlots'
    <2>1. ASSUME NEW d \in Callers \ {c}
          PROVE  JoinerAt(d)'
      <3>1. JoinerAt(d)
        BY DEF LifeInv, JoinerSlots
      <3> QED
        BY <1>1, <1>2, <1>p, <3>1 DEF Typed, JoinerAt, CreatePCs, FreePCs,
           Others, Elsewhere, Private
    <2>2. JoinerAt(c)'
      <3>1. JoinerAt(c) /\ CallOf(c)
        BY DEF LifeInv, JoinerSlots, CallAt
      <3> QED
        BY <1>1, <1>2, <1>p, <3>1 DEF Typed, JoinerAt, CreatePCs, FreePCs,
           Others, Elsewhere, Private, CallOf
    <2> QED
      BY <2>1, <2>2 DEF JoinerSlots
  <1>10. WaitsFor'
    BY <1>1, <1>2, <1>p DEF LifeInv, Typed, WaitsFor, Others, Elsewhere, Private
  <1>11. MineLive'
    <2>1. ASSUME NEW d \in Callers, NEW e \in mine'[d]
          PROVE  e \in mine[d] /\ MineSame(e)
      <3>1. e \in mine[d]
        BY <1>1, <1>2, <1>p, <2>1 DEF Others
      <3>2. e \in Names => aliases'[e] = aliases[e]
        BY <1>1, <1>2, <3>1, MineFacts DEF SlotOf, Typed, Unjoined
      <3> QED
        BY <1>1, <1>2, <1>p, <3>1, <3>2, MineFacts DEF MineSame, Unjoined,
           Typed, Others, Elsewhere, Private
    <2> QED
      BY <1>1, <1>2, <1>p, <2>1, MineKept
  <1>12. AliasTrue' /\ AliasSlots'
    <2>1. CASE UNCHANGED <<info, aliases>>
      BY <1>1, <1>2, <2>1, AliasesKept DEF Others
    <2>2. CASE /\ n \in Names /\ aliases[n] = NoSlot /\ info'[s].name = n
               /\ aliases' = [aliases EXCEPT ![n] = s]
      <3>1. info[s].name = NoName
        <4>1. CreatorAt(c)
          BY DEF LifeInv, CreatorSlots
        <4> QED
          BY <1>2, <4>1 DEF CreatorAt, Creating, CreatePCs
      <3>2. \A m \in Names : aliases'[m] = IF m = n THEN s ELSE aliases[m]
        BY <1>1, <2>2 DEF Typed
      <3>3. \A r \in Slots \ {s} : info'[r].name = info[r].name
        BY <1>2 DEF Elsewhere
      <3>4. AliasTrue'
        <4>1. ASSUME NEW m \in Names, aliases'[m] # NoSlot
              PROVE  info'[aliases'[m]].name = m
          <5>1. CASE m = n
            BY <2>2, <3>2, <5>1
          <5>2. CASE m # n
            <6>1. aliases'[m] = aliases[m] /\ info[aliases[m]].name = m
              BY <3>2, <4>1, <5>2 DEF LifeInv, AliasTrue
            <6>2. aliases[m] \in Slots \ {s}
              BY <1>1, <3>1, <4>1, <6>1 DEF Typed
            <6> QED
              BY <3>3, <6>1, <6>2
          <5> QED
            BY <5>1, <5>2
        <4> QED
          BY <4>1 DEF AliasTrue
      <3>5. AliasSlots'
        <4>1. ASSUME NEW r \in Slots, info'[r].name # NoName
              PROVE  \/ aliases'[info'[r].name] = r
                     \/ \E b \in Actors : pc'[b] = "clear" /\ at'[b] = r
          <5>1. CASE r = s
            BY <2>2, <3>2, <5>1
          <5>2. CASE r # s
            <6>1. info'[r].name = info[r].name /\ info[r].name \in Names
              BY <1>1, <3>3, <4>1, <5>2 DEF Typed, Info
            <6>2. \/ aliases[info[r].name] = r
                  \/ \E b \in Actors : pc[b] = "clear" /\ at[b] = r
              BY <4>1, <6>1 DEF LifeInv, AliasSlots
            <6>3. ASSUME NEW b \in Actors, pc[b] = "clear", at[b] = r
                  PROVE  pc'[b] = "clear" /\ at'[b] = r
              BY <1>2, <6>3 DEF Others
            <6>4. CASE aliases[info[r].name] = r
              BY <2>2, <3>2, <6>1, <6>4
            <6> QED
              BY <6>2, <6>3, <6>4
          <5> QED
            BY <5>1, <5>2
        <4>2. ASSUME NEW b \in Actors, pc'[b] = "clear", NEW m \in Names
              PROVE  aliases'[m] # at'[b]
          <5>1. b # c /\ pc[b] = "clear" /\ at'[b] = at[b]
            BY <1>2, <4>2 DEF Others
          <5>2. at[b] # s /\ aliases[m] # at[b]
            BY <5>1, <1>p DEF Private, LifeInv, AliasSlots
          <5> QED
            BY <3>2, <5>1, <5>2
        <4> QED
          BY <4>1, <4>2 DEF AliasSlots
      <3> QED
        BY <3>4, <3>5
    <2> QED
      BY <1>2, <2>1, <2>2
  <1>13. FreedOnce'
    BY <1>1, <1>2, <1>p DEF LifeInv, Typed, FreedOnce, Others, Elsewhere,
       Private
  <1> QED
    BY <1>3, <1>4, <1>5, <1>6, <1>7, <1>8, <1>9, <1>10, <1>11, <1>12, <1>13 DEF
       LifeInv

LEMMA RecordGoalKeeps ==
  ASSUME LifeInv, Disciplined, DetachedStarts, NEW c \in Callers,
         RecordGoal(c)
  PROVE  LifeInv'
  <1> USE ActorKinds
  <1> DEFINE s == at[c]
  <1>1. Typed /\ c \in Actors /\ at[c] \in Slots /\ info[at[c]] \in Info
    BY DEF LifeInv, Typed
  <1>2. /\ info'[s].status = info[s].status
        /\ info'[s].detached = info[s].detached
        /\ info'[s].tid = info[s].tid
        /\ info'[s].name = info[s].name
        /\ Elsewhere(s)
        /\ Others(c)
        /\ pc[c] = "id"
        /\ pc'[c] \in {"start", "free"}
        /\ pc'[c] = "free" => ~opt[c].detached
        /\ UNCHANGED <<at, call, opt, want, aliases, os, again, mine>>
    <2>1. pc'[c] = "free" => ~opt[c].detached
      <3>1. pc'[c] = "free" => "id" \in Faults[opt[c].detached]
        BY <1>1 DEF RecordGoal, MayFail, Goto, Typed
      <3>2. opt[c].detached => opt[c].detached = TRUE
        BY <1>1, OptFields
      <3> QED
        BY <3>1, <3>2 DEF DetachedStarts
    <2> QED
      BY <1>1, <2>1 DEF Typed, Info, RecordGoal, Goto, callVars, Elsewhere,
         Others
  <1>3. Typed'
    <2>0. [info[at[c]] EXCEPT !.goal = TRUE] \in Info
      BY <1>1, <1>2, InfoFields, OptFields DEF Alive, Final
    <2>1. info' \in [Slots -> Info]
      <3>1. \/ info' = [info EXCEPT ![at[c]].goal = TRUE]
            \/ info' = info
        BY DEF RecordGoal
      <3>2. info \in [Slots -> Info]
        BY <1>1 DEF Typed
      <3>3. [info EXCEPT ![at[c]].goal = TRUE] \in [Slots -> Info]
        BY ONLY <2>0, <3>2
      <3> QED
        BY ONLY <3>1, <3>2, <3>3
    <2>2. os' \in [Tids -> OsThread]
      BY <1>1, <1>2 DEF Typed
    <2> QED
      BY <1>1, <2>1, <2>2 DEF Typed, RecordGoal, MayFail, Goto, callVars, PCs,
         CreatePCs, FreePCs, NoOption
  <1>p. Private(c)
    BY CallerPrivate DEF RecordGoal, CreatePCs, FreePCs
  <1>4. SlotRecords'
    BY <1>1, <1>2, <1>p, SlotsKept DEF Private
  <1>5. ThreadSlots'
    <2>1. ASSUME NEW j \in Tids
          PROVE  ThreadAt(j)'
      <3>1. ThreadAt(j)
        BY DEF LifeInv, ThreadSlots
      <3> QED
        BY <1>1, <1>2, <1>p, <3>1 DEF Typed, ThreadAt, Final, Others,
           Elsewhere, Private
    <2> QED
      BY <2>1 DEF ThreadSlots
  <1>6. CallAt'
    BY <1>1, <1>2, <1>p DEF LifeInv, Typed, CallAt, CreatePCs, FreePCs, CallOf,
       Others, Elsewhere, Private
  <1>7. CreatorSlots'
    <2>1. ASSUME NEW d \in Callers \ {c}
          PROVE  CreatorAt(d)'
      <3>1. CreatorAt(d)
        BY DEF LifeInv, CreatorSlots
      <3> QED
        BY <1>1, <1>2, <1>p, <3>1 DEF Typed, CreatorAt, CreatePCs, FreePCs,
           Creating, Others, Elsewhere, Private
    <2>2. CreatorAt(c)'
      <3>1. CreatorAt(c) /\ CallOf(c)
        BY DEF LifeInv, CreatorSlots, CallAt
      <3> QED
        BY <1>1, <1>2, <1>p, <3>1 DEF Typed, CreatorAt, CreatePCs, FreePCs,
           Creating, Others, Elsewhere, Private, CallOf
    <2> QED
      BY <2>1, <2>2 DEF CreatorSlots
  <1>8. Exclusive'
    BY <1>1, <1>2, <1>p DEF LifeInv, Typed, Exclusive, Others, Elsewhere,
       Private
  <1>9. JoinerSlots'
    <2>1. ASSUME NEW d \in Callers \ {c}
          PROVE  JoinerAt(d)'
      <3>1. JoinerAt(d)
        BY DEF LifeInv, JoinerSlots
      <3> QED
        BY <1>1, <1>2, <1>p, <3>1 DEF Typed, JoinerAt, CreatePCs, FreePCs,
           Others, Elsewhere, Private
    <2>2. JoinerAt(c)'
      <3>1. JoinerAt(c) /\ CallOf(c)
        BY DEF LifeInv, JoinerSlots, CallAt
      <3> QED
        BY <1>1, <1>2, <1>p, <3>1 DEF Typed, JoinerAt, CreatePCs, FreePCs,
           Others, Elsewhere, Private, CallOf
    <2> QED
      BY <2>1, <2>2 DEF JoinerSlots
  <1>10. WaitsFor'
    BY <1>1, <1>2, <1>p DEF LifeInv, Typed, WaitsFor, Others, Elsewhere, Private
  <1>11. MineLive'
    <2>1. ASSUME NEW d \in Callers, NEW e \in mine'[d]
          PROVE  e \in mine[d] /\ MineSame(e)
      <3>1. e \in mine[d]
        BY <1>1, <1>2, <1>p, <2>1 DEF Others
      <3> QED
        BY <1>1, <1>2, <1>p, <3>1, MineFacts DEF MineSame, Unjoined, Typed,
           Others, Elsewhere, Private
    <2> QED
      BY <1>1, <1>2, <1>p, <2>1, MineKept
  <1>12. AliasTrue' /\ AliasSlots'
    BY <1>1, <1>2, AliasesKept DEF Others, Elsewhere
  <1>13. FreedOnce'
    BY <1>1, <1>2, <1>p DEF LifeInv, Typed, FreedOnce, Others, Elsewhere,
       Private
  <1> QED
    BY <1>3, <1>4, <1>5, <1>6, <1>7, <1>8, <1>9, <1>10, <1>11, <1>12, <1>13 DEF
       LifeInv

LEMMA StartFailsKeeps ==
  ASSUME LifeInv, Disciplined, DetachedStarts, NEW c \in Callers,
         StartFails(c)
  PROVE  LifeInv'
  <1> USE ActorKinds
  <1> DEFINE s == at[c]
  <1>1. Typed /\ c \in Actors /\ at[c] \in Slots /\ info[at[c]] \in Info
    BY DEF LifeInv, Typed
  <1>2. /\ Others(c)
        /\ pc[c] = "start"
        /\ pc'[c] = "free"
        /\ ~opt[c].detached
        /\ UNCHANGED <<info, at, call, opt, want, aliases, os, again, mine>>
    <2>1. "pthread" \in Faults[opt[c].detached] /\ opt[c].detached \in BOOLEAN
      BY OptFields DEF StartFails, MayFail, LifeInv
    <2>2. ~opt[c].detached
      BY <2>1 DEF DetachedStarts
    <2> QED
      BY <1>1, <2>2 DEF StartFails, Typed, Goto, Others
  <1>3. Typed'
    <2>1. info' \in [Slots -> Info]
      BY <1>1, <1>2 DEF Typed
    <2>2. os' \in [Tids -> OsThread]
      BY <1>1, <1>2 DEF Typed
    <2> QED
      BY <1>1, <2>1, <2>2 DEF Typed, StartFails, MayFail, Goto, PCs, CreatePCs,
         FreePCs, NoOption
  <1>p. Private(c)
    BY <1>2, CallerPrivate DEF CreatePCs, FreePCs
  <1>4. SlotRecords'
    BY <1>1, <1>2, <1>p DEF LifeInv, SlotRecords
  <1>5. ThreadSlots'
    <2>1. ASSUME NEW j \in Tids
          PROVE  ThreadAt(j)'
      <3>1. ThreadAt(j)
        BY DEF LifeInv, ThreadSlots
      <3> QED
        BY <1>1, <1>2, <1>p, <3>1 DEF Typed, ThreadAt, Final, Others,
           Elsewhere, Private
    <2> QED
      BY <2>1 DEF ThreadSlots
  <1>6. CallAt'
    BY <1>1, <1>2, <1>p DEF LifeInv, Typed, CallAt, CreatePCs, FreePCs, CallOf,
       Others, Elsewhere, Private
  <1>7. CreatorSlots'
    <2>1. ASSUME NEW d \in Callers \ {c}
          PROVE  CreatorAt(d)'
      <3>1. CreatorAt(d)
        BY DEF LifeInv, CreatorSlots
      <3> QED
        BY <1>1, <1>2, <1>p, <3>1 DEF Typed, CreatorAt, CreatePCs, FreePCs,
           Creating, Others, Elsewhere, Private
    <2>2. CreatorAt(c)'
      <3>1. CreatorAt(c) /\ CallOf(c)
        BY DEF LifeInv, CreatorSlots, CallAt
      <3> QED
        BY <1>1, <1>2, <1>p, <3>1 DEF Typed, CreatorAt, CreatePCs, FreePCs,
           Creating, Others, Elsewhere, Private, CallOf
    <2> QED
      BY <2>1, <2>2 DEF CreatorSlots
  <1>8. Exclusive'
    BY <1>1, <1>2, <1>p DEF LifeInv, Typed, Exclusive, Others, Elsewhere,
       Private
  <1>9. JoinerSlots'
    <2>1. ASSUME NEW d \in Callers \ {c}
          PROVE  JoinerAt(d)'
      <3>1. JoinerAt(d)
        BY DEF LifeInv, JoinerSlots
      <3> QED
        BY <1>1, <1>2, <1>p, <3>1 DEF Typed, JoinerAt, CreatePCs, FreePCs,
           Others, Elsewhere, Private
    <2>2. JoinerAt(c)'
      <3>1. JoinerAt(c) /\ CallOf(c)
        BY DEF LifeInv, JoinerSlots, CallAt
      <3> QED
        BY <1>1, <1>2, <1>p, <3>1 DEF Typed, JoinerAt, CreatePCs, FreePCs,
           Others, Elsewhere, Private, CallOf
    <2> QED
      BY <2>1, <2>2 DEF JoinerSlots
  <1>10. WaitsFor'
    BY <1>1, <1>2, <1>p DEF LifeInv, Typed, WaitsFor, Others, Elsewhere, Private
  <1>11. MineLive'
    <2>1. ASSUME NEW d \in Callers, NEW e \in mine'[d]
          PROVE  e \in mine[d] /\ MineSame(e)
      <3>1. e \in mine[d]
        BY <1>1, <1>2, <1>p, <2>1 DEF Others
      <3> QED
        BY <1>1, <1>2, <1>p, <3>1, MineFacts DEF MineSame, Unjoined, Typed,
           Others, Elsewhere, Private
    <2> QED
      BY <1>1, <1>2, <1>p, <2>1, MineKept
  <1>12. AliasTrue' /\ AliasSlots'
    BY <1>1, <1>2, AliasesKept DEF Others, Elsewhere
  <1>13. FreedOnce'
    BY <1>1, <1>2, <1>p DEF LifeInv, Typed, FreedOnce, Others, Elsewhere,
       Private
  <1> QED
    BY <1>3, <1>4, <1>5, <1>6, <1>7, <1>8, <1>9, <1>10, <1>11, <1>12, <1>13 DEF
       LifeInv

LEMMA StartedKeeps ==
  ASSUME LifeInv, Disciplined, DetachedStarts, NEW c \in Callers,
         NEW i \in Tids, Started(c, i)
  PROVE  LifeInv'
  <1> USE ActorKinds
  <1>0. PICK s \in Slots, id \in Names \cup Slots : s = at[c] /\ id = IdOf(s)
    <2>1. Typed /\ at[c] \in Slots /\ info[at[c]] \in Info
      BY DEF LifeInv, Typed
    <2>2. IdOf(at[c]) \in Names \cup Slots
      BY <2>1 DEF IdOf, Info
    <2> QED
      BY <2>1, <2>2
  <1> DEFINE rec == [info[s] EXCEPT !.tid = i]
             th == [os[i] EXCEPT !.state = "run", !.detached = info[s].detached,
                                 !.daemon = opt[c].daemon]
             new == IF info[s].detached \/ opt[c].daemon THEN mine[c]
                    ELSE mine[c] \cup {id}
  <1>1. /\ Typed /\ c \in Actors /\ i \in Actors /\ c # i /\ s \in Slots
        /\ info[s] \in Info /\ os[i] \in OsThread
    BY <1>0 DEF LifeInv, Typed
  <1>2. /\ pc[c] = "start" /\ os[i].state = "none"
        /\ info' = [info EXCEPT ![s] = rec]
        /\ os' = [os EXCEPT ![i] = th]
        /\ at' = [at EXCEPT ![i] = s, ![c] = 1]
        /\ pc' = [pc EXCEPT ![i] = "init", ![c] = "idle"]
        /\ call' = [call EXCEPT ![c] = "none"]
        /\ opt' = [opt EXCEPT ![c] = NoOption]
        /\ mine' = [mine EXCEPT ![c] = new]
        /\ UNCHANGED <<aliases, again, want>>
    BY <1>0 DEF Started
  <1>3. /\ info[s].detached \in BOOLEAN /\ opt[c].daemon \in BOOLEAN
        /\ info[s].name \in Names \cup {NoName}
    BY <1>1, OptFields DEF Info
  <1>4. rec \in Info /\ th \in OsThread
    BY <1>1, <1>3, InfoFields, OsFields
  <1>5. /\ rec.tid = i /\ rec.status = info[s].status /\ rec.name = info[s].name
        /\ rec.detached = info[s].detached
        /\ th.state = "run" /\ th.detached = info[s].detached
        /\ th.daemon = opt[c].daemon /\ th.joiner = os[i].joiner
    BY <1>1 DEF Info, OsThread
  <1>6. Private(c) /\ pc[i] = "idle" /\ \A r \in Slots : info[r].tid # i
    <2>1. Private(c)
      BY <1>2, CallerPrivate DEF CreatePCs
    <2>2. pc[i] = "idle"
      BY <1>2 DEF LifeInv, ThreadSlots, ThreadAt
    <2>3. \A r \in Slots : info[r].tid # i
      BY <1>2 DEF LifeInv, SlotRecords
    <2> QED
      BY <2>1, <2>2, <2>3
  <1>7. /\ info[s].status = "CREATED" /\ info[s].tid = NoTid
        /\ info[s].detached = opt[c].detached
    <2>1. CreatorAt(c) /\ Creating(c)
      BY <1>2 DEF LifeInv, CreatorSlots, Creating, CreatePCs
    <2> QED
      BY <1>0, <1>2, <2>1 DEF CreatorAt
  <1>8. \A d \in Callers : pc[d] # "idle" /\ call[d] = "join" => want[d] # i
    <2>1. \A d \in Callers : at[d] \in Slots
      BY <1>1 DEF Typed
    <2> QED
      BY <1>6, <2>1 DEF LifeInv, JoinerSlots, JoinerAt
  <1>9. os[i].joiner = NoCaller
    <2>1. \A d \in Callers : os[i].joiner # d
      BY <1>2, <1>8 DEF LifeInv, WaitsFor, CallAt, CallOf
    <2> QED
      BY <1>1, <2>1 DEF OsThread
  <1> HIDE DEF rec, th, new
  <1>a. info'[s] = rec /\ \A r \in Slots \ {s} : info'[r] = info[r]
    BY <1>1, <1>2 DEF Typed
  <1>b. os'[i] = th /\ \A j \in Tids \ {i} : os'[j] = os[j]
    BY <1>1, <1>2 DEF Typed
  <1>c. /\ pc'[i] = "init" /\ pc'[c] = "idle" /\ at'[i] = s
        /\ \A b \in Actors \ {i, c} : pc'[b] = pc[b] /\ at'[b] = at[b]
    BY <1>1, <1>2 DEF Typed
  <1>d. \A d \in Callers \ {c} : /\ call'[d] = call[d] /\ opt'[d] = opt[d]
                                 /\ mine'[d] = mine[d]
    BY <1>1, <1>2 DEF Typed
  <1>e. mine'[c] = new
    BY <1>1, <1>2 DEF Typed
  <1>f. \A r \in Slots : /\ info'[r].status = info[r].status
                         /\ info'[r].name = info[r].name
                         /\ info'[r].detached = info[r].detached
    BY <1>5, <1>a
  <1>10. Typed'
    <2>1. info' \in [Slots -> Info] /\ os' \in [Tids -> OsThread]
      BY <1>1, <1>2, <1>4 DEF Typed
    <2>2. pc' \in [Actors -> PCs] /\ at' \in [Actors -> Slots]
      BY <1>1, <1>2 DEF Typed, PCs
    <2>4. new \subseteq Names \cup Slots
      <3>1. mine[c] \subseteq Names \cup Slots
        BY <1>1 DEF Typed
      <3> QED
        BY <1>0, <3>1 DEF new
    <2>5. mine' \in [Callers -> SUBSET (Names \cup Slots)]
      BY <1>1, <1>2, <2>4 DEF Typed
    <2>6. /\ call' \in [Callers -> {"none", "create", "join", "detach"}]
          /\ opt' \in [Callers -> Options \cup {NoOption}]
      BY <1>1, <1>2 DEF Typed
    <2> QED
      BY <1>1, <1>2, <2>1, <2>2, <2>5, <2>6 DEF Typed
  <1>11. SlotRecords'
    <2>1. \A r \in Slots : info'[r].status = "UNUSED" =>
            info'[r].tid = NoTid /\ info'[r].name = NoName /\ ~info'[r].detached
      BY <1>7, <1>a, <1>f DEF LifeInv, SlotRecords
    <2>2. ASSUME NEW r \in Slots, info'[r].tid # NoTid
          PROVE  os'[info'[r].tid].state # "none"
      <3>1. CASE r = s
        BY <1>5, <1>a, <1>b, <3>1
      <3>2. CASE r # s
        <4>1. info'[r].tid = info[r].tid /\ info[r].tid # i
          BY <1>6, <1>a, <3>2
        <4>2. info[r].tid \in Tids /\ os[info[r].tid].state # "none"
          BY <1>1, <2>2, <4>1 DEF LifeInv, SlotRecords, Typed, Info
        <4> QED
          BY <1>b, <4>1, <4>2
      <3> QED
        BY <3>1, <3>2
    <2>3. \A q, r \in Slots :
            info'[q].tid = info'[r].tid /\ info'[r].tid # NoTid => q = r
      BY <1>5, <1>6, <1>a DEF LifeInv, SlotRecords
    <2> QED
      BY <2>1, <2>2, <2>3 DEF SlotRecords
  <1>12. ThreadSlots'
    <2>1. ASSUME NEW j \in Tids \ {i}
          PROVE  ThreadAt(j)'
      <3>1. ThreadAt(j) /\ at[j] \in Slots
        BY <1>1 DEF LifeInv, ThreadSlots, Typed
      <3>2. pc'[j] = pc[j] /\ at'[j] = at[j] /\ os'[j] = os[j]
        BY <1>b, <1>c
      <3>3. \A r \in Slots : info'[r].tid = j => info'[r] = info[r]
        BY <1>5, <1>a
      <3>4. pc[j] # "idle" => info'[at[j]] = info[at[j]]
        BY <1>0, <1>6, <1>a, <3>1 DEF Private
      <3> QED
        BY <1>f, <3>1, <3>2, <3>3, <3>4 DEF ThreadAt
    <2>2. ThreadAt(i)'
      BY <1>5, <1>a, <1>b, <1>c DEF ThreadAt
    <2> QED
      BY <2>1, <2>2 DEF ThreadSlots
  <1>13. CallAt'
    BY <1>c, <1>d DEF LifeInv, CallAt, CallOf, CreatePCs, FreePCs
  <1>14. CreatorSlots'
    <2>1. ASSUME NEW d \in Callers \ {c}
          PROVE  CreatorAt(d)'
      <3>1. CreatorAt(d) /\ at[d] \in Slots
        BY <1>1 DEF LifeInv, CreatorSlots, Typed
      <3>2. /\ pc'[d] = pc[d] /\ at'[d] = at[d] /\ opt'[d] = opt[d]
            /\ call'[d] = call[d]
        BY <1>c, <1>d
      <3>3. Creating(d) => info'[at[d]] = info[at[d]]
        BY <1>0, <1>6, <1>a, <3>1 DEF Private, Creating, CreatePCs, FreePCs
      <3> QED
        BY <3>1, <3>2, <3>3 DEF CreatorAt, Creating
    <2>2. CreatorAt(c)'
      BY <1>c DEF CreatorAt, Creating, CreatePCs, FreePCs
    <2> QED
      BY <2>1, <2>2 DEF CreatorSlots
  <1>15. Exclusive'
    BY <1>c DEF LifeInv, Exclusive
  <1>16. JoinerSlots'
    <2>1. ASSUME NEW d \in Callers \ {c}
          PROVE  JoinerAt(d)'
      <3>1. JoinerAt(d) /\ at[d] \in Slots /\ want[d] \in Tids \cup {NoTid}
        BY <1>1 DEF LifeInv, JoinerSlots, Typed
      <3>2. /\ pc'[d] = pc[d] /\ at'[d] = at[d] /\ call'[d] = call[d]
            /\ want'[d] = want[d]
        BY <1>2, <1>c, <1>d
      <3>3. pc[d] # "idle" => info'[at[d]] = info[at[d]]
        BY <1>0, <1>6, <1>a, <3>1 DEF Private
      <3>4. \A j \in Tids \ {i} : pc'[j] = pc[j] /\ os'[j] = os[j]
        BY <1>b, <1>c
      <3> QED
        BY <1>8, <3>1, <3>2, <3>3, <3>4 DEF JoinerAt
    <2>2. JoinerAt(c)'
      BY <1>c DEF JoinerAt
    <2> QED
      BY <2>1, <2>2 DEF JoinerSlots
  <1>17. WaitsFor'
    <2> SUFFICES ASSUME NEW j \in Tids, NEW d \in Callers,
                        os'[j].joiner = d, os'[j].state # "gone"
                 PROVE  pc'[d] = "wait" /\ want'[d] = j
      BY DEF WaitsFor
    <2>1. j # i
      BY <1>5, <1>9, <1>b
    <2>2. pc[d] = "wait" /\ want[d] = j
      BY <1>b, <2>1 DEF LifeInv, WaitsFor
    <2> QED
      BY <1>2, <1>c, <2>2
  <1>18. MineLive'
    <2>1. ASSUME NEW d \in Callers, NEW e \in mine[d]
          PROVE  Awaits(e)' /\ e # id
      <3>1. Unjoined(e) /\ SlotOf(e) # s
        BY <1>0, <1>6, MineFacts DEF Private
      <3>2. /\ info'[SlotOf(e)] = info[SlotOf(e)]
            /\ os'[info[SlotOf(e)].tid] = os[info[SlotOf(e)].tid]
        BY <1>6, <1>a, <1>b, <3>1 DEF Unjoined
      <3>3. \A f \in Callers : pc'[f] # "idle" => at'[f] # SlotOf(e)
        BY <1>c, <3>1 DEF Unjoined
      <3>4. MineSame(e)
        BY <1>2, <3>1, <3>2, <3>3 DEF MineSame, Unjoined
      <3>5. SlotOf(id) = s
        <4>1. CASE info[s].name = NoName
          BY <1>0, <1>1, <4>1 DEF IdOf, SlotOf
        <4>2. CASE info[s].name # NoName
          <5>1. aliases[info[s].name] = s
            <6>1. ~ \E b \in Actors : pc[b] = "clear" /\ at[b] = s
              BY <1>0, <1>2, <1>6 DEF Private
            <6> QED
              BY <1>1, <4>2, <6>1 DEF LifeInv, AliasSlots
          <5> QED
            BY <1>0, <1>3, <4>2, <5>1 DEF IdOf, SlotOf
        <4> QED
          BY <4>1, <4>2
      <3> QED
        BY <3>1, <3>4, <3>5, AwaitsKept
    <2>2. id \in new /\ id \notin mine[c] => Awaits(id)'
      <3> SUFFICES ASSUME id \in new, id \notin mine[c]
                   PROVE  Awaits(id)'
        OBVIOUS
      <3>1. ~info[s].detached /\ ~opt[c].daemon
        BY DEF new
      <3>2. SlotOf(id)' = s
        <4>1. CASE info[s].name = NoName
          BY <1>0, <1>1, <4>1 DEF IdOf, SlotOf
        <4>2. CASE info[s].name # NoName
          <5>1. aliases[info[s].name] = s
            <6>1. ~ \E b \in Actors : pc[b] = "clear" /\ at[b] = s
              BY <1>0, <1>2, <1>6 DEF Private
            <6> QED
              BY <1>1, <4>2, <6>1 DEF LifeInv, AliasSlots
          <5> QED
            BY <1>0, <1>2, <1>3, <4>2, <5>1 DEF IdOf, SlotOf
        <4> QED
          BY <4>1, <4>2
      <3>3. IdOf(s)' = id
        BY <1>0, <1>5, <1>a DEF IdOf
      <3>4. /\ info'[s].tid = i /\ ~info'[s].detached
            /\ ~os'[i].daemon /\ ~os'[i].detached
            /\ os'[i].joiner = NoCaller /\ os'[i].state # "gone"
        BY <1>5, <1>9, <1>a, <1>b, <3>1
      <3>5. \A d \in Callers : pc'[d] # "idle" => at'[d] # s
        BY <1>0, <1>6, <1>c DEF Private
      <3> QED
        BY <1>1, <3>2, <3>3, <3>4, <3>5 DEF Awaits
    <2>3. new \subseteq mine[c] \cup {id}
      BY DEF new
    <2>4. ASSUME NEW d \in Callers, NEW e \in mine'[d]
          PROVE  Awaits(e)' /\ \A f \in Callers : e \in mine'[f] => f = d
      <3>1. CASE e = id
        <4>1. \A f \in Callers \ {c} : e \notin mine'[f]
          BY <1>d, <2>1, <3>1
        <4>2. d = c /\ id \in new /\ id \notin mine[c]
          BY <1>e, <2>1, <2>4, <3>1, <4>1
        <4> QED
          BY <2>2, <3>1, <4>1, <4>2
      <3>2. CASE e # id
        <4>1. \A f \in Callers : e \in mine'[f] => e \in mine[f]
          BY <1>d, <1>e, <2>3, <3>2
        <4> QED
          BY <2>1, <2>4, <4>1 DEF LifeInv, MineLive
      <3> QED
        BY <3>1, <3>2
    <2> QED
      BY <2>4 DEF MineLive
  <1>19. AliasTrue' /\ AliasSlots'
    <2>1. \A b \in Actors : /\ pc'[b] = "clear" <=> pc[b] = "clear"
                            /\ pc[b] = "clear" => at'[b] = at[b]
      BY <1>2, <1>6, <1>c
    <2> QED
      BY <1>2, <1>f, <2>1, AliasesKept
  <1>20. FreedOnce'
    BY <1>2 DEF LifeInv, FreedOnce
  <1> QED
    BY <1>10, <1>11, <1>12, <1>13, <1>14, <1>15, <1>16, <1>17, <1>18, <1>19,
       <1>20 DEF LifeInv

LEMMA InitialiseKeeps ==
  ASSUME LifeInv, Disciplined, DetachedStarts, NEW i \in Tids,
         Initialise(i)
  PROVE  LifeInv'
  <1> USE ActorKinds
  <1> DEFINE s == at[i]
  <1>1. Typed /\ i \in Actors /\ at[i] \in Slots /\ info[at[i]] \in Info
    BY DEF LifeInv, Typed
  <1>2. /\ info'[s].detached = info[s].detached
        /\ info'[s].tid = info[s].tid
        /\ info'[s].name = info[s].name
        /\ Elsewhere(s)
        /\ Others(i)
        /\ pc[i] = "init"
        /\ \/ /\ info'[s].status = "RUNNING" /\ pc'[i] = "run"
              /\ UNCHANGED <<os, at>>
           \/ info'[s].status = "NOMEM" /\ Ended(i)
        /\ info' = [info EXCEPT ![s] = [info[at[i]] EXCEPT !.status = info'[s].status]]
        /\ UNCHANGED <<call, opt, want, aliases, again, mine>>
    <2>1. EndThread(i) => Ended(i)
      BY <1>1, EndThreadEffect
    <2> QED
      BY <1>1, <2>1 DEF Typed, Info, Initialise, Goto, EndThread, callVars,
         Elsewhere,
         Others
  <1>3. Typed'
    <2>0. [info[at[i]] EXCEPT !.status = info'[s].status] \in Info
      BY <1>1, <1>2, InfoFields, OptFields DEF Alive, Final
    <2>1. info' \in [Slots -> Info]
      BY <1>1, <2>0 DEF Typed, Initialise, Goto, EndThread, callVars, Alive,
         Final
    <2>2. os' \in [Tids -> OsThread]
      BY <1>1, EndThreadEffect DEF Typed, Initialise
    <2> QED
      BY <1>1, <2>1, <2>2 DEF Typed, Initialise, Goto, EndThread, callVars,
         PCs, CreatePCs, FreePCs, NoOption
  <1>p. Running(i)
    BY ThreadAlone DEF Initialise
  <1>4. SlotRecords'
    BY <1>1, <1>2, <1>p, SlotsKept DEF Running, Ended
  <1>5. ThreadSlots'
    <2>1. ASSUME NEW j \in Tids \ {i}
          PROVE  ThreadAt(j)'
      <3>1. ThreadAt(j)
        BY DEF LifeInv, ThreadSlots
      <3>2. \A r \in Slots : /\ info'[r].tid = info[r].tid
                             /\ info'[r].detached = info[r].detached
                             /\ info'[r].tid = j => info'[r] = info[r]
        BY <1>1, <1>2, <1>p DEF Elsewhere, Running
      <3>3. /\ pc'[j] = pc[j] /\ at'[j] = at[j] /\ at[j] \in Slots
            /\ os'[j].state = os[j].state
        BY <1>1, <1>2 DEF Others, Ended, Typed
      <3> QED
        BY <3>1, <3>2, <3>3 DEF ThreadAt
    <2>2. ThreadAt(i)'
      <3>1. ThreadAt(i)
        BY DEF LifeInv, ThreadSlots
      <3>2. os[i].state = "run" /\ at[i] \in Slots
        BY <1>1, <1>2, <3>1 DEF ThreadAt
      <3>3. /\ info'[s].tid = i
            /\ \A r \in Slots : info'[r].tid = i => r = s
        BY <1>1, <1>2, <1>p DEF Elsewhere, Running
      <3>4. CASE /\ info'[s].status = "RUNNING" /\ pc'[i] = "run"
                 /\ UNCHANGED <<os, at>>
        BY <3>2, <3>3, <3>4 DEF ThreadAt
      <3>5. CASE info'[s].status = "NOMEM" /\ Ended(i)
        <4>1. pc'[i] = "idle" /\ os'[i].state \in {"gone", "zombie"}
          BY <3>5 DEF Ended
        <4>2. \A r \in Slots : info'[r].tid = i => info'[r].status \in Final
          BY <3>3, <3>5 DEF Final
        <4> QED
          BY <4>1, <4>2 DEF ThreadAt
      <3> QED
        BY <1>2, <3>4, <3>5
    <2> QED
      BY <2>1, <2>2 DEF ThreadSlots
  <1>6. CallAt'
    BY <1>1, <1>2, <1>p DEF LifeInv, Typed, CallAt, CreatePCs, FreePCs, CallOf,
       Others, Elsewhere, Running, Ended
  <1>7. CreatorSlots'
    <2>1. ASSUME NEW d \in Callers
          PROVE  CreatorAt(d)'
      <3>1. CreatorAt(d)
        BY DEF LifeInv, CreatorSlots
      <3> QED
        BY <1>1, <1>2, <1>p, <3>1 DEF Typed, CreatorAt, CreatePCs, FreePCs,
           Creating, Others, Elsewhere, Running, Ended
    <2> QED
      BY <2>1 DEF CreatorSlots
  <1>8. Exclusive'
    BY <1>1, <1>2, <1>p DEF LifeInv, Typed, Exclusive, Others, Elsewhere,
       Running, Ended
  <1>9. JoinerSlots'
    <2>1. ASSUME NEW d \in Callers
          PROVE  JoinerAt(d)'
      <3>1. JoinerAt(d)
        BY DEF LifeInv, JoinerSlots
      <3> QED
        BY <1>1, <1>2, <1>p, <3>1 DEF Typed, JoinerAt, CreatePCs, FreePCs,
           Others, Elsewhere, Running, Ended
    <2> QED
      BY <2>1 DEF JoinerSlots
  <1>10. WaitsFor'
    BY <1>1, <1>2, <1>p DEF LifeInv, Typed, WaitsFor, ThreadSlots, ThreadAt,
       Others, Elsewhere, Running, Ended
  <1>11. MineLive'
    <2>1. ASSUME NEW d \in Callers, NEW e \in mine'[d]
          PROVE  e \in mine[d] /\ MineSame(e)
      <3>1. e \in mine[d]
        BY <1>1, <1>2, <1>p, <2>1 DEF Others
      <3>2. Unjoined(e)
        BY <3>1, MineFacts
      <3> DEFINE r == SlotOf(e)
                 j == info[r].tid
      <3>3. \A f \in Callers : pc'[f] # "idle" => at'[f] # r
        BY <1>1, <1>2, <3>2 DEF Others, Unjoined
      <3>4. /\ info'[r].tid = j /\ info'[r].name = info[r].name
            /\ ~info'[r].detached
        BY <1>2, <3>2 DEF Elsewhere, Unjoined
      <3>5. /\ os'[j].joiner = os[j].joiner /\ os'[j].daemon = os[j].daemon
            /\ os'[j].detached = os[j].detached /\ os'[j].state # "gone"
        BY <1>1, <1>2, <3>2 DEF Ended, Unjoined
      <3> QED
        BY <1>2, <3>1, <3>3, <3>4, <3>5 DEF MineSame
    <2> QED
      BY <1>1, <1>2, <1>p, <2>1, MineKept
  <1>12. AliasTrue' /\ AliasSlots'
    BY <1>1, <1>2, AliasesKept DEF Others, Elsewhere, Ended
  <1>13. FreedOnce'
    BY <1>1, <1>2, <1>p DEF LifeInv, Typed, FreedOnce, Others, Elsewhere,
       Running, Ended
  <1> QED
    BY <1>3, <1>4, <1>5, <1>6, <1>7, <1>8, <1>9, <1>10, <1>11, <1>12, <1>13 DEF
       LifeInv

LEMMA FinishKeeps ==
  ASSUME LifeInv, Disciplined, DetachedStarts, NEW i \in Tids,
         Finish(i)
  PROVE  LifeInv'
  <1> USE ActorKinds
  <1> DEFINE s == at[i]
  <1>1. Typed /\ i \in Actors /\ at[i] \in Slots /\ info[at[i]] \in Info
    BY DEF LifeInv, Typed
  <1>2. /\ info'[s].detached = info[s].detached
        /\ info'[s].tid = info[s].tid
        /\ info'[s].name = info[s].name
        /\ Elsewhere(s)
        /\ Others(i)
        /\ pc[i] = "run"
        /\ pc'[i] = "hooks"
        /\ info'[s].status \in Final
        /\ info' = [info EXCEPT ![s] = [info[at[i]] EXCEPT !.status = info'[s].status]]
        /\ UNCHANGED <<at, os, call, opt, want, aliases, again, mine>>
    BY <1>1, ThreadAssumption DEF Typed, Info, Final, Finish, Goto, callVars,
       Elsewhere, Others
  <1>3. Typed'
    <2>0. [info[at[i]] EXCEPT !.status = info'[s].status] \in Info
      BY <1>1, <1>2, InfoFields, OptFields DEF Alive, Final
    <2>1. info' \in [Slots -> Info]
      BY <1>1, <2>0 DEF Typed, Finish, Goto, callVars, Alive, Final
    <2>2. os' \in [Tids -> OsThread]
      BY <1>1, <1>2 DEF Typed
    <2> QED
      BY <1>1, <2>1, <2>2 DEF Typed, Finish, Goto, callVars, PCs, CreatePCs,
         FreePCs, NoOption
  <1>p. Running(i)
    BY ThreadAlone DEF Finish
  <1>4. SlotRecords'
    BY <1>1, <1>2, <1>p, SlotsKept DEF Final, Running
  <1>5. ThreadSlots'
    <2>1. ASSUME NEW j \in Tids \ {i}
          PROVE  ThreadAt(j)'
      <3>1. ThreadAt(j)
        BY DEF LifeInv, ThreadSlots
      <3> QED
        BY <1>1, <1>2, <1>p, <3>1 DEF Typed, ThreadAt, Final, Others,
           Elsewhere, Running
    <2>2. ThreadAt(i)'
      <3>1. ThreadAt(i)
        BY DEF LifeInv, ThreadSlots
      <3> QED
        BY <1>1, <1>2, <1>p, <3>1 DEF Typed, ThreadAt, Final, Others,
           Elsewhere, Running
    <2> QED
      BY <2>1, <2>2 DEF ThreadSlots
  <1>6. CallAt'
    BY <1>1, <1>2, <1>p DEF LifeInv, Typed, CallAt, CreatePCs, FreePCs, CallOf,
       Others, Elsewhere, Running
  <1>7. CreatorSlots'
    <2>1. ASSUME NEW d \in Callers
          PROVE  CreatorAt(d)'
      <3>1. CreatorAt(d)
        BY DEF LifeInv, CreatorSlots
      <3> QED
        BY <1>1, <1>2, <1>p, <3>1 DEF Typed, CreatorAt, CreatePCs, FreePCs,
           Creating, Others, Elsewhere, Running
    <2> QED
      BY <2>1 DEF CreatorSlots
  <1>8. Exclusive'
    BY <1>1, <1>2, <1>p DEF LifeInv, Typed, Exclusive, Others, Elsewhere,
       Running
  <1>9. JoinerSlots'
    <2>1. ASSUME NEW d \in Callers
          PROVE  JoinerAt(d)'
      <3>1. JoinerAt(d)
        BY DEF LifeInv, JoinerSlots
      <3> QED
        BY <1>1, <1>2, <1>p, <3>1 DEF Typed, JoinerAt, CreatePCs, FreePCs,
           Others, Elsewhere, Running
    <2> QED
      BY <2>1 DEF JoinerSlots
  <1>10. WaitsFor'
    BY <1>1, <1>2, <1>p DEF LifeInv, Typed, WaitsFor, Others, Elsewhere, Running
  <1>11. MineLive'
    <2>1. ASSUME NEW d \in Callers, NEW e \in mine'[d]
          PROVE  e \in mine[d] /\ MineSame(e)
      <3>1. e \in mine[d]
        BY <1>1, <1>2, <1>p, <2>1 DEF Others
      <3> QED
        BY <1>1, <1>2, <1>p, <3>1, MineFacts DEF MineSame, Unjoined, Typed,
           Others, Elsewhere, Running
    <2> QED
      BY <1>1, <1>2, <1>p, <2>1, MineKept
  <1>12. AliasTrue' /\ AliasSlots'
    BY <1>1, <1>2, AliasesKept DEF Others, Elsewhere
  <1>13. FreedOnce'
    BY <1>1, <1>2, <1>p DEF LifeInv, Typed, FreedOnce, Others, Elsewhere,
       Running
  <1> QED
    BY <1>3, <1>4, <1>5, <1>6, <1>7, <1>8, <1>9, <1>10, <1>11, <1>12, <1>13 DEF
       LifeInv

LEMMA RunHooksKeeps ==
  ASSUME LifeInv, Disciplined, DetachedStarts, NEW i \in Tids,
         RunHooks(i)
  PROVE  LifeInv'
  <1> USE ActorKinds
  <1>1. Typed /\ i \in Actors /\ at[i] \in Slots /\ info[at[i]] \in Info
    BY DEF LifeInv, Typed
  <1>2. /\ Others(i)
        /\ pc[i] = "hooks"
        /\ pc'[i] = "free_data"
        /\ UNCHANGED <<info, at, os, call, opt, want, aliases, again, mine>>
    BY <1>1 DEF Typed, Info, RunHooks, Goto, slotVars, callVars, Others
  <1>3. Typed'
    <2>1. info' \in [Slots -> Info]
      BY <1>1, <1>2 DEF Typed
    <2>2. os' \in [Tids -> OsThread]
      BY <1>1, <1>2 DEF Typed
    <2> QED
      BY <1>1, <2>1, <2>2 DEF Typed, RunHooks, Goto, slotVars, callVars, PCs,
         CreatePCs, FreePCs, NoOption
  <1>4. SlotRecords'
    BY <1>1, <1>2 DEF LifeInv, SlotRecords
  <1>5. ThreadSlots'
    <2>1. ASSUME NEW j \in Tids \ {i}
          PROVE  ThreadAt(j)'
      <3>1. ThreadAt(j)
        BY DEF LifeInv, ThreadSlots
      <3> QED
        BY <1>1, <1>2, <3>1 DEF Typed, ThreadAt, Final, Others, Elsewhere
    <2>2. ThreadAt(i)'
      <3>1. ThreadAt(i)
        BY DEF LifeInv, ThreadSlots
      <3> QED
        BY <1>1, <1>2, <3>1 DEF Typed, ThreadAt, Final, Others, Elsewhere
    <2> QED
      BY <2>1, <2>2 DEF ThreadSlots
  <1>6. CallAt'
    BY <1>1, <1>2 DEF LifeInv, Typed, CallAt, CreatePCs, FreePCs, CallOf,
       Others, Elsewhere
  <1>7. CreatorSlots'
    <2>1. ASSUME NEW d \in Callers
          PROVE  CreatorAt(d)'
      <3>1. CreatorAt(d)
        BY DEF LifeInv, CreatorSlots
      <3> QED
        BY <1>1, <1>2, <3>1 DEF Typed, CreatorAt, CreatePCs, FreePCs, Creating,
           Others, Elsewhere
    <2> QED
      BY <2>1 DEF CreatorSlots
  <1>8. Exclusive'
    BY <1>1, <1>2 DEF LifeInv, Typed, Exclusive, Others, Elsewhere
  <1>9. JoinerSlots'
    <2>1. ASSUME NEW d \in Callers
          PROVE  JoinerAt(d)'
      <3>1. JoinerAt(d)
        BY DEF LifeInv, JoinerSlots
      <3> QED
        BY <1>1, <1>2, <3>1 DEF Typed, JoinerAt, CreatePCs, FreePCs, Others,
           Elsewhere
    <2> QED
      BY <2>1 DEF JoinerSlots
  <1>10. WaitsFor'
    BY <1>1, <1>2 DEF LifeInv, Typed, WaitsFor, Others, Elsewhere
  <1>11. MineLive'
    <2>1. ASSUME NEW d \in Callers, NEW e \in mine'[d]
          PROVE  e \in mine[d] /\ MineSame(e)
      <3>1. e \in mine[d]
        BY <1>1, <1>2, <2>1 DEF Others
      <3> QED
        BY <1>1, <1>2, <3>1, MineFacts DEF MineSame, Unjoined, Typed, Others,
           Elsewhere
    <2> QED
      BY <1>1, <1>2, <2>1, MineKept
  <1>12. AliasTrue' /\ AliasSlots'
    BY <1>1, <1>2, AliasesKept DEF Others, Elsewhere
  <1>13. FreedOnce'
    BY <1>1, <1>2 DEF LifeInv, Typed, FreedOnce, Others, Elsewhere
  <1> QED
    BY <1>3, <1>4, <1>5, <1>6, <1>7, <1>8, <1>9, <1>10, <1>11, <1>12, <1>13 DEF
       LifeInv

LEMMA FreeInfoKeeps ==
  ASSUME LifeInv, Disciplined, DetachedStarts, NEW c \in Callers,
         FreeInfo(c)
  PROVE  LifeInv'
  <1> USE ActorKinds
  <1>1. Typed /\ c \in Actors /\ at[c] \in Slots /\ info[at[c]] \in Info
    BY DEF LifeInv, Typed
  <1>2. /\ Others(c)
        /\ pc[c] \in {"free", "joined"}
        /\ pc'[c] \in {"free_data", "unalias"}
        /\ UNCHANGED <<info, at, os, call, opt, want, aliases, again, mine>>
    BY <1>1 DEF Typed, Info, FreeInfo, Goto, slotVars, callVars, Others
  <1>3. Typed'
    <2>1. info' \in [Slots -> Info]
      BY <1>1, <1>2 DEF Typed
    <2>2. os' \in [Tids -> OsThread]
      BY <1>1, <1>2 DEF Typed
    <2> QED
      BY <1>1, <2>1, <2>2 DEF Typed, FreeInfo, Goto, slotVars, callVars, PCs,
         CreatePCs, FreePCs, NoOption
  <1>p. Private(c)
    BY CallerPrivate DEF FreeInfo, CreatePCs, FreePCs
  <1>4. SlotRecords'
    BY <1>1, <1>2, <1>p DEF LifeInv, SlotRecords
  <1>5. ThreadSlots'
    <2>1. ASSUME NEW j \in Tids
          PROVE  ThreadAt(j)'
      <3>1. ThreadAt(j)
        BY DEF LifeInv, ThreadSlots
      <3> QED
        BY <1>1, <1>2, <1>p, <3>1 DEF Typed, ThreadAt, Final, Others,
           Elsewhere, Private
    <2> QED
      BY <2>1 DEF ThreadSlots
  <1>6. CallAt'
    BY <1>1, <1>2, <1>p DEF LifeInv, Typed, CallAt, CreatePCs, FreePCs, CallOf,
       Others, Elsewhere, Private
  <1>7. CreatorSlots'
    <2>1. ASSUME NEW d \in Callers \ {c}
          PROVE  CreatorAt(d)'
      <3>1. CreatorAt(d)
        BY DEF LifeInv, CreatorSlots
      <3> QED
        BY <1>1, <1>2, <1>p, <3>1 DEF Typed, CreatorAt, CreatePCs, FreePCs,
           Creating, Others, Elsewhere, Private
    <2>2. CreatorAt(c)'
      <3>1. CreatorAt(c) /\ CallOf(c)
        BY DEF LifeInv, CreatorSlots, CallAt
      <3> QED
        BY <1>1, <1>2, <1>p, <3>1 DEF Typed, CreatorAt, CreatePCs, FreePCs,
           Creating, Others, Elsewhere, Private, CallOf
    <2> QED
      BY <2>1, <2>2 DEF CreatorSlots
  <1>8. Exclusive'
    BY <1>1, <1>2, <1>p DEF LifeInv, Typed, Exclusive, Others, Elsewhere,
       Private
  <1>9. JoinerSlots'
    <2>1. ASSUME NEW d \in Callers \ {c}
          PROVE  JoinerAt(d)'
      <3>1. JoinerAt(d)
        BY DEF LifeInv, JoinerSlots
      <3> QED
        BY <1>1, <1>2, <1>p, <3>1 DEF Typed, JoinerAt, CreatePCs, FreePCs,
           Others, Elsewhere, Private
    <2>2. JoinerAt(c)'
      <3>1. JoinerAt(c) /\ CallOf(c)
        BY DEF LifeInv, JoinerSlots, CallAt
      <3> QED
        BY <1>1, <1>2, <1>p, <3>1 DEF Typed, JoinerAt, CreatePCs, FreePCs,
           Others, Elsewhere, Private, CallOf
    <2> QED
      BY <2>1, <2>2 DEF JoinerSlots
  <1>10. WaitsFor'
    BY <1>1, <1>2, <1>p DEF LifeInv, Typed, WaitsFor, Others, Elsewhere, Private
  <1>11. MineLive'
    <2>1. ASSUME NEW d \in Callers, NEW e \in mine'[d]
          PROVE  e \in mine[d] /\ MineSame(e)
      <3>1. e \in mine[d]
        BY <1>1, <1>2, <1>p, <2>1 DEF Others
      <3> QED
        BY <1>1, <1>2, <1>p, <3>1, MineFacts DEF MineSame, Unjoined, Typed,
           Others, Elsewhere, Private
    <2> QED
      BY <1>1, <1>2, <1>p, <2>1, MineKept
  <1>12. AliasTrue' /\ AliasSlots'
    BY <1>1, <1>2, AliasesKept DEF Others, Elsewhere
  <1>13. FreedOnce'
    BY <1>1, <1>2, <1>p DEF LifeInv, Typed, FreedOnce, Others, Elsewhere,
       Private
  <1> QED
    BY <1>3, <1>4, <1>5, <1>6, <1>7, <1>8, <1>9, <1>10, <1>11, <1>12, <1>13 DEF
       LifeInv

LEMMA FreeDataKeeps ==
  ASSUME LifeInv, Disciplined, DetachedStarts, NEW a \in Actors,
         FreeData(a)
  PROVE  LifeInv'
  <1> USE ActorKinds
  <1> DEFINE s == at[a]
  <1>1. Typed /\ a \in Actors /\ at[a] \in Slots /\ info[at[a]] \in Info
    BY DEF LifeInv, Typed
  <1>2. /\ info'[s].status = info[s].status
        /\ info'[s].detached = info[s].detached
        /\ info'[s].tid = info[s].tid
        /\ info'[s].name = info[s].name
        /\ Elsewhere(s)
        /\ Others(a)
        /\ pc[a] = "free_data"
        /\ pc'[a] = "free_detached"
        /\ UNCHANGED <<at, os, call, opt, want, aliases, again, mine>>
    BY <1>1 DEF Typed, Info, FreeData, Goto, callVars, Elsewhere, Others
  <1>3. Typed'
    <2>1. info' \in [Slots -> Info]
      BY <1>1, InfoFields, OptFields DEF Typed, FreeData, Goto, callVars,
         Alive, Final
    <2>2. os' \in [Tids -> OsThread]
      BY <1>1, <1>2 DEF Typed
    <2> QED
      BY <1>1, <2>1, <2>2 DEF Typed, FreeData, Goto, callVars, PCs, CreatePCs,
         FreePCs, NoOption
  <1>4. SlotRecords'
    BY <1>1, <1>2, SlotsKept
  <1>5. ThreadSlots'
    <2>1. ASSUME NEW j \in Tids \ {a}
          PROVE  ThreadAt(j)'
      <3>1. ThreadAt(j)
        BY DEF LifeInv, ThreadSlots
      <3> QED
        BY <1>1, <1>2, <3>1 DEF Typed, ThreadAt, Final, Others, Elsewhere
    <2>2. ASSUME a \in Tids
          PROVE  ThreadAt(a)'
      <3>1. ThreadAt(a)
        BY <2>2 DEF LifeInv, ThreadSlots
      <3> QED
        BY <1>1, <1>2, <3>1, <2>2 DEF Typed, ThreadAt, Final, Others, Elsewhere
    <2> QED
      BY <2>1, <2>2 DEF ThreadSlots
  <1>6. CallAt'
    BY <1>1, <1>2 DEF LifeInv, Typed, CallAt, CreatePCs, FreePCs, CallOf,
       Others, Elsewhere
  <1>7. CreatorSlots'
    <2>1. ASSUME NEW d \in Callers \ {a}
          PROVE  CreatorAt(d)'
      <3>1. CreatorAt(d)
        BY DEF LifeInv, CreatorSlots
      <3> QED
        BY <1>1, <1>2, <3>1 DEF Typed, CreatorAt, CreatePCs, FreePCs, Creating,
           Others, Elsewhere
    <2>2. ASSUME a \in Callers
          PROVE  CreatorAt(a)'
      <3>1. CreatorAt(a) /\ CallOf(a)
        BY <2>2 DEF LifeInv, CreatorSlots, CallAt
      <3> QED
        BY <1>1, <1>2, <3>1, <2>2 DEF Typed, CreatorAt, CreatePCs, FreePCs,
           Creating, Others, Elsewhere, CallOf
    <2> QED
      BY <2>1, <2>2 DEF CreatorSlots
  <1>8. Exclusive'
    BY <1>1, <1>2 DEF LifeInv, Typed, Exclusive, Others, Elsewhere
  <1>9. JoinerSlots'
    <2>1. ASSUME NEW d \in Callers \ {a}
          PROVE  JoinerAt(d)'
      <3>1. JoinerAt(d)
        BY DEF LifeInv, JoinerSlots
      <3> QED
        BY <1>1, <1>2, <3>1 DEF Typed, JoinerAt, CreatePCs, FreePCs, Others,
           Elsewhere
    <2>2. ASSUME a \in Callers
          PROVE  JoinerAt(a)'
      <3>1. JoinerAt(a) /\ CallOf(a)
        BY <2>2 DEF LifeInv, JoinerSlots, CallAt
      <3> QED
        BY <1>1, <1>2, <3>1, <2>2 DEF Typed, JoinerAt, CreatePCs, FreePCs,
           Others, Elsewhere, CallOf
    <2> QED
      BY <2>1, <2>2 DEF JoinerSlots
  <1>10. WaitsFor'
    BY <1>1, <1>2 DEF LifeInv, Typed, WaitsFor, Others, Elsewhere
  <1>11. MineLive'
    <2>1. ASSUME NEW d \in Callers, NEW e \in mine'[d]
          PROVE  e \in mine[d] /\ MineSame(e)
      <3>1. e \in mine[d]
        BY <1>1, <1>2, <2>1 DEF Others
      <3> QED
        BY <1>1, <1>2, <3>1, MineFacts DEF MineSame, Unjoined, Typed, Others,
           Elsewhere
    <2> QED
      BY <1>1, <1>2, <2>1, MineKept
  <1>12. AliasTrue' /\ AliasSlots'
    BY <1>1, <1>2, AliasesKept DEF Others, Elsewhere
  <1>13. FreedOnce'
    BY <1>1, <1>2 DEF LifeInv, Typed, FreedOnce, Others, Elsewhere
  <1> QED
    BY <1>3, <1>4, <1>5, <1>6, <1>7, <1>8, <1>9, <1>10, <1>11, <1>12, <1>13 DEF
       LifeInv

LEMMA FreeDetachedKeeps ==
  ASSUME LifeInv, Disciplined, DetachedStarts, NEW a \in Actors,
         FreeDetached(a)
  PROVE  LifeInv'
  <1> USE ActorKinds
  <1> DEFINE s == at[a]
  <1>1. Typed /\ a \in Actors /\ at[a] \in Slots /\ info[at[a]] \in Info
    BY DEF LifeInv, Typed
  <1>2. /\ Others(a)
        /\ pc[a] = "free_detached"
        /\ \/ a \in Tids /\ ~info[s].detached /\ Ended(a)
           \/ /\ a \in Callers \/ info[s].detached
              /\ pc'[a] = "unalias" /\ os' = os /\ at' = at
        /\ again'[a] => a \in Callers /\ info[s].detached
        /\ \A b \in Actors \ {a} : again'[b] = again[b]
        /\ UNCHANGED <<info, call, opt, want, aliases, mine>>
    <2>1. a \in Tids /\ EndThread(a) => Ended(a)
      BY <1>1, EndThreadEffect
    <2> DEFINE v == a \in Callers /\ info[s].detached
    <2>2. again' = [again EXCEPT ![a] = v]
      BY DEF FreeDetached
    <2>3. again'[a] = v /\ \A b \in Actors \ {a} : again'[b] = again[b]
      <3> HIDE DEF v
      <3> QED
        BY <1>1, <2>2 DEF Typed
    <2>4. again'[a] => a \in Callers /\ info[s].detached
      BY <2>3
    <2>5. \/ a \in Tids /\ ~info[s].detached /\ EndThread(a)
          \/ /\ a \in Callers \/ info[s].detached
             /\ Goto(a, "unalias") /\ os' = os /\ at' = at
      BY DEF FreeDetached, Actors
    <2>6. \/ a \in Tids /\ ~info[s].detached /\ Ended(a)
          \/ /\ a \in Callers \/ info[s].detached
             /\ pc'[a] = "unalias" /\ os' = os /\ at' = at
      BY <1>1, <2>1, <2>5 DEF Typed, Goto
    <2>7. UNCHANGED <<info, call, opt, want, aliases, mine>>
      BY DEF FreeDetached, slotVars, callVars
    <2>8. Others(a)
      BY <1>1, <2>5, <2>7 DEF Typed, EndThread, Goto, Others
    <2> QED
      BY <2>3, <2>4, <2>6, <2>7, <2>8 DEF FreeDetached
  <1>3. Typed'
    <2>1. os' \in [Tids -> OsThread]
      BY <1>1, EndThreadEffect DEF Typed, FreeDetached
    <2>2. again' \in [Actors -> BOOLEAN]
      <3> DEFINE v == a \in Callers /\ info[at[a]].detached
      <3>1. v \in BOOLEAN
        OBVIOUS
      <3>2. again' = [again EXCEPT ![a] = v]
        BY DEF FreeDetached
      <3> HIDE DEF v
      <3> QED
        BY <1>1, <3>1, <3>2 DEF Typed
    <2>3. pc' \in [Actors -> PCs] /\ at' \in [Actors -> Slots]
      BY <1>1 DEF Typed, FreeDetached, EndThread, Goto, PCs, FreePCs
    <2> QED
      BY <1>1, <1>2, <2>1, <2>2, <2>3 DEF Typed
  <1>p. (a \in Tids => Running(a)) /\ (a \in Callers => Private(a))
    BY <1>2, ThreadAlone, CallerPrivate DEF FreePCs
  <1>4. SlotRecords'
    <2>1. \A j \in Tids : os[j].state # "none" => os'[j].state # "none"
      BY <1>1, <1>2 DEF Ended
    <2> QED
      BY <1>1, <1>2, <2>1, SlotsKept DEF Elsewhere
  <1>5. ThreadSlots'
    <2>1. ASSUME NEW j \in Tids \ {a}
          PROVE  ThreadAt(j)'
      <3>1. ThreadAt(j)
        BY DEF LifeInv, ThreadSlots
      <3> QED
        BY <1>1, <1>2, <1>p, <3>1 DEF Typed, ThreadAt, Final, Others,
           Elsewhere, Running, Private, Ended
    <2>2. ASSUME a \in Tids
          PROVE  ThreadAt(a)'
      <3>1. ThreadAt(a)
        BY <2>2 DEF LifeInv, ThreadSlots
      <3> QED
        BY <1>1, <1>2, <1>p, <3>1, <2>2 DEF Typed, ThreadAt, Final, Others,
           Elsewhere, Running, Private, Ended
    <2> QED
      BY <2>1, <2>2 DEF ThreadSlots
  <1>6. CallAt'
    BY <1>1, <1>2, <1>p DEF LifeInv, Typed, CallAt, CreatePCs, FreePCs, CallOf,
       Others, Elsewhere, Running, Private, Ended
  <1>7. CreatorSlots'
    <2>1. ASSUME NEW d \in Callers \ {a}
          PROVE  CreatorAt(d)'
      <3>1. CreatorAt(d)
        BY DEF LifeInv, CreatorSlots
      <3> QED
        BY <1>1, <1>2, <1>p, <3>1 DEF Typed, CreatorAt, CreatePCs, FreePCs,
           Creating, Others, Elsewhere, Running, Private, Ended
    <2>2. ASSUME a \in Callers
          PROVE  CreatorAt(a)'
      <3>1. CreatorAt(a) /\ CallOf(a)
        BY <2>2 DEF LifeInv, CreatorSlots, CallAt
      <3> QED
        BY <1>1, <1>2, <1>p, <3>1, <2>2 DEF Typed, CreatorAt, CreatePCs,
           FreePCs, Creating, Others, Elsewhere, Running, Private, Ended, CallOf
    <2> QED
      BY <2>1, <2>2 DEF CreatorSlots
  <1>8. Exclusive'
    BY <1>1, <1>2, <1>p DEF LifeInv, Typed, Exclusive, Others, Elsewhere,
       Running, Private, Ended
  <1>9. JoinerSlots'
    <2>1. ASSUME NEW d \in Callers \ {a}
          PROVE  JoinerAt(d)'
      <3>1. JoinerAt(d)
        BY DEF LifeInv, JoinerSlots
      <3> QED
        BY <1>1, <1>2, <1>p, <3>1 DEF Typed, JoinerAt, CreatePCs, FreePCs,
           Others, Elsewhere, Running, Private, Ended
    <2>2. ASSUME a \in Callers
          PROVE  JoinerAt(a)'
      <3>1. JoinerAt(a) /\ CallOf(a)
        BY <2>2 DEF LifeInv, JoinerSlots, CallAt
      <3> QED
        BY <1>1, <1>2, <1>p, <3>1, <2>2 DEF Typed, JoinerAt, CreatePCs,
           FreePCs, Others, Elsewhere, Running, Private, Ended, CallOf
    <2> QED
      BY <2>1, <2>2 DEF JoinerSlots
  <1>10. WaitsFor'
    BY <1>1, <1>2, <1>p DEF LifeInv, Typed, WaitsFor, ThreadSlots, ThreadAt,
       Others, Elsewhere, Running, Private, Ended
  <1>11. MineLive'
    <2>1. ASSUME NEW d \in Callers, NEW e \in mine'[d]
          PROVE  e \in mine[d] /\ MineSame(e)
      <3>1. e \in mine[d]
        BY <1>1, <1>2, <1>p, <2>1 DEF Others
      <3> QED
        BY <1>1, <1>2, <1>p, <3>1, MineFacts DEF MineSame, Unjoined, Typed,
           Others, Elsewhere, Running, Private, Ended
    <2> QED
      BY <1>1, <1>2, <1>p, <2>1, MineKept
  <1>12. AliasTrue' /\ AliasSlots'
    BY <1>1, <1>2, AliasesKept DEF Others, Elsewhere, Ended
  <1>13. FreedOnce'
    <2>1. \A b \in Actors \ {a} : ~again'[b]
      BY <1>2 DEF LifeInv, FreedOnce
    <2>2. CASE a \in Tids
      BY <1>2, <2>1, <2>2 DEF FreedOnce
    <2>3. CASE a \in Callers
      <3>1. CreatorAt(a) /\ JoinerAt(a) /\ CallOf(a)
        BY <2>3 DEF LifeInv, CreatorSlots, JoinerSlots, CallAt
      <3>2. ~info[s].detached
        BY <1>2, <3>1 DEF CreatorAt, Creating, JoinerAt, CallOf, CreatePCs,
           FreePCs
      <3> QED
        BY <1>2, <2>1, <3>2 DEF FreedOnce
    <2> QED
      BY <2>2, <2>3 DEF Actors
  <1> QED
    BY <1>3, <1>4, <1>5, <1>6, <1>7, <1>8, <1>9, <1>10, <1>11, <1>12, <1>13 DEF
       LifeInv

LEMMA UnaliasKeeps ==
  ASSUME LifeInv, Disciplined, DetachedStarts, NEW a \in Actors,
         Unalias(a)
  PROVE  LifeInv'
  <1> USE ActorKinds
  <1> DEFINE s == at[a]
  <1>1. Typed /\ a \in Actors /\ at[a] \in Slots /\ info[at[a]] \in Info
    BY DEF LifeInv, Typed
  <1>2. /\ Others(a)
        /\ pc[a] = "unalias"
        /\ pc'[a] = "clear"
        /\ \A n \in Names : aliases'[n] =
             IF n = info[s].name THEN NoSlot ELSE aliases[n]
        /\ UNCHANGED <<info, at, os, call, opt, want, again, mine>>
    BY <1>1 DEF Typed, Info, Unalias, Goto, callVars, Others
  <1>3. Typed'
    <2>1. info' \in [Slots -> Info]
      BY <1>1, <1>2 DEF Typed
    <2>2. os' \in [Tids -> OsThread]
      BY <1>1, <1>2 DEF Typed
    <2> QED
      BY <1>1, <2>1, <2>2 DEF Typed, Unalias, Goto, callVars, PCs, CreatePCs,
         FreePCs, NoOption
  <1>p. Private(a)
    BY FreePrivate DEF Unalias
  <1>4. SlotRecords'
    BY <1>1, <1>2, <1>p DEF LifeInv, SlotRecords
  <1>5. ThreadSlots'
    <2>1. ASSUME NEW j \in Tids \ {a}
          PROVE  ThreadAt(j)'
      <3>1. ThreadAt(j)
        BY DEF LifeInv, ThreadSlots
      <3> QED
        BY <1>1, <1>2, <1>p, <3>1 DEF Typed, ThreadAt, Final, Others,
           Elsewhere, Private
    <2>2. ASSUME a \in Tids
          PROVE  ThreadAt(a)'
      <3>1. ThreadAt(a)
        BY <2>2 DEF LifeInv, ThreadSlots
      <3> QED
        BY <1>1, <1>2, <1>p, <3>1, <2>2 DEF Typed, ThreadAt, Final, Others,
           Elsewhere, Private
    <2> QED
      BY <2>1, <2>2 DEF ThreadSlots
  <1>6. CallAt'
    BY <1>1, <1>2, <1>p DEF LifeInv, Typed, CallAt, CreatePCs, FreePCs, CallOf,
       Others, Elsewhere, Private
  <1>7. CreatorSlots'
    <2>1. ASSUME NEW d \in Callers \ {a}
          PROVE  CreatorAt(d)'
      <3>1. CreatorAt(d)
        BY DEF LifeInv, CreatorSlots
      <3> QED
        BY <1>1, <1>2, <1>p, <3>1 DEF Typed, CreatorAt, CreatePCs, FreePCs,
           Creating, Others, Elsewhere, Private
    <2>2. ASSUME a \in Callers
          PROVE  CreatorAt(a)'
      <3>1. CreatorAt(a) /\ CallOf(a)
        BY <2>2 DEF LifeInv, CreatorSlots, CallAt
      <3> QED
        BY <1>1, <1>2, <1>p, <3>1, <2>2 DEF Typed, CreatorAt, CreatePCs,
           FreePCs, Creating, Others, Elsewhere, Private, CallOf
    <2> QED
      BY <2>1, <2>2 DEF CreatorSlots
  <1>8. Exclusive'
    BY <1>1, <1>2, <1>p DEF LifeInv, Typed, Exclusive, Others, Elsewhere,
       Private
  <1>9. JoinerSlots'
    <2>1. ASSUME NEW d \in Callers \ {a}
          PROVE  JoinerAt(d)'
      <3>1. JoinerAt(d)
        BY DEF LifeInv, JoinerSlots
      <3> QED
        BY <1>1, <1>2, <1>p, <3>1 DEF Typed, JoinerAt, CreatePCs, FreePCs,
           Others, Elsewhere, Private
    <2>2. ASSUME a \in Callers
          PROVE  JoinerAt(a)'
      <3>1. JoinerAt(a) /\ CallOf(a)
        BY <2>2 DEF LifeInv, JoinerSlots, CallAt
      <3> QED
        BY <1>1, <1>2, <1>p, <3>1, <2>2 DEF Typed, JoinerAt, CreatePCs,
           FreePCs, Others, Elsewhere, Private, CallOf
    <2> QED
      BY <2>1, <2>2 DEF JoinerSlots
  <1>10. WaitsFor'
    BY <1>1, <1>2, <1>p DEF LifeInv, Typed, WaitsFor, Others, Elsewhere, Private
  <1>11. MineLive'
    <2>1. ASSUME NEW d \in Callers, NEW e \in mine'[d]
          PROVE  e \in mine[d] /\ MineSame(e)
      <3>1. e \in mine[d]
        BY <1>1, <1>2, <1>p, <2>1 DEF Others
      <3>2. info[s].name # NoName => aliases[info[s].name] = s
        BY <1>1, <1>2, <1>p, NameLeads
      <3>3. e \in Names => aliases[e] # s
        BY <1>p, <3>1 DEF Private, SlotOf
      <3>4. e \in Names => aliases'[e] = aliases[e]
        BY <1>2, <3>2, <3>3, ActorKinds
      <3> QED
        BY <1>1, <1>2, <1>p, <3>1, <3>4, MineFacts DEF MineSame, Unjoined,
           Typed, Others, Elsewhere, Private
    <2> QED
      BY <1>1, <1>2, <1>p, <2>1, MineKept
  <1>12. AliasTrue' /\ AliasSlots'
    <2>1. info[s].name # NoName => aliases[info[s].name] = s
      BY <1>1, <1>2, <1>p, NameLeads
    <2>2. AliasTrue'
      BY <1>1, <1>2 DEF LifeInv, AliasTrue
    <2>3. ASSUME NEW r \in Slots, info'[r].name # NoName
          PROVE  \/ aliases'[info'[r].name] = r
                 \/ \E b \in Actors : pc'[b] = "clear" /\ at'[b] = r
      <3>1. CASE r = s
        BY <1>1, <1>2, <3>1
      <3>2. CASE r # s
        <4>1. info'[r].name = info[r].name /\ info[r].name \in Names
          BY <1>1, <1>2, <2>3 DEF Typed, Info
        <4>2. \/ aliases[info[r].name] = r
              \/ \E b \in Actors : pc[b] = "clear" /\ at[b] = r
          BY <2>3, <4>1 DEF LifeInv, AliasSlots
        <4>3. ASSUME NEW b \in Actors, pc[b] = "clear", at[b] = r
              PROVE  pc'[b] = "clear" /\ at'[b] = r
          BY <1>2, <4>3 DEF Others
        <4>4. CASE aliases[info[r].name] = r
          BY <1>2, <2>1, <3>2, <4>1, <4>4
        <4> QED
          BY <4>2, <4>3, <4>4
      <3> QED
        BY <3>1, <3>2
    <2>4. ASSUME NEW b \in Actors, pc'[b] = "clear", NEW m \in Names
          PROVE  aliases'[m] # at'[b]
      <3>1. at'[b] = at[b] /\ at[b] \in Slots
        BY <1>1, <1>2 DEF Typed
      <3>2. CASE b = a
        BY <1>2, <3>1, <3>2 DEF LifeInv, AliasTrue
      <3>3. CASE b # a
        BY <1>2, <2>4, <3>1, <3>3 DEF Others, LifeInv, AliasSlots
      <3> QED
        BY <3>2, <3>3
    <2> QED
      BY <2>2, <2>3, <2>4 DEF AliasSlots
  <1>13. FreedOnce'
    BY <1>1, <1>2, <1>p DEF LifeInv, Typed, FreedOnce, Others, Elsewhere,
       Private
  <1> QED
    BY <1>3, <1>4, <1>5, <1>6, <1>7, <1>8, <1>9, <1>10, <1>11, <1>12, <1>13 DEF
       LifeInv

LEMMA ClearKeeps ==
  ASSUME LifeInv, Disciplined, DetachedStarts, NEW a \in Actors,
         Clear(a)
  PROVE  LifeInv'
  <1> USE ActorKinds
  <1> DEFINE s == at[a]
  <1>1. Typed /\ a \in Actors /\ at[a] \in Slots /\ info[at[a]] \in Info
    BY DEF LifeInv, Typed
  <1>2. /\ Others(a)
        /\ Elsewhere(s)
        /\ info'[s] = Unused
        /\ info'[s].tid = NoTid
        /\ info'[s].name = NoName
        /\ info'[s].status = "UNUSED"
        /\ ~info'[s].detached
        /\ pc[a] = "clear"
        /\ ~again'[a]
        /\ \A b \in Actors \ {a} : again'[b] = again[b]
        /\ \/ a \in Tids /\ Ended(a) /\ UNCHANGED <<call, opt, want>>
           \/ a \in Callers /\ pc'[a] = "idle" /\ os' = os
        /\ UNCHANGED <<aliases, mine>>
    <2>1. a \in Tids /\ EndThread(a) => Ended(a)
      BY <1>1, EndThreadEffect
    <2>2. ~again[a]
      BY DEF LifeInv, FreedOnce
    <2> QED
      BY <1>1, <2>1, <2>2 DEF Typed, Clear, EndThread, Goto, Return, Others,
         Elsewhere,
         Unused
  <1>3. Typed'
    <2>1. info' \in [Slots -> Info]
      BY <1>1, InfoFields, OptFields DEF Typed, Clear, EndThread, Goto, Return,
         Alive, Final
    <2>2. os' \in [Tids -> OsThread]
      BY <1>1, EndThreadEffect DEF Typed, Clear
    <2> QED
      BY <1>1, <2>1, <2>2 DEF Typed, Clear, EndThread, Goto, Return, PCs,
         CreatePCs, FreePCs, NoOption
  <1>p. Private(a)
    BY FreePrivate DEF Clear
  <1>4. SlotRecords'
    <2>1. \A r \in Slots \ {s} : info'[r] = info[r] /\ info[r].tid \in Tids \cup {NoTid}
      BY <1>1, <1>2 DEF Elsewhere, Typed, Info
    <2>2. \A i \in Tids : os[i].state # "none" => os'[i].state # "none"
      BY <1>1, <1>2 DEF Ended
    <2> QED
      BY <1>1, <1>2, <2>1, <2>2 DEF LifeInv, SlotRecords
  <1>5. ThreadSlots'
    <2>1. ASSUME NEW j \in Tids \ {a}
          PROVE  ThreadAt(j)'
      <3>1. ThreadAt(j)
        BY DEF LifeInv, ThreadSlots
      <3> QED
        BY <1>1, <1>2, <1>p, <3>1 DEF Typed, ThreadAt, Final, Others,
           Elsewhere, Private, Ended
    <2>2. ASSUME a \in Tids
          PROVE  ThreadAt(a)'
      <3>1. ThreadAt(a)
        BY <2>2 DEF LifeInv, ThreadSlots
      <3> QED
        BY <1>1, <1>2, <1>p, <3>1, <2>2 DEF Typed, ThreadAt, Final, Others,
           Elsewhere, Private, Ended
    <2> QED
      BY <2>1, <2>2 DEF ThreadSlots
  <1>6. CallAt'
    BY <1>1, <1>2, <1>p DEF LifeInv, Typed, CallAt, CreatePCs, FreePCs, CallOf,
       Others, Elsewhere, Private, Ended
  <1>7. CreatorSlots'
    <2>1. ASSUME NEW d \in Callers \ {a}
          PROVE  CreatorAt(d)'
      <3>1. CreatorAt(d)
        BY DEF LifeInv, CreatorSlots
      <3> QED
        BY <1>1, <1>2, <1>p, <3>1 DEF Typed, CreatorAt, CreatePCs, FreePCs,
           Creating, Others, Elsewhere, Private, Ended
    <2>2. ASSUME a \in Callers
          PROVE  CreatorAt(a)'
      <3>1. CreatorAt(a) /\ CallOf(a)
        BY <2>2 DEF LifeInv, CreatorSlots, CallAt
      <3> QED
        BY <1>1, <1>2, <1>p, <3>1, <2>2 DEF Typed, CreatorAt, CreatePCs,
           FreePCs, Creating, Others, Elsewhere, Private, Ended, CallOf
    <2> QED
      BY <2>1, <2>2 DEF CreatorSlots
  <1>8. Exclusive'
    BY <1>1, <1>2, <1>p DEF LifeInv, Typed, Exclusive, Others, Elsewhere,
       Private, Ended
  <1>9. JoinerSlots'
    <2>1. ASSUME NEW d \in Callers \ {a}
          PROVE  JoinerAt(d)'
      <3>1. JoinerAt(d)
        BY DEF LifeInv, JoinerSlots
      <3> QED
        BY <1>1, <1>2, <1>p, <3>1 DEF Typed, JoinerAt, CreatePCs, FreePCs,
           Others, Elsewhere, Private, Ended
    <2>2. ASSUME a \in Callers
          PROVE  JoinerAt(a)'
      <3>1. JoinerAt(a) /\ CallOf(a)
        BY <2>2 DEF LifeInv, JoinerSlots, CallAt
      <3> QED
        BY <1>1, <1>2, <1>p, <3>1, <2>2 DEF Typed, JoinerAt, CreatePCs,
           FreePCs, Others, Elsewhere, Private, Ended, CallOf
    <2> QED
      BY <2>1, <2>2 DEF JoinerSlots
  <1>10. WaitsFor'
    BY <1>1, <1>2, <1>p DEF LifeInv, Typed, WaitsFor, ThreadSlots, ThreadAt,
       Others, Elsewhere, Private, Ended
  <1>11. MineLive'
    <2>1. ASSUME NEW d \in Callers, NEW e \in mine'[d]
          PROVE  e \in mine[d] /\ MineSame(e)
      <3>1. e \in mine[d]
        BY <1>1, <1>2, <1>p, <2>1 DEF Others
      <3> QED
        BY <1>1, <1>2, <1>p, <3>1, MineFacts DEF MineSame, Unjoined, Typed,
           Others, Elsewhere, Private, Ended
    <2> QED
      BY <1>1, <1>2, <1>p, <2>1, MineKept
  <1>12. AliasTrue' /\ AliasSlots'
    <2>1. \A n \in Names : aliases[n] # s
      BY <1>2 DEF LifeInv, AliasSlots
    <2>2. AliasTrue'
      BY <1>1, <1>2, <2>1 DEF LifeInv, AliasTrue, Typed, Elsewhere
    <2>3. pc'[a] # "clear"
      BY <1>2 DEF Ended
    <2>4. \A b \in Actors \ {a} : pc'[b] = pc[b] /\ at'[b] = at[b]
      BY <1>2 DEF Others
    <2>5. \A r \in Slots \ {s} : info'[r].name = info[r].name
      BY <1>2 DEF Elsewhere
    <2>6. AliasSlots'
      BY <1>1, <1>2, <2>3, <2>4, <2>5 DEF LifeInv, AliasSlots
    <2> QED
      BY <2>2, <2>6
  <1>13. FreedOnce'
    BY <1>1, <1>2, <1>p DEF LifeInv, Typed, FreedOnce, Others, Elsewhere,
       Private, Ended
  <1> QED
    BY <1>3, <1>4, <1>5, <1>6, <1>7, <1>8, <1>9, <1>10, <1>11, <1>12, <1>13 DEF
       LifeInv

LEMMA FindToJoinKeeps ==
  ASSUME LifeInv, Disciplined, DetachedStarts, NEW c \in Callers,
         NEW id \in Ids,
         FindToJoin(c, id)
  PROVE  LifeInv'
  <1> USE ActorKinds
  <1> DEFINE s == SlotOf(id)
  <1>1. Typed /\ c \in Actors /\ at[c] \in Slots /\ info[at[c]] \in Info
    BY DEF LifeInv, Typed
  <1>2. /\ Others(c)
        /\ pc[c] = "idle"
        /\ id \in mine[c]
        /\ mine'[c] = mine[c] \ {id}
        /\ \/ UNCHANGED <<pc, at, call, want>>
           \/ /\ pc'[c] = "found" /\ call'[c] = "join" /\ at'[c] = s
              /\ want'[c] = info[s].tid
        /\ UNCHANGED <<info, os, opt, aliases, again>>
    BY <1>1 DEF LifeInv, Disciplined, Typed, Info, FindToJoin, Goto, slotVars,
       Others
  <1>3. Typed'
    <2>1. info' \in [Slots -> Info]
      BY <1>1, <1>2 DEF Typed
    <2>2. os' \in [Tids -> OsThread]
      BY <1>1, <1>2 DEF Typed
    <2>3. s \in Slots /\ info[s].tid \in Tids
      BY <1>2, MineFacts DEF Unjoined
    <2>4. pc' \in [Actors -> PCs] /\ at' \in [Actors -> Slots]
      BY <1>1, <2>3 DEF Typed, FindToJoin, Goto, PCs
    <2>5. /\ call' \in [Callers -> {"none", "create", "join", "detach"}]
          /\ want' \in [Callers -> Tids \cup {NoTid}]
      BY <1>1, <2>3 DEF Typed, FindToJoin
    <2>6. mine' \in [Callers -> SUBSET (Names \cup Slots)]
      BY <1>1 DEF Typed, FindToJoin
    <2> QED
      BY <1>1, <1>2, <2>1, <2>2, <2>4, <2>5, <2>6 DEF Typed
  <1>p. Unjoined(id)
    BY <1>2, MineFacts
  <1>4. SlotRecords'
    BY <1>1, <1>2, <1>p DEF LifeInv, SlotRecords
  <1>5. ThreadSlots'
    <2>1. ASSUME NEW j \in Tids
          PROVE  ThreadAt(j)'
      <3>1. ThreadAt(j)
        BY DEF LifeInv, ThreadSlots
      <3> QED
        BY <1>1, <1>2, <1>p, <3>1 DEF Typed, ThreadAt, Final, Others,
           Elsewhere, Unjoined
    <2> QED
      BY <2>1 DEF ThreadSlots
  <1>6. CallAt'
    BY <1>1, <1>2, <1>p DEF LifeInv, Typed, CallAt, CreatePCs, FreePCs, CallOf,
       Others, Elsewhere, Unjoined
  <1>7. CreatorSlots'
    <2>1. ASSUME NEW d \in Callers \ {c}
          PROVE  CreatorAt(d)'
      <3>1. CreatorAt(d)
        BY DEF LifeInv, CreatorSlots
      <3> QED
        BY <1>1, <1>2, <1>p, <3>1 DEF Typed, CreatorAt, CreatePCs, FreePCs,
           Creating, Others, Elsewhere, Unjoined
    <2>2. CreatorAt(c)'
      <3>1. CreatorAt(c) /\ CallOf(c)
        BY DEF LifeInv, CreatorSlots, CallAt
      <3> QED
        BY <1>1, <1>2, <1>p, <3>1 DEF Typed, CreatorAt, CreatePCs, FreePCs,
           Creating, Others, Elsewhere, Unjoined, CallOf
    <2> QED
      BY <2>1, <2>2 DEF CreatorSlots
  <1>8. Exclusive'
    BY <1>1, <1>2, <1>p DEF LifeInv, Typed, Exclusive, Others, Elsewhere,
       Unjoined
  <1>9. JoinerSlots'
    <2>1. ASSUME NEW d \in Callers \ {c}
          PROVE  JoinerAt(d)'
      <3>1. JoinerAt(d)
        BY DEF LifeInv, JoinerSlots
      <3> QED
        BY <1>1, <1>2, <1>p, <3>1 DEF Typed, JoinerAt, CreatePCs, FreePCs,
           Others, Elsewhere, Unjoined
    <2>2. JoinerAt(c)'
      <3>1. JoinerAt(c) /\ CallOf(c)
        BY DEF LifeInv, JoinerSlots, CallAt
      <3> QED
        BY <1>1, <1>2, <1>p, <3>1 DEF Typed, JoinerAt, CreatePCs, FreePCs,
           Others, Elsewhere, Unjoined, CallOf
    <2> QED
      BY <2>1, <2>2 DEF JoinerSlots
  <1>10. WaitsFor'
    BY <1>1, <1>2, <1>p DEF LifeInv, Typed, WaitsFor, Others, Elsewhere,
       Unjoined
  <1>11. MineLive'
    <2>1. ASSUME NEW d \in Callers, NEW e \in mine'[d]
          PROVE  e \in mine[d] /\ MineSame(e)
      <3>1. e \in mine[d]
        BY <1>1, <1>2, <1>p, <2>1 DEF Others
      <3>2. SlotOf(e) # s
        BY <1>2, <2>1, <3>1, MineDistinct DEF Others
      <3>3. SlotOf(e) \in Slots /\ Unjoined(e)
        BY <3>1, MineFacts DEF Unjoined
      <3>4. \A f \in Callers : pc'[f] # "idle" => at'[f] # SlotOf(e)
        BY <1>1, <1>2, <3>2, <3>3 DEF Others, Unjoined
      <3> QED
        BY <1>1, <1>2, <1>p, <3>1, <3>4, MineFacts DEF MineSame, Unjoined,
           Typed, Others, Elsewhere, Unjoined
    <2> QED
      BY <1>1, <1>2, <1>p, <2>1, MineKept
  <1>12. AliasTrue' /\ AliasSlots'
    BY <1>1, <1>2, AliasesKept DEF Others, Elsewhere
  <1>13. FreedOnce'
    BY <1>1, <1>2, <1>p DEF LifeInv, Typed, FreedOnce, Others, Elsewhere,
       Unjoined
  <1> QED
    BY <1>3, <1>4, <1>5, <1>6, <1>7, <1>8, <1>9, <1>10, <1>11, <1>12, <1>13 DEF
       LifeInv

LEMMA CheckJoinKeeps ==
  ASSUME LifeInv, NEW c \in Callers, CheckJoin(c)
  PROVE  LifeInv'
  <1> USE ActorKinds
  <1>1. Typed /\ c \in Actors /\ pc[c] = "found" /\ call[c] = "join"
    BY DEF LifeInv, CheckJoin, CallAt, CallOf
  <1>2. ~info[at[c]].detached
    BY <1>1 DEF LifeInv, JoinerSlots, JoinerAt
  <1>3. /\ pc' = [pc EXCEPT ![c] = "join"]
        /\ UNCHANGED <<info, aliases, os, at, again, call, opt, want, mine>>
    BY <1>2 DEF CheckJoin, Goto, slotVars
  <1>4. /\ pc'[c] = "join" /\ \A a \in Actors \ {c} : pc'[a] = pc[a]
        /\ pc' \in [Actors -> PCs]
    BY <1>1, <1>3 DEF Typed, PCs
  <1>5. \A a \in Actors : /\ pc'[a] = "idle" <=> pc[a] = "idle"
                          /\ pc'[a] = "wait" <=> pc[a] = "wait"
                          /\ pc'[a] = "clear" <=> pc[a] = "clear"
    BY <1>1, <1>4
  <1>6. Typed' /\ SlotRecords'
    BY <1>1, <1>3, <1>4 DEF LifeInv, Typed, SlotRecords
  <1>7. ThreadSlots'
    BY <1>3, <1>4 DEF LifeInv, ThreadSlots, ThreadAt
  <1>8. CallAt'
    BY <1>1, <1>3, <1>4 DEF LifeInv, CallAt, CallOf, CreatePCs, FreePCs
  <1>9. CreatorSlots'
    BY <1>1, <1>3, <1>4 DEF LifeInv, CreatorSlots, CreatorAt, Creating,
       CreatePCs, FreePCs
  <1>10. Exclusive' /\ WaitsFor'
    BY <1>3, <1>5 DEF LifeInv, Exclusive, WaitsFor
  <1>11. JoinerSlots'
    <2>1. ASSUME NEW d \in Callers, pc'[d] # "idle", call'[d] = "join"
          PROVE  /\ want'[d] # NoTid /\ info'[at'[d]].tid = want'[d]
                 /\ ~info'[at'[d]].detached /\ ~os'[want'[d]].daemon
                 /\ pc'[d] \in {"joined"} \cup FreePCs =>
                      pc'[want'[d]] = "idle"
      <3>1. JoinerAt(d) /\ pc[d] # "idle" /\ want[d] \in Tids \cup {NoTid}
        BY <1>1, <1>3, <1>5, <2>1 DEF LifeInv, JoinerSlots, Typed
      <3>2. pc'[d] \in {"joined"} \cup FreePCs => pc'[d] = pc[d]
        BY <1>4 DEF FreePCs
      <3> QED
        BY <1>3, <1>5, <2>1, <3>1, <3>2 DEF JoinerAt
    <2> QED
      BY <2>1 DEF JoinerSlots, JoinerAt
  <1>12. MineLive'
    BY <1>3, <1>5 DEF LifeInv, MineLive, Awaits, SlotOf, IdOf
  <1>13. AliasTrue' /\ AliasSlots' /\ FreedOnce'
    BY <1>3, <1>5 DEF LifeInv, AliasTrue, AliasSlots, FreedOnce
  <1> QED
    BY <1>6, <1>7, <1>8, <1>9, <1>10, <1>11, <1>12, <1>13 DEF LifeInv

LEMMA JoinKeeps ==
  ASSUME LifeInv, Disciplined, DetachedStarts, NEW c \in Callers,
         Join(c)
  PROVE  LifeInv'
  <1> USE ActorKinds
  <1> DEFINE i == info[at[c]].tid
  <1>1. Typed /\ c \in Actors /\ at[c] \in Slots /\ info[at[c]] \in Info
    BY DEF LifeInv, Typed
  <1>2. /\ Others(c)
        /\ pc[c] = "join"
        /\ \/ /\ pc'[c] = "wait" /\ i \in Tids /\ os[i].joiner = NoCaller
              /\ ~os[i].detached
              /\ os' = [os EXCEPT ![i].joiner = c]
              /\ UNCHANGED <<at, call, opt, want>>
           \/ pc'[c] = "idle" /\ os' = os
        /\ UNCHANGED <<info, mine, aliases, again>>
    BY <1>1 DEF Typed, Info, Join, Goto, Return, slotVars, Others
  <1>o. \A j \in Tids :
          /\ os'[j].state = os[j].state /\ os'[j].daemon = os[j].daemon
          /\ os'[j].detached = os[j].detached
          /\ os'[j].joiner # os[j].joiner =>
               j = i /\ os[j].joiner = NoCaller /\ pc'[c] = "wait"
               /\ os'[j].joiner = c
    <2>1. CASE os' = os
      BY <2>1
    <2>2. CASE i \in Tids /\ os' = [os EXCEPT ![i].joiner = c]
      <3>1. os[i] \in OsThread
        BY <1>1, <2>2 DEF Typed
      <3>2. \A j \in Tids \ {i} : os'[j] = os[j]
        BY <1>1, <2>2 DEF Typed
      <3>3. os'[i] = [os[i] EXCEPT !.joiner = c]
        BY <1>1, <2>2 DEF Typed
      <3>4. /\ os'[i].state = os[i].state /\ os'[i].daemon = os[i].daemon
            /\ os'[i].detached = os[i].detached /\ os'[i].joiner = c
        BY <3>1, <3>3 DEF OsThread
      <3>5. os[i].joiner # c => os[i].joiner = NoCaller /\ pc'[c] = "wait"
        BY <1>2, <2>2, <3>4
      <3> QED
        BY <3>2, <3>4, <3>5
    <2> QED
      BY <1>2, <2>1, <2>2
  <1>j. info[at[c]].tid = want[c] /\ ~info[at[c]].detached /\ ~os[i].daemon
    BY <1>2 DEF LifeInv, CallAt, CallOf, JoinerSlots, JoinerAt
  <1>3. Typed'
    <2>1. info' \in [Slots -> Info]
      BY <1>1, <1>2 DEF Typed
    <2>2. os' \in [Tids -> OsThread]
      <3>1. CASE os' = os
        BY <1>1, <3>1 DEF Typed
      <3>2. CASE i \in Tids /\ os' = [os EXCEPT ![i].joiner = c]
        <4>1. [os[i] EXCEPT !.joiner = c] \in OsThread
          BY <1>1, <3>2, OsFields DEF Typed
        <4> QED
          BY <1>1, <3>2, <4>1 DEF Typed
      <3> QED
        BY <1>2, <3>1, <3>2
    <2>3. pc' \in [Actors -> PCs]
      <3>1. /\ pc \in [Actors -> PCs] /\ {"wait", "idle"} \subseteq PCs
            /\ \/ pc' = [pc EXCEPT ![c] = "wait"]
               \/ pc' = [pc EXCEPT ![c] = "idle"]
        BY <1>1 DEF Typed, Join, Goto, Return, PCs
      <3> QED
        BY ONLY <3>1
    <2> QED
      BY <1>1, <2>1, <2>2, <2>3 DEF Typed, Join, Goto, Return, slotVars,
         NoOption
  <1>4. SlotRecords'
    <2>1. \A j \in Tids : os[j].state # "none" => os'[j].state # "none"
      BY <1>o
    <2> QED
      BY <1>1, <1>2, <2>1, SlotsKept DEF Elsewhere
  <1>5. ThreadSlots'
    <2>1. ASSUME NEW j \in Tids
          PROVE  ThreadAt(j)'
      <3>1. ThreadAt(j)
        BY DEF LifeInv, ThreadSlots
      <3>2. /\ pc'[j] = pc[j] /\ at'[j] = at[j] /\ info' = info
            /\ os'[j].state = os[j].state
        BY <1>2, <1>o DEF Others
      <3> QED
        BY <3>1, <3>2 DEF ThreadAt
    <2> QED
      BY <2>1 DEF ThreadSlots
  <1>6. CallAt'
    BY <1>1, <1>2 DEF LifeInv, Typed, CallAt, CreatePCs, FreePCs, CallOf,
       Others, Elsewhere
  <1>7. CreatorSlots'
    <2>1. ASSUME NEW d \in Callers \ {c}
          PROVE  CreatorAt(d)'
      <3>1. CreatorAt(d)
        BY DEF LifeInv, CreatorSlots
      <3> QED
        BY <1>1, <1>2, <3>1 DEF Typed, CreatorAt, CreatePCs, FreePCs, Creating,
           Others, Elsewhere
    <2>2. CreatorAt(c)'
      <3>1. CreatorAt(c) /\ CallOf(c)
        BY DEF LifeInv, CreatorSlots, CallAt
      <3> QED
        BY <1>1, <1>2, <3>1 DEF Typed, CreatorAt, CreatePCs, FreePCs, Creating,
           Others, Elsewhere, CallOf
    <2> QED
      BY <2>1, <2>2 DEF CreatorSlots
  <1>8. Exclusive'
    BY <1>1, <1>2 DEF LifeInv, Typed, Exclusive, Others, Elsewhere
  <1>9. JoinerSlots'
    <2>1. ASSUME NEW d \in Callers \ {c}
          PROVE  JoinerAt(d)'
      <3>1. JoinerAt(d)
        BY DEF LifeInv, JoinerSlots
      <3>2. /\ pc'[d] = pc[d] /\ at'[d] = at[d] /\ info' = info
            /\ call'[d] = call[d] /\ want'[d] = want[d]
            /\ want[d] \in Tids \cup {NoTid}
        BY <1>1, <1>2 DEF Others, Typed
      <3>3. \A j \in Tids : pc'[j] = pc[j] /\ os'[j].daemon = os[j].daemon
        BY <1>2, <1>o DEF Others
      <3> QED
        BY <3>1, <3>2, <3>3 DEF JoinerAt
    <2>2. JoinerAt(c)'
      <3>1. JoinerAt(c) /\ CallOf(c) /\ want[c] \in Tids \cup {NoTid}
        BY <1>1 DEF LifeInv, JoinerSlots, CallAt, Typed
      <3>2. pc'[c] = "wait" \/ pc'[c] = "idle"
        BY <1>2
      <3>3. CASE pc'[c] = "wait"
        <4>1. at' = at /\ want' = want /\ info' = info
          BY <1>2, <3>3
        <4>2. pc'[c] \notin {"joined"} \cup FreePCs
          BY <3>3 DEF FreePCs
        <4>3. /\ want[c] # NoTid /\ info[at[c]].tid = want[c]
              /\ ~info[at[c]].detached /\ ~os[want[c]].daemon
          BY <1>2, <3>1 DEF JoinerAt, CallOf
        <4>4. ~os'[want[c]].daemon
          BY <1>o, <3>1, <4>3
        <4> QED
          BY <4>1, <4>2, <4>3, <4>4 DEF JoinerAt
      <3> QED
        BY <3>2, <3>3 DEF JoinerAt
    <2> QED
      BY <2>1, <2>2 DEF JoinerSlots
  <1>10. WaitsFor'
    <2> SUFFICES ASSUME NEW j \in Tids, NEW d \in Callers,
                        os'[j].joiner = d, os'[j].state # "gone"
                 PROVE  pc'[d] = "wait" /\ want'[d] = j
      BY DEF WaitsFor
    <2>1. CASE os'[j].joiner = os[j].joiner
      <3>1. pc[d] = "wait" /\ want[d] = j
        BY <1>o, <2>1 DEF LifeInv, WaitsFor
      <3>2. d # c
        BY <1>2, <3>1
      <3> QED
        BY <1>2, <3>1, <3>2 DEF Others
    <2>2. CASE os'[j].joiner # os[j].joiner
      <3>1. j = i /\ pc'[c] = "wait" /\ d = c
        BY <1>o, <2>2
      <3>2. want' = want
        BY <1>2, <3>1
      <3> QED
        BY <1>j, <3>1, <3>2
    <2> QED
      BY <2>1, <2>2
  <1>11. MineLive'
    <2>1. ASSUME NEW d \in Callers, NEW e \in mine'[d]
          PROVE  e \in mine[d] /\ MineSame(e)
      <3>1. e \in mine[d]
        BY <1>2, <2>1
      <3>2. Unjoined(e)
        BY <3>1, MineFacts
      <3>3. info[SlotOf(e)].tid # i
        BY <1>1, <1>2, <3>2 DEF Unjoined
      <3>4. \A f \in Callers : pc'[f] # "idle" => at'[f] # SlotOf(e)
        BY <1>1, <1>2, <3>2 DEF Others, Unjoined
      <3> QED
        BY <1>2, <1>o, <3>2, <3>3, <3>4 DEF MineSame, Unjoined
    <2> QED
      BY <2>1, MineKept
  <1>12. AliasTrue' /\ AliasSlots'
    BY <1>1, <1>2, AliasesKept DEF Others, Elsewhere
  <1>13. FreedOnce'
    BY <1>1, <1>2 DEF LifeInv, Typed, FreedOnce, Others, Elsewhere
  <1> QED
    BY <1>3, <1>4, <1>5, <1>6, <1>7, <1>8, <1>9, <1>10, <1>11, <1>12, <1>13 DEF
       LifeInv

LEMMA JoinedKeeps ==
  ASSUME LifeInv, Disciplined, DetachedStarts, NEW c \in Callers,
         Joined(c)
  PROVE  LifeInv'
  <1> USE ActorKinds
  <1> DEFINE i == want[c]
  <1>1. Typed /\ c \in Actors /\ at[c] \in Slots /\ info[at[c]] \in Info
    BY DEF LifeInv, Typed
  <1>2. /\ Others(c)
        /\ pc[c] = "wait"
        /\ pc'[c] = "joined"
        /\ i \in Tids
        /\ os[i].state = "zombie"
        /\ os[i].joiner = c
        /\ os' = [os EXCEPT ![i].state = "gone"]
        /\ UNCHANGED <<info, mine, aliases, again, at, call, opt, want>>
    <2>1. PICK j \in Tids : /\ os[j].joiner = c /\ os[j].state = "zombie"
                            /\ os' = [os EXCEPT ![j].state = "gone"]
      BY DEF Joined
    <2>2. want[c] = j
      BY <2>1 DEF LifeInv, WaitsFor
    <2> QED
      BY <1>1, <2>1, <2>2 DEF Typed, Joined, Goto, slotVars, callVars, Others
  <1>o. /\ \A j \in Tids : /\ os'[j].joiner = os[j].joiner
                           /\ os'[j].daemon = os[j].daemon
                           /\ os'[j].detached = os[j].detached
        /\ \A j \in Tids \ {i} : os'[j].state = os[j].state
        /\ os'[i].state = "gone" /\ os' \in [Tids -> OsThread]
    <2>1. os[i] \in OsThread /\ [os[i] EXCEPT !.state = "gone"] \in OsThread
      BY <1>1, <1>2, OsFields DEF Typed
    <2>2. \A j \in Tids \ {i} : os'[j] = os[j]
      BY <1>1, <1>2 DEF Typed
    <2>3. os'[i] = [os[i] EXCEPT !.state = "gone"]
      BY <1>1, <1>2 DEF Typed
    <2>4. /\ os'[i].joiner = os[i].joiner /\ os'[i].daemon = os[i].daemon
          /\ os'[i].detached = os[i].detached /\ os'[i].state = "gone"
      BY <2>1, <2>3 DEF OsThread
    <2>5. os' \in [Tids -> OsThread]
      BY <1>1, <1>2, <2>1 DEF Typed
    <2> QED
      BY <2>2, <2>4, <2>5
  <1>j. /\ info[at[c]].tid = want[c] /\ ~info[at[c]].detached
        /\ call[c] = "join" /\ pc[i] = "idle"
    <2>1. call[c] = "join"
      BY <1>2 DEF LifeInv, CallAt, CallOf
    <2>2. pc[i] = "idle"
      BY <1>2 DEF LifeInv, ThreadSlots, ThreadAt
    <2> QED
      BY <1>2, <2>1, <2>2 DEF LifeInv, JoinerSlots, JoinerAt
  <1>3. Typed'
    <2>1. pc' \in [Actors -> PCs]
      BY <1>1 DEF Typed, Joined, Goto, PCs
    <2> QED
      BY <1>1, <1>2, <1>o, <2>1 DEF Typed
  <1>4. SlotRecords'
    <2>1. \A j \in Tids : os[j].state # "none" => os'[j].state # "none"
      BY <1>o
    <2> QED
      BY <1>1, <1>2, <2>1, SlotsKept DEF Elsewhere
  <1>5. ThreadSlots'
    <2>1. ASSUME NEW j \in Tids
          PROVE  ThreadAt(j)'
      <3>1. ThreadAt(j)
        BY DEF LifeInv, ThreadSlots
      <3>2. /\ pc'[j] = pc[j] /\ at'[j] = at[j] /\ info' = info
            /\ os'[j].state = "run" <=> os[j].state = "run"
        BY <1>2, <1>o DEF Others
      <3> QED
        BY <3>1, <3>2 DEF ThreadAt
    <2> QED
      BY <2>1 DEF ThreadSlots
  <1>6. CallAt'
    BY <1>1, <1>2 DEF LifeInv, Typed, CallAt, CreatePCs, FreePCs, CallOf,
       Others, Elsewhere
  <1>7. CreatorSlots'
    <2>1. ASSUME NEW d \in Callers \ {c}
          PROVE  CreatorAt(d)'
      <3>1. CreatorAt(d)
        BY DEF LifeInv, CreatorSlots
      <3> QED
        BY <1>1, <1>2, <3>1 DEF Typed, CreatorAt, CreatePCs, FreePCs, Creating,
           Others, Elsewhere
    <2>2. CreatorAt(c)'
      <3>1. CreatorAt(c) /\ CallOf(c)
        BY DEF LifeInv, CreatorSlots, CallAt
      <3> QED
        BY <1>1, <1>2, <3>1 DEF Typed, CreatorAt, CreatePCs, FreePCs, Creating,
           Others, Elsewhere, CallOf
    <2> QED
      BY <2>1, <2>2 DEF CreatorSlots
  <1>8. Exclusive'
    BY <1>1, <1>2 DEF LifeInv, Typed, Exclusive, Others, Elsewhere
  <1>9. JoinerSlots'
    <2>1. ASSUME NEW d \in Callers \ {c}
          PROVE  JoinerAt(d)'
      <3>1. JoinerAt(d)
        BY DEF LifeInv, JoinerSlots
      <3>2. /\ pc'[d] = pc[d] /\ want[d] \in Tids \cup {NoTid}
        BY <1>1, <1>2 DEF Others, Typed
      <3>3. \A j \in Tids : pc'[j] = pc[j] /\ os'[j].daemon = os[j].daemon
        BY <1>2, <1>o DEF Others
      <3> QED
        BY <1>2, <3>1, <3>2, <3>3 DEF JoinerAt
    <2>2. JoinerAt(c)'
      <3>1. JoinerAt(c) /\ want[c] \in Tids
        BY <1>2 DEF LifeInv, JoinerSlots
      <3>2. pc'[i] = pc[i] /\ os'[i].daemon = os[i].daemon
        BY <1>2, <1>o DEF Others
      <3> QED
        BY <1>2, <1>j, <3>1, <3>2 DEF JoinerAt
    <2> QED
      BY <2>1, <2>2 DEF JoinerSlots
  <1>10. WaitsFor'
    <2> SUFFICES ASSUME NEW j \in Tids, NEW d \in Callers,
                        os'[j].joiner = d, os'[j].state # "gone"
                 PROVE  pc'[d] = "wait" /\ want'[d] = j
      BY DEF WaitsFor
    <2>1. j # i /\ os[j].joiner = d /\ os[j].state # "gone"
      BY <1>o
    <2>2. pc[d] = "wait" /\ want[d] = j
      BY <2>1 DEF LifeInv, WaitsFor
    <2>3. d # c
      BY <2>1, <2>2
    <2> QED
      BY <1>2, <2>2, <2>3 DEF Others
  <1>11. MineLive'
    <2>1. ASSUME NEW d \in Callers, NEW e \in mine'[d]
          PROVE  e \in mine[d] /\ MineSame(e)
      <3>1. e \in mine[d]
        BY <1>2, <2>1
      <3>2. Unjoined(e)
        BY <3>1, MineFacts
      <3>3. info[SlotOf(e)].tid # i
        BY <1>1, <1>2, <1>j, <3>2 DEF Unjoined
      <3>4. \A f \in Callers : pc'[f] # "idle" => at'[f] # SlotOf(e)
        BY <1>1, <1>2, <3>2 DEF Others, Unjoined
      <3> QED
        BY <1>2, <1>o, <3>2, <3>3, <3>4 DEF MineSame, Unjoined
    <2> QED
      BY <2>1, MineKept
  <1>12. AliasTrue' /\ AliasSlots'
    BY <1>1, <1>2, AliasesKept DEF Others, Elsewhere
  <1>13. FreedOnce'
    BY <1>1, <1>2 DEF LifeInv, Typed, FreedOnce, Others, Elsewhere
  <1> QED
    BY <1>3, <1>4, <1>5, <1>6, <1>7, <1>8, <1>9, <1>10, <1>11, <1>12, <1>13 DEF
       LifeInv

LEMMA DetachSelfKeeps ==
  ASSUME LifeInv, Disciplined, DetachedStarts, NEW i \in Tids,
         DetachSelf(i)
  PROVE  LifeInv'
  <1> USE ActorKinds
  <1> DEFINE s == at[i]
  <1>1. Typed /\ i \in Actors /\ at[i] \in Slots /\ info[at[i]] \in Info
    BY DEF LifeInv, Typed
  <1>2. /\ info'[s].status = info[s].status
        /\ info'[s].tid = info[s].tid
        /\ info'[s].name = info[s].name
        /\ info'[s].detached
        /\ Elsewhere(s)
        /\ os[i].daemon
        /\ pc[i] \in {"run", "hooks"}
        /\ DetachedAt(i)
        /\ UNCHANGED <<pc, at, call, opt, want, aliases, again, mine>>
    <2>1. DetachedAt(i)
      BY <1>1, DetachEffect DEF DetachSelf
    <2> QED
      BY <1>1, <2>1 DEF Typed, Info, DetachSelf, callVars, Elsewhere
  <1>3. Typed'
    <2>0. [info[at[i]] EXCEPT !.detached = TRUE] \in Info
      BY <1>1, <1>2, InfoFields, OptFields DEF Alive, Final
    <2>1. info' \in [Slots -> Info]
      BY <1>1, <2>0 DEF Typed, DetachSelf, SystemDetach, callVars, Alive, Final
    <2>2. os' \in [Tids -> OsThread]
      BY <1>1, <1>2, DetachEffect DEF Typed, DetachSelf
    <2> QED
      BY <1>1, <2>1, <2>2 DEF Typed, DetachSelf, SystemDetach, callVars, PCs,
         CreatePCs, FreePCs, NoOption
  <1>p. Running(i)
    BY ThreadAlone DEF DetachSelf
  <1>4. SlotRecords'
    BY <1>1, <1>2, <1>p, SlotsKept DEF Running, DetachedAt
  <1>5. ThreadSlots'
    <2>1. ASSUME NEW j \in Tids \ {i}
          PROVE  ThreadAt(j)'
      <3>1. ThreadAt(j)
        BY DEF LifeInv, ThreadSlots
      <3> QED
        BY <1>1, <1>2, <1>p, <3>1 DEF Typed, ThreadAt, Final, Others,
           Elsewhere, Running, DetachedAt
    <2>2. ThreadAt(i)'
      <3>1. ThreadAt(i)
        BY DEF LifeInv, ThreadSlots
      <3> QED
        BY <1>1, <1>2, <1>p, <3>1 DEF Typed, ThreadAt, Final, Others,
           Elsewhere, Running, DetachedAt
    <2> QED
      BY <2>1, <2>2 DEF ThreadSlots
  <1>6. CallAt'
    BY <1>1, <1>2, <1>p DEF LifeInv, Typed, CallAt, CreatePCs, FreePCs, CallOf,
       Others, Elsewhere, Running, DetachedAt
  <1>7. CreatorSlots'
    <2>1. ASSUME NEW d \in Callers
          PROVE  CreatorAt(d)'
      <3>1. CreatorAt(d)
        BY DEF LifeInv, CreatorSlots
      <3> QED
        BY <1>1, <1>2, <1>p, <3>1 DEF Typed, CreatorAt, CreatePCs, FreePCs,
           Creating, Others, Elsewhere, Running, DetachedAt
    <2> QED
      BY <2>1 DEF CreatorSlots
  <1>8. Exclusive'
    BY <1>1, <1>2, <1>p DEF LifeInv, Typed, Exclusive, Others, Elsewhere,
       Running, DetachedAt
  <1>9. JoinerSlots'
    <2>1. ASSUME NEW d \in Callers
          PROVE  JoinerAt(d)'
      <3>1. JoinerAt(d)
        BY DEF LifeInv, JoinerSlots
      <3> QED
        BY <1>1, <1>2, <1>p, <3>1 DEF Typed, JoinerAt, CreatePCs, FreePCs,
           Others, Elsewhere, Running, DetachedAt
    <2> QED
      BY <2>1 DEF JoinerSlots
  <1>10. WaitsFor'
    BY <1>1, <1>2, <1>p DEF LifeInv, Typed, WaitsFor, Others, Elsewhere,
       Running, DetachedAt
  <1>11. MineLive'
    <2>1. ASSUME NEW d \in Callers, NEW e \in mine'[d]
          PROVE  e \in mine[d] /\ MineSame(e)
      <3>1. e \in mine[d]
        BY <1>1, <1>2, <1>p, <2>1 DEF Others
      <3> QED
        BY <1>1, <1>2, <1>p, <3>1, MineFacts DEF MineSame, Unjoined, Typed,
           Others, Elsewhere, Running, DetachedAt
    <2> QED
      BY <1>1, <1>2, <1>p, <2>1, MineKept
  <1>12. AliasTrue' /\ AliasSlots'
    BY <1>1, <1>2, AliasesKept DEF Others, Elsewhere, DetachedAt
  <1>13. FreedOnce'
    BY <1>1, <1>2, <1>p DEF LifeInv, Typed, FreedOnce, Others, Elsewhere,
       Running, DetachedAt
  <1> QED
    BY <1>3, <1>4, <1>5, <1>6, <1>7, <1>8, <1>9, <1>10, <1>11, <1>12, <1>13 DEF
       LifeInv

LEMMA DetachKeeps ==
  ASSUME LifeInv, Disciplined, DetachedStarts, NEW c \in Callers,
         NEW id \in Ids,
         Detach(c, id)
  PROVE  LifeInv'
  <1> USE ActorKinds
  <1> DEFINE s == SlotOf(id)
             i == info[s].tid
  <1>1. Typed /\ c \in Actors /\ at[c] \in Slots /\ info[at[c]] \in Info
    BY DEF LifeInv, Typed
  <1>2. /\ info'[s].status = info[s].status
        /\ info'[s].tid = info[s].tid
        /\ info'[s].name = info[s].name
        /\ info'[s].detached
        /\ Elsewhere(s)
        /\ Others(c)
        /\ s \in Slots
        /\ i \in Tids
        /\ pc[c] = "idle"
        /\ id \in mine[c]
        /\ mine'[c] = mine[c] \ {id}
        /\ DetachedAt(i)
        /\ UNCHANGED <<pc, at, call, opt, want, aliases, again>>
    <2>1. id \in mine[c] /\ pc[c] = "idle" /\ mine'[c] = mine[c] \ {id}
      BY <1>1 DEF Disciplined, Detach, Typed
    <2>2. Unjoined(id)
      BY <2>1, MineFacts
    <2>3. /\ SystemDetach(i) /\ UNCHANGED <<pc, at, call>>
          /\ info' = [info EXCEPT ![s].detached = TRUE]
      BY <2>2 DEF Unjoined, Detach
    <2>4. s \in Slots /\ i \in Tids
      BY <2>2 DEF Unjoined
    <2>5. DetachedAt(i)
      BY <1>1, <2>3, <2>4, DetachEffect
    <2>6. /\ info'[s].status = info[s].status /\ info'[s].tid = info[s].tid
          /\ info'[s].name = info[s].name /\ info'[s].detached
          /\ Elsewhere(s)
      BY <1>1, <2>3, <2>4 DEF Typed, Info, Elsewhere
    <2>7. UNCHANGED <<opt, want, aliases, again>>
      BY DEF Detach
    <2>8. Others(c)
      BY <1>1, <2>3, <2>7 DEF Detach, Typed, Others
    <2> QED
      BY <2>1, <2>3, <2>4, <2>5, <2>6, <2>7, <2>8
  <1>p. Unjoined(id)
    BY <1>2, MineFacts
  <1>o. \A j \in Tids :
          /\ os'[j].joiner = os[j].joiner /\ os'[j].daemon = os[j].daemon
          /\ os'[j].state # os[j].state =>
               os[j].state = "zombie" /\ os'[j].state = "gone"
    BY <1>2 DEF DetachedAt
  <1>3. Typed'
    <2>1. info[s] \in Info /\ [info[s] EXCEPT !.detached = TRUE] \in Info
      BY <1>p, InfoFields DEF Unjoined
    <2>2. /\ info' = [info EXCEPT ![s].detached = TRUE] /\ SystemDetach(i)
          /\ mine' = [mine EXCEPT ![c] = mine[c] \ {id}]
      BY <1>p DEF Detach, Unjoined
    <2>3. info' \in [Slots -> Info]
      BY <1>1, <1>2, <2>1, <2>2 DEF Typed
    <2>4. os' \in [Tids -> OsThread]
      BY <1>1, <1>2, <2>2, DetachEffect
    <2>5. mine' \in [Callers -> SUBSET (Names \cup Slots)]
      BY <1>1, <2>2 DEF Typed
    <2> QED
      BY <1>1, <1>2, <2>3, <2>4, <2>5 DEF Typed
  <1>4. SlotRecords'
    <2>1. \A j \in Tids : os[j].state # "none" => os'[j].state # "none"
      BY <1>o
    <2> QED
      BY <1>2, <1>p, <2>1, SlotsKept DEF Unjoined
  <1>5. ThreadSlots'
    <2>1. ASSUME NEW j \in Tids
          PROVE  ThreadAt(j)'
      <3>1. ThreadAt(j) /\ at[j] \in Slots
        BY <1>1 DEF LifeInv, ThreadSlots, Typed
      <3>2. os'[j].state = "run" <=> os[j].state = "run"
        BY <1>o
      <3>3. \A r \in Slots : /\ info'[r].tid = info[r].tid
                             /\ info'[r].status = info[r].status
                             /\ info[r].detached => info'[r].detached
        BY <1>2 DEF Elsewhere
      <3> QED
        BY <1>2, <3>1, <3>2, <3>3 DEF ThreadAt
    <2> QED
      BY <2>1 DEF ThreadSlots
  <1>6. CallAt'
    BY <1>2 DEF LifeInv, CallAt, CallOf
  <1>7. CreatorSlots'
    <2>1. ASSUME NEW d \in Callers
          PROVE  CreatorAt(d)'
      <3>1. CreatorAt(d) /\ at[d] \in Slots
        BY <1>1 DEF LifeInv, CreatorSlots, Typed
      <3>2. Creating(d) => at[d] # s
        BY <1>p DEF Unjoined, Creating, CreatePCs, FreePCs
      <3> QED
        BY <1>2, <3>1, <3>2 DEF CreatorAt, Creating, Elsewhere
    <2> QED
      BY <2>1 DEF CreatorSlots
  <1>8. Exclusive'
    BY <1>2 DEF LifeInv, Exclusive
  <1>9. JoinerSlots'
    <2>1. ASSUME NEW d \in Callers
          PROVE  JoinerAt(d)'
      <3>1. JoinerAt(d) /\ at[d] \in Slots /\ want[d] \in Tids \cup {NoTid}
        BY <1>1 DEF LifeInv, JoinerSlots, Typed
      <3>2. pc[d] # "idle" => info'[at[d]] = info[at[d]]
        BY <1>2, <1>p, <3>1 DEF Unjoined, Elsewhere
      <3> QED
        BY <1>2, <1>o, <3>1, <3>2 DEF JoinerAt
    <2> QED
      BY <2>1 DEF JoinerSlots
  <1>10. WaitsFor'
    <2> SUFFICES ASSUME NEW j \in Tids, NEW d \in Callers,
                        os'[j].joiner = d, os'[j].state # "gone"
                 PROVE  pc'[d] = "wait" /\ want'[d] = j
      BY DEF WaitsFor
    <2>1. os[j].joiner = d /\ os[j].state # "gone"
      BY <1>o
    <2> QED
      BY <1>2, <2>1 DEF LifeInv, WaitsFor
  <1>11. MineLive'
    <2>1. ASSUME NEW d \in Callers, NEW e \in mine'[d]
          PROVE  e \in mine[d] /\ MineSame(e)
      <3>1. e \in mine[d]
        BY <1>2, <2>1 DEF Others
      <3>2. SlotOf(e) # s
        BY <1>2, <2>1, <3>1, MineDistinct
      <3>3. Unjoined(e)
        BY <3>1, MineFacts
      <3>4. info[SlotOf(e)].tid # i
        BY <1>2, <3>2, <3>3 DEF Unjoined
      <3>5. /\ info'[SlotOf(e)] = info[SlotOf(e)]
            /\ os'[info[SlotOf(e)].tid] = os[info[SlotOf(e)].tid]
        BY <1>2, <3>2, <3>3, <3>4 DEF Unjoined, Elsewhere, DetachedAt
      <3> QED
        BY <1>2, <3>1, <3>3, <3>5 DEF MineSame, Unjoined
    <2>2. \A d \in Callers : mine'[d] \subseteq mine[d]
      BY <2>1
    <2> QED
      BY <2>1, <2>2, MineKept
  <1>12. AliasTrue' /\ AliasSlots'
    BY <1>2, AliasesKept DEF Elsewhere
  <1>13. FreedOnce'
    BY <1>2 DEF LifeInv, FreedOnce
  <1> QED
    BY <1>3, <1>4, <1>5, <1>6, <1>7, <1>8, <1>9, <1>10, <1>11, <1>12, <1>13 DEF
       LifeInv

-----------------------------------------------------------------------------
LEMMA LifeInit ==
  ASSUME Init
  PROVE  LifeInv
  <1> USE ActorKinds
  <1>1. /\ \A a \in Actors : pc[a] = "idle" /\ at[a] = 1 /\ ~again[a]
        /\ \A c \in Callers : /\ call[c] = "none" /\ opt[c] = NoOption
                              /\ want[c] = NoTid /\ mine[c] = {}
        /\ \A i \in Tids : os[i].state = "none" /\ os[i].joiner = NoCaller
        /\ \A n \in Names : aliases[n] = NoSlot
    BY DEF Init
  <1>2. \A s \in Slots : /\ info[s] \in Info /\ info[s].tid = NoTid
                         /\ info[s].name = NoName /\ ~info[s].detached
    <2>1. ASSUME NEW s \in Slots, s # 1
          PROVE  info[s] = Unused
      BY <2>1 DEF Init
    <2>2. info[1] = [Unused EXCEPT !.status = "RUNNING", !.data = TRUE]
      BY DEF Init
    <2>3. info[1] \in Info
      BY <2>2 DEF Unused, Info, Alive
    <2>4. /\ info[1].tid = NoTid /\ info[1].name = NoName
          /\ ~info[1].detached
      BY <2>2 DEF Unused
    <2>5. Unused \in Info /\ Unused.tid = NoTid /\ Unused.name = NoName
          /\ ~Unused.detached
      BY DEF Unused, Info
    <2> QED
      BY <2>1, <2>3, <2>4, <2>5
  <1>3. Typed
    <2>1. info \in [Slots -> Info]
      <3>1. info = [s \in Slots |-> info[s]]
        BY DEF Init
      <3> QED
        BY <1>2, <3>1
    <2>2. os \in [Tids -> OsThread]
      BY DEF Init, OsThread
    <2>3. /\ aliases \in [Names -> Slots \cup {NoSlot}]
          /\ pc \in [Actors -> PCs] /\ at \in [Actors -> Slots]
          /\ again \in [Actors -> BOOLEAN]
      BY DEF Init, PCs
    <2>4. /\ call \in [Callers -> {"none", "create", "join", "detach"}]
          /\ opt \in [Callers -> Options \cup {NoOption}]
          /\ want \in [Callers -> Tids \cup {NoTid}]
          /\ mine \in [Callers -> SUBSET (Names \cup Slots)]
      BY DEF Init
    <2> QED
      BY <2>1, <2>2, <2>3, <2>4 DEF Typed
  <1>4. SlotRecords
    BY <1>2 DEF SlotRecords
  <1>5. ThreadSlots
    BY <1>1, <1>2 DEF ThreadSlots, ThreadAt
  <1>6. CallAt
    BY <1>1 DEF CallAt, CallOf, CreatePCs, FreePCs
  <1>7. CreatorSlots
    BY <1>1 DEF CreatorSlots, CreatorAt, Creating, CreatePCs, FreePCs
  <1>8. Exclusive /\ JoinerSlots /\ FreedOnce
    BY <1>1 DEF Exclusive, JoinerSlots, JoinerAt, FreedOnce
  <1>9. WaitsFor /\ MineLive
    BY <1>1 DEF WaitsFor, MineLive
  <1>10. AliasTrue /\ AliasSlots
    BY <1>1, <1>2 DEF AliasTrue, AliasSlots
  <1> QED
    BY <1>3, <1>4, <1>5, <1>6, <1>7, <1>8, <1>9, <1>10 DEF LifeInv

LEMMA LifeStep ==
  ASSUME LifeInv, Disciplined, DetachedStarts, Next
  PROVE  LifeInv'
  <1> USE ActorKinds
  <1>1. ASSUME NEW c \in Callers, NEW o \in Options, Alloc(c, o)
        PROVE  LifeInv'
    BY <1>1, AllocKeeps
  <1>2. ASSUME NEW c \in Callers, NEW id \in Ids,
               FindToJoin(c, id) \/ Detach(c, id)
        PROVE  LifeInv'
    BY <1>2, FindToJoinKeeps, DetachKeeps
  <1>3. ASSUME NEW c \in Callers, CreateStep(c)
        PROVE  LifeInv'
    <2>1. CASE Start(c)
      <3>1. CASE StartFails(c)
        BY <3>1, StartFailsKeeps
      <3>2. ASSUME NEW i \in Tids, Started(c, i)
            PROVE  LifeInv'
        BY <3>2, StartedKeeps
      <3> QED
        BY <2>1, <3>1, <3>2, StartOutcomes
    <2> QED
      BY <1>3, <2>1, ScanOptionsKeeps, TakeAliasKeeps, RecordGoalKeeps
         DEF CreateStep
  <1>4. ASSUME NEW a \in Actors, FreeStep(a)
        PROVE  LifeInv'
    BY <1>4, FreeDataKeeps, FreeDetachedKeeps, UnaliasKeeps, ClearKeeps
       DEF FreeStep
  <1>5. ASSUME NEW c \in Callers, FreeInfo(c) \/ JoinStep(c)
        PROVE  LifeInv'
    BY <1>5, FreeInfoKeeps, CheckJoinKeeps, JoinKeeps, JoinedKeeps DEF JoinStep
  <1>6. ASSUME NEW i \in Tids, ThreadStep(i) \/ DetachSelf(i)
        PROVE  LifeInv'
    BY <1>6, InitialiseKeeps, FinishKeeps, RunHooksKeeps, DetachSelfKeeps
       DEF ThreadStep
  <1>7. CASE \E c \in Callers : CallerStep(c)
    BY <1>3, <1>4, <1>5, <1>7 DEF CallerStep
  <1> QED
    BY <1>1, <1>2, <1>4, <1>6, <1>7 DEF Next

LEMMA LifeStutters ==
  ASSUME LifeInv, UNCHANGED vars
  PROVE  LifeInv'
  <1>1. /\ info' = info /\ aliases' = aliases /\ os' = os /\ pc' = pc
        /\ at' = at /\ again' = again /\ call' = call /\ opt' = opt
        /\ want' = want /\ mine' = mine
    BY DEF vars
  <1>2. Typed' /\ SlotRecords' /\ ThreadSlots' /\ CallAt'
    BY <1>1 DEF LifeInv, Typed, SlotRecords, ThreadSlots, ThreadAt, CallAt,
       CallOf
  <1>3. CreatorSlots' /\ Exclusive' /\ JoinerSlots' /\ WaitsFor'
    BY <1>1 DEF LifeInv, CreatorSlots, CreatorAt, Creating, Exclusive,
       JoinerSlots, JoinerAt, WaitsFor
  <1>4. MineLive'
    BY <1>1 DEF LifeInv, MineLive, Awaits, SlotOf, IdOf
  <1>5. AliasTrue' /\ AliasSlots' /\ FreedOnce'
    BY <1>1 DEF LifeInv, AliasTrue, AliasSlots, FreedOnce
  <1> QED
    BY <1>2, <1>3, <1>4, <1>5 DEF LifeInv

(* The records of the threads are kept as LifeInv says, whatever the       *)
(* threads and their callers do.                                           *)
LEMMA LifeInvariance ==
  ASSUME Disciplined, DetachedStarts
  PROVE  Spec => []LifeInv
  <1>1. LifeInv /\ [Next]_vars => LifeInv'
    BY LifeStep, LifeStutters
  <1> QED
    BY <1>1, LifeInit, PTL DEF Spec

-----------------------------------------------------------------------------
(* alloc_thread() gives no slot to a thread while another one needs it:    *)
(* each thread that runs finds its own record in its slot, and a slot that *)
(* thread_create/3 fills in belongs to one creator.                        *)
THEOREM SlotsOwned ==
  ASSUME Disciplined, DetachedStarts
  PROVE  Spec => []SlotOwned
  <1>1. LifeInv => SlotOwned
    <2> SUFFICES ASSUME LifeInv
                 PROVE  SlotOwned
      OBVIOUS
    <2>1. \A i \in Tids : pc[i] # "idle" => info[at[i]].tid = i
      BY DEF LifeInv, ThreadSlots, ThreadAt
    <2>2. ASSUME NEW c \in Callers, Creating(c)
          PROVE  /\ info[at[c]].status = "CREATED" /\ info[at[c]].tid = NoTid
                 /\ \A d \in Callers \ {c} : Creating(d) => at[d] # at[c]
      <3>1. \A d \in Callers : Creating(d) => pc[d] # "idle"
        BY DEF Creating, CreatePCs, FreePCs
      <3>2. \A d \in Callers \ {c} : Creating(d) => at[d] # at[c]
        BY <2>2, <3>1 DEF LifeInv, Exclusive
      <3> QED
        BY <2>2, <3>2 DEF LifeInv, CreatorSlots, CreatorAt
    <2> QED
      BY <2>1, <2>2 DEF SlotOwned
  <1> QED
    BY <1>1, LifeInvariance, PTL

(* thread_join/2 returns with the slot of the thread that it was asked to  *)
(* wait for, whose status tells how that thread ended.                     *)
THEOREM JoinedIsOwn ==
  ASSUME Disciplined, DetachedStarts
  PROVE  Spec => []JoinsItsOwn
  <1>1. LifeInv => JoinsItsOwn
    <2> SUFFICES ASSUME LifeInv, NEW c \in Callers, pc[c] = "joined"
                 PROVE  /\ info[at[c]].tid = want[c]
                        /\ info[at[c]].status \in Final
      BY DEF JoinsItsOwn
    <2>1. call[c] = "join"
      BY DEF LifeInv, CallAt, CallOf
    <2>2. /\ want[c] # NoTid /\ info[at[c]].tid = want[c]
          /\ pc[want[c]] = "idle"
      BY <2>1 DEF LifeInv, JoinerSlots, JoinerAt
    <2>3. want[c] \in Tids /\ at[c] \in Slots
      BY <2>2, ActorKinds DEF LifeInv, Typed
    <2>4. ThreadAt(want[c])
      BY <2>3 DEF LifeInv, ThreadSlots
    <2> QED
      BY <2>2, <2>3, <2>4 DEF ThreadAt
  <1> QED
    BY <1>1, LifeInvariance, PTL

(* threadTable maps the name of a thread to the slot of that thread, from  *)
(* aliasThread() to unaliasThread().                                       *)
THEOREM AliasesTrue ==
  ASSUME Disciplined, DetachedStarts
  PROVE  Spec => []AliasTrue
  <1>1. LifeInv => AliasTrue
    BY DEF LifeInv
  <1> QED
    BY <1>1, LifeInvariance, PTL

=============================================================================
