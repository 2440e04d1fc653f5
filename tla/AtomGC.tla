------------------------------- MODULE AtomGC -------------------------------
(***************************************************************************)
(* The atom garbage collector (src/src/pl-atom.c, AGC): it marks what the  *)
(* stacks, the findall bags and the message queues of all threads refer to *)
(* while these threads run, and reclaims the atoms that are neither marked *)
(* nor registered by a structure.                                          *)
(*                                                                         *)
(* One message queue stands for all: it belongs to the thread Owner, or it *)
(* is in the queue table.  The collector holds L_GC, L_THREAD, L_AGC and   *)
(* L_ATOM: nobody enters a queue that has a name, creates an atom or       *)
(* enters stack GC while it runs.  It is a thread outside of Threads; its  *)
(* own stacks are still.                                                   *)
(***************************************************************************)
EXTENDS Naturals, Sequences, FiniteSets

CONSTANTS
  ThreadMax,    \* the threads are 1..ThreadMax, in the order of their slots
  AtomMax,      \* the atoms are 1..AtomMax, in the order of the array
  Structures,   \* clauses, records, flags: what registers the atom it holds
  Owner,        \* the thread that the queue belongs to, or
  NoThread,     \* no thread
  Anonymous,    \* the queue has no name
  NoStructure,
  Registrars,   \* threads that create, register and unregister atoms
  MoveTo,       \* the areas that a thread copies its atoms to
  QueueBound

Threads == 1..ThreadMax
Atoms == 1..AtomMax
NoAtom == 0
Areas == {"global", "local"}

ASSUME AtomAssumption ==
  /\ ThreadMax \in Nat \ {0} /\ AtomMax \in Nat \ {0} /\ QueueBound \in Nat
  /\ NoThread \notin Threads /\ Owner \in Threads \cup {NoThread}
  /\ Anonymous \in BOOLEAN /\ (Anonymous => Owner = NoThread)
  /\ IsFiniteSet(Structures) /\ Structures \cap Threads = {}
  /\ NoStructure \notin Structures
  /\ Registrars \subseteq Threads /\ MoveTo \subseteq Areas

VARIABLES
  present,        \* the atoms of GD->atoms.array
  refs,           \* a->references without
  marked,         \* the atoms with ATOM_MARKED_REFERENCE set in it
  holds,          \* the atom that a structure holds
  stack,          \* the atoms on the stacks of a thread
  messages,       \* the atoms of the messages in the queue
  qlock,          \* the thread that holds queue->mutex
  agc,            \* how far the collector is
  pc,             \* what each thread is doing,
  hand,           \* the atom it does it with,
  using,          \* the structure it reads, and
  unregistering,  \* LD->atoms.unregistering
  doomed          \* history: the garbage there was as the collector started

vars == <<present, refs, marked, holds, stack, messages, qlock, agc, pc, hand,
          using, unregistering, doomed>>
atomVars == <<present, refs, marked>>
queueVars == <<messages, qlock>>
agcVars == <<agc, doomed>>

PCs == {"idle", "found", "drop", "swap", "note", "dec", "write", "send", "get",
        "waiting", "got", "unlink", "peek", "gc"}

(* GD->atoms.gc_active *)
gc_active == agc.phase # "idle"

Stacked(t) == stack[t]["global"] \cup stack[t]["local"]
Queued == {messages[k] : k \in DOMAIN messages}

-----------------------------------------------------------------------------
Init ==
  /\ present = {} /\ marked = {}
  /\ refs = [a \in Atoms |-> 0]
  /\ holds = [s \in Structures |-> NoAtom]
  /\ stack = [t \in Threads |-> [x \in Areas |-> {}]]
  /\ messages = <<>> /\ qlock = NoThread
  /\ agc = [phase |-> "idle", at |-> 1]
  /\ pc = [t \in Threads |-> "idle"]
  /\ hand = [t \in Threads |-> NoAtom]
  /\ using = [t \in Threads |-> NoStructure]
  /\ unregistering = [t \in Threads |-> NoAtom]
  /\ doomed = {}

Goto(t, next) == pc' = [pc EXCEPT ![t] = next]
Push(t, area, a) == stack' = [stack EXCEPT ![t][area] = @ \cup {a}]

-----------------------------------------------------------------------------
(* A thread creates an atom, or finds it, and puts it on its stack. *)

(* lookupBlob() *)
Lookup(t, a) ==
  /\ t \in Registrars /\ pc[t] = "idle" /\ ~gc_active
  /\ present' = present \cup {a}
  /\ refs' = [refs EXCEPT ![a] = IF a \in present THEN @ + 1 ELSE 1]
  /\ marked' = IF a \in present THEN marked ELSE marked \ {a}
  /\ hand' = [hand EXCEPT ![t] = a]
  /\ Goto(t, "found")
  /\ UNCHANGED <<holds, stack, using, unregistering>>
  /\ UNCHANGED queueVars /\ UNCHANGED agcVars

(* PL_put_atom() or PL_unify_atom(); PL_unregister_atom() follows. *)
PutAtom(t) ==
  /\ pc[t] = "found"
  /\ Push(t, "local", hand[t])
  /\ Goto(t, "drop")
  /\ UNCHANGED <<holds, hand, using, unregistering>>
  /\ UNCHANGED atomVars /\ UNCHANGED queueVars /\ UNCHANGED agcVars

(* PL_unregister_atom() looks at gc_active,                                *)
Unregister(t) ==
  /\ pc[t] = "drop"
  /\ Goto(t, IF gc_active THEN "swap" ELSE "note")
  /\ UNCHANGED <<holds, stack, hand, using, unregistering>>
  /\ UNCHANGED atomVars /\ UNCHANGED queueVars /\ UNCHANGED agcVars

Release(t, a) ==
  /\ refs' = [refs EXCEPT ![a] = @ - 1]
  /\ hand' = [hand EXCEPT ![t] = NoAtom]
  /\ Goto(t, "idle")
  /\ UNCHANGED <<present, holds, stack, using, unregistering>>
  /\ UNCHANGED queueVars /\ UNCHANGED agcVars

(* and while the collector runs the last reference turns into a mark;      *)
Swap(t) ==
  /\ pc[t] = "swap"
  /\ marked' = IF refs[hand[t]] = 1 THEN marked \cup {hand[t]} ELSE marked
  /\ Release(t, hand[t])

(* else the atom is written down for the collector first.                  *)
Note(t) ==
  /\ pc[t] = "note"
  /\ unregistering' = [unregistering EXCEPT ![t] = hand[t]]
  /\ Goto(t, "dec")
  /\ UNCHANGED <<holds, stack, hand, using>>
  /\ UNCHANGED atomVars /\ UNCHANGED queueVars /\ UNCHANGED agcVars

Decrement(t) ==
  /\ pc[t] = "dec"
  /\ UNCHANGED marked
  /\ Release(t, hand[t])

AtomStep(t) ==
  PutAtom(t) \/ Unregister(t) \/ Swap(t) \/ Note(t) \/ Decrement(t)

-----------------------------------------------------------------------------
(* Structures that register the atom they hold. *)

(* Mutant: the structure does not register its atom. *)
StoreUnregistered(t, s) ==
  /\ t \in Registrars /\ pc[t] = "idle" /\ holds[s] = NoAtom
  /\ \E a \in Stacked(t) : holds' = [holds EXCEPT ![s] = a]
  /\ UNCHANGED <<stack, pc, hand, using, unregistering>>
  /\ UNCHANGED atomVars /\ UNCHANGED queueVars /\ UNCHANGED agcVars

(* PL_register_atom() of an atom of a stack. *)
Store(t, s) ==
  /\ t \in Registrars /\ pc[t] = "idle" /\ holds[s] = NoAtom
  /\ \E a \in Stacked(t) :
       /\ holds' = [holds EXCEPT ![s] = a]
       /\ refs' = [refs EXCEPT ![a] = @ + 1]
  /\ UNCHANGED <<present, marked, stack, pc, hand, using, unregistering>>
  /\ UNCHANGED queueVars /\ UNCHANGED agcVars

(* The structure is freed when nobody reads it. *)
Erase(t, s) ==
  /\ t \in Registrars /\ pc[t] = "idle"
  /\ holds[s] # NoAtom /\ \A u \in Threads : using[u] # s
  /\ holds' = [holds EXCEPT ![s] = NoAtom]
  /\ hand' = [hand EXCEPT ![t] = holds[s]]
  /\ Goto(t, "drop")
  /\ UNCHANGED <<stack, using, unregistering>>
  /\ UNCHANGED atomVars /\ UNCHANGED queueVars /\ UNCHANGED agcVars

(* H_ATOM and B_ATOM: an atom of a clause is marked while the collector    *)
(* runs,                                                                   *)
Load(t, s) ==
  /\ pc[t] = "idle" /\ holds[s] # NoAtom
  /\ marked' = IF gc_active THEN marked \cup {holds[s]} ELSE marked
  /\ hand' = [hand EXCEPT ![t] = holds[s]]
  /\ using' = [using EXCEPT ![t] = s]
  /\ Goto(t, "write")
  /\ UNCHANGED <<present, refs, holds, stack, unregistering>>
  /\ UNCHANGED queueVars /\ UNCHANGED agcVars

(* and stored in a frame or a term.                                        *)
Write(t) ==
  /\ pc[t] = "write"
  /\ \E x \in Areas : Push(t, x, hand[t])
  /\ hand' = [hand EXCEPT ![t] = NoAtom]
  /\ using' = [using EXCEPT ![t] = NoStructure]
  /\ Goto(t, "idle")
  /\ UNCHANGED <<holds, unregistering>>
  /\ UNCHANGED atomVars /\ UNCHANGED queueVars /\ UNCHANGED agcVars

-----------------------------------------------------------------------------
(* Message queues do not register atoms. *)

(* get_message_queue__LD() locks the queue, with L_THREAD held unless it   *)
(* is anonymous; thread_get_message/1 and thread_peek_message/1 lock the   *)
(* queue of their own thread without it.                                   *)
Enter(t, verb) ==
  /\ pc[t] = "idle" /\ qlock = NoThread
  /\ gc_active => Anonymous \/ (t = Owner /\ verb # "send")
  /\ verb = "send" => Stacked(t) # {} /\ Len(messages) < QueueBound
  /\ qlock' = t
  /\ Goto(t, verb)
  /\ UNCHANGED <<messages, holds, stack, hand, using, unregistering>>
  /\ UNCHANGED atomVars /\ UNCHANGED agcVars

Leave(t) ==
  /\ qlock' = NoThread
  /\ Goto(t, "idle")

(* queue_message() *)
Send(t) ==
  /\ pc[t] = "send"
  /\ \E a \in Stacked(t) : messages' = Append(messages, a)
  /\ Leave(t)
  /\ UNCHANGED <<holds, stack, hand, using, unregistering>>
  /\ UNCHANGED atomVars /\ UNCHANGED agcVars

(* get_message() waits, *)
Wait(t) ==
  /\ pc[t] = "get" /\ messages = <<>>
  /\ qlock' = NoThread
  /\ Goto(t, "waiting")
  /\ UNCHANGED <<messages, holds, stack, hand, using, unregistering>>
  /\ UNCHANGED atomVars /\ UNCHANGED agcVars

Wake(t) ==
  /\ pc[t] = "waiting" /\ messages # <<>> /\ qlock = NoThread
  /\ qlock' = t
  /\ Goto(t, "get")
  /\ UNCHANGED <<messages, holds, stack, hand, using, unregistering>>
  /\ UNCHANGED atomVars /\ UNCHANGED agcVars

(* copies the message,                                                     *)
Copy(t) ==
  /\ pc[t] = "get" /\ messages # <<>>
  /\ Push(t, "global", Head(messages))
  /\ Goto(t, "got")
  /\ UNCHANGED <<holds, hand, using, unregistering>>
  /\ UNCHANGED atomVars /\ UNCHANGED queueVars /\ UNCHANGED agcVars

(* marks its atoms while the collector runs,                               *)
MarkMessage(t) ==
  /\ pc[t] = "got"
  /\ marked' = IF gc_active THEN marked \cup {Head(messages)} ELSE marked
  /\ Goto(t, "unlink")
  /\ UNCHANGED <<present, refs, holds, stack, hand, using, unregistering>>
  /\ UNCHANGED queueVars /\ UNCHANGED agcVars

(* and unlinks it.                                                         *)
Unlink(t) ==
  /\ pc[t] = "unlink"
  /\ messages' = Tail(messages)
  /\ Leave(t)
  /\ UNCHANGED <<holds, stack, hand, using, unregistering>>
  /\ UNCHANGED atomVars /\ UNCHANGED agcVars

(* peek_message() finds a message that matches, or none. *)
Peek(t) ==
  /\ pc[t] = "peek"
  /\ \/ \E a \in Queued : Push(t, "global", a)
     \/ UNCHANGED stack
  /\ Leave(t)
  /\ UNCHANGED <<messages, holds, hand, using, unregistering>>
  /\ UNCHANGED atomVars /\ UNCHANGED agcVars

QueueStep(t) ==
  \/ Send(t) \/ Wait(t) \/ Wake(t) \/ Copy(t) \/ MarkMessage(t) \/ Unlink(t)
  \/ Peek(t)

-----------------------------------------------------------------------------
(* Prolog runs: an atom leaves a stack, or is copied to the other one. *)

Pop(t, x, a) ==
  /\ pc[t] = "idle" /\ a \in stack[t][x]
  /\ stack' = [stack EXCEPT ![t][x] = @ \ {a}]
  /\ UNCHANGED <<holds, pc, hand, using, unregistering>>
  /\ UNCHANGED atomVars /\ UNCHANGED queueVars /\ UNCHANGED agcVars

Move(t, x, a) ==
  /\ x \in MoveTo /\ pc[t] = "idle" /\ a \in Stacked(t) \ stack[t][x]
  /\ Push(t, x, a)
  /\ UNCHANGED <<holds, pc, hand, using, unregistering>>
  /\ UNCHANGED atomVars /\ UNCHANGED queueVars /\ UNCHANGED agcVars

(* enterGC() and leaveGC() *)
EnterGC(t) ==
  /\ pc[t] = "idle" /\ ~gc_active
  /\ Goto(t, "gc")
  /\ UNCHANGED <<holds, stack, hand, using, unregistering>>
  /\ UNCHANGED atomVars /\ UNCHANGED queueVars /\ UNCHANGED agcVars

LeaveGC(t) ==
  /\ pc[t] = "gc"
  /\ Goto(t, "idle")
  /\ UNCHANGED <<holds, stack, hand, using, unregistering>>
  /\ UNCHANGED atomVars /\ UNCHANGED queueVars /\ UNCHANGED agcVars

-----------------------------------------------------------------------------
(* pl_garbage_collect_atoms() *)

(* What somebody can still get hold of, or that some structure registers.  *)
InUse ==
  Queued \cup (UNION {Stacked(t) : t \in Threads})
  \cup {a \in Atoms : refs[a] # 0}

BeginAGC ==
  /\ agc.phase = "idle"
  /\ agc' = [phase |-> "unmark", at |-> 1]
  /\ doomed' = present \ (InUse \cup {unregistering[t] : t \in Threads})
  /\ UNCHANGED <<holds, stack, pc, hand, using, unregistering>>
  /\ UNCHANGED atomVars /\ UNCHANGED queueVars

(* It is put off while a thread is in stack GC. *)
Start == BeginAGC /\ \A t \in Threads : pc[t] # "gc"

(* The next step of a loop up to max; another phase follows it. *)
Loop(max, phase) ==
  agc' = IF agc.at < max THEN [agc EXCEPT !.at = @ + 1]
         ELSE [phase |-> phase, at |-> 1]

(* Mutant: the marks of the time before stay. *)
UnmarkNothing ==
  /\ agc.phase = "unmark"
  /\ Loop(AtomMax, "mark")
  /\ UNCHANGED <<holds, stack, pc, hand, using, unregistering, doomed>>
  /\ UNCHANGED atomVars /\ UNCHANGED queueVars

(* unmarkAtoms() *)
Unmark ==
  /\ agc.phase = "unmark"
  /\ marked' = marked \ {agc.at}
  /\ Loop(AtomMax, "mark")
  /\ UNCHANGED <<present, refs, holds, stack, pc, hand, using, unregistering,
                 doomed>>
  /\ UNCHANGED queueVars

(* Mutant: LD->atoms.unregistering is not marked. *)
UnnotedParts == <<"queue", "global", "local", "queue">>

(* markAtomsOnStacks() goes for each thread over what it unregisters, its  *)
(* global stack, its local stack and its queue; then come the queues of    *)
(* the queue table.                                                        *)
Parts == <<"unregistering", "global", "local", "queue">>
Marks == 4 * ThreadMax + 1

Roots(k) ==
  LET t == ((k - 1) \div 4) + 1
      part == Parts[((k - 1) % 4) + 1]
  IN
  IF k = Marks THEN (IF Owner = NoThread THEN Queued ELSE {})
  ELSE IF part = "unregistering" THEN {unregistering[t]}
  ELSE IF part = "queue" THEN (IF Owner = t THEN Queued ELSE {})
  ELSE stack[t][part]

(* markAtom() ignores what is not an atom. *)
Mark ==
  /\ agc.phase = "mark"
  /\ marked' = marked \cup (Roots(agc.at) \cap present)
  /\ Loop(Marks, "sweep")
  /\ UNCHANGED <<present, refs, holds, stack, pc, hand, using, unregistering,
                 doomed>>
  /\ UNCHANGED queueVars

(* collectAtoms() *)
Sweep ==
  LET a == agc.at IN
  /\ agc.phase = "sweep"
  /\ present' = IF refs[a] = 0 /\ a \notin marked THEN present \ {a}
                ELSE present
  /\ marked' = marked \ {a}
  /\ Loop(AtomMax, "done")
  /\ UNCHANGED <<refs, holds, stack, pc, hand, using, unregistering, doomed>>
  /\ UNCHANGED queueVars

(* gc_active is reset. *)
Finish ==
  /\ agc.phase = "done"
  /\ agc' = [agc EXCEPT !.phase = "idle"]
  /\ UNCHANGED <<holds, stack, pc, hand, using, unregistering, doomed>>
  /\ UNCHANGED atomVars /\ UNCHANGED queueVars

CollectorStep == Start \/ Unmark \/ Mark \/ Sweep \/ Finish

-----------------------------------------------------------------------------
Next ==
  \/ \E t \in Threads :
       \/ \E a \in Atoms : Lookup(t, a)
       \/ AtomStep(t)
       \/ \E s \in Structures : Store(t, s) \/ Erase(t, s) \/ Load(t, s)
       \/ Write(t)
       \/ \E verb \in {"send", "get", "peek"} : Enter(t, verb)
       \/ QueueStep(t)
       \/ \E x \in Areas, a \in Atoms : Pop(t, x, a) \/ Move(t, x, a)
       \/ EnterGC(t) \/ LeaveGC(t)
  \/ CollectorStep

Spec == Init /\ [][Next]_vars

-----------------------------------------------------------------------------
(* TLC finds three windows in which the collector loses an atom; nothing   *)
(* in the code closes them.                                                *)

(* A thread has seen that no collector runs and has yet to write down the  *)
(* atom that it unregisters.                                               *)
Unnoted == \E t \in Threads : pc[t] = "note"

(* The global stack of a thread has been marked, and its local one not.    *)
BetweenStacks(t) == agc.phase = "mark" /\ agc.at = 4 * t - 1

(* The queue has been marked, right after the stacks of its owner, and the *)
(* stacks of a thread not.                                                 *)
QueuePart == IF Owner = NoThread THEN Marks ELSE 4 * Owner
AfterQueue(t) ==
  agc.phase = "mark" /\ QueuePart < agc.at /\ agc.at <= 4 * t - 1

(* The behaviours that keep out of them: no collection starts in the       *)
(* first, and no atom is copied to the global stack in the second or sent  *)
(* in the third.                                                           *)
Orderly ==
  /\ Start => ~Unnoted
  /\ \A t \in Threads :
       /\ BetweenStacks(t) => \A a \in Atoms : ~Move(t, "global", a)
       /\ AfterQueue(t) => ~Send(t)

OrderlySpec == Init /\ [][Next /\ Orderly]_vars

-----------------------------------------------------------------------------
(* The type of every variable. *)
TypeOK ==
  /\ present \subseteq Atoms /\ marked \subseteq Atoms
  /\ refs \in [Atoms -> Nat]
  /\ holds \in [Structures -> Atoms \cup {NoAtom}]
  /\ stack \in [Threads -> [Areas -> SUBSET Atoms]]
  /\ messages \in Seq(Atoms) /\ qlock \in Threads \cup {NoThread}
  /\ agc \in [phase : {"idle", "unmark", "mark", "sweep", "done"}, at : Nat \ {0}]
  /\ pc \in [Threads -> PCs]
  /\ hand \in [Threads -> Atoms \cup {NoAtom}]
  /\ using \in [Threads -> Structures \cup {NoStructure}]
  /\ unregistering \in [Threads -> Atoms \cup {NoAtom}]
  /\ doomed \subseteq Atoms

(* No atom is reclaimed while a stack, a message, a structure or a thread  *)
(* that works with it refers to it.                                        *)
NoDangling ==
  /\ Queued \subseteq present
  /\ \A t \in Threads : Stacked(t) \subseteq present
  /\ \A s \in Structures : holds[s] # NoAtom => holds[s] \in present
  /\ \A t \in Threads : hand[t] # NoAtom => hand[t] \in present

(* The references of an atom are the structures that hold it and the       *)
(* threads that have yet to unregister it.                                 *)
Registered(a) ==
  {s \in Structures : holds[s] = a} \cup
  {t \in Threads : hand[t] = a /\ pc[t] # "write"}

RefsExact == \A a \in Atoms : refs[a] = Cardinality(Registered(a))

(* The collector never looks at the stacks of a thread that moves them:    *)
(* assert(!ld->gc.status.active) in markAtomsOnStacks().                   *)
StacksStill == gc_active => \A t \in Threads : pc[t] # "gc"

(* What was garbage as the collector started is gone when it is done.      *)
GarbageGoes == agc.phase = "done" => doomed \cap present = {}
=============================================================================
