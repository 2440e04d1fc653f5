---------------------------- MODULE AtomGC_proofs ----------------------------
(***************************************************************************)
(* Proofs about AtomGC, for any threads, atoms and structures, whichever   *)
(* threads register atoms and wherever the queue is and atoms are copied   *)
(* to.  Nothing dangles in the behaviours that keep out of the three       *)
(* windows of Orderly; while nothing dangles, the references are exact and *)
(* garbage goes.                                                           *)
(***************************************************************************)
EXTENDS AtomGC, FiniteSetTheorems, TLAPS

(* The steps of a thread, by what they do to registrations: none, the hand *)
(* keeps its atom, or lets it go.                                          *)
PlainStep(t) ==
  \/ \E verb \in {"send", "get", "peek"} : Enter(t, verb)
  \/ QueueStep(t)
  \/ \E x \in Areas, a \in Atoms : Pop(t, x, a) \/ Move(t, x, a)
  \/ EnterGC(t) \/ LeaveGC(t)
KeepStep(t) == PutAtom(t) \/ Unregister(t) \/ Note(t)
DropStep(t) == Swap(t) \/ Decrement(t)

ThreadStep(t) ==
  \/ PlainStep(t) \/ KeepStep(t) \/ DropStep(t) \/ Write(t)
  \/ \E a \in Atoms : Lookup(t, a)
  \/ \E s \in Structures : Store(t, s) \/ Erase(t, s) \/ Load(t, s)

(* The thread of these has yet to unregister the atom in its hand. *)
Registering == {"found", "drop", "swap", "note", "dec"}
Locked == {"send", "get", "got", "unlink", "peek"}

(* A hand is full while it registers or writes; what is written is held by *)
(* the structure that is read.                                             *)
Hands ==
  \A t \in Threads :
    /\ hand[t] # NoAtom <=> pc[t] \in Registering \cup {"write"}
    /\ pc[t] \in Registering => t \in Registrars
    /\ pc[t] = "write" =>
         using[t] \in Structures /\ holds[using[t]] = hand[t]

(* Who is inside the queue has its lock and, past its head, a message. *)
QueueHeld ==
  \A t \in Threads :
    /\ pc[t] \in Locked => qlock = t
    /\ pc[t] \in {"got", "unlink"} => messages # <<>>

(* The loops of the collector stay within their bounds. *)
Bounds ==
  /\ agc.phase \in {"unmark", "sweep"} => agc.at <= AtomMax
  /\ agc.phase = "mark" => agc.at <= Marks

RefsPresent == \A a \in Atoms : refs[a] # 0 => a \in present

CInv ==
  TypeOK /\ Hands /\ QueueHeld /\ Bounds /\ RefsExact /\ RefsPresent

(* The garbage there was stays garbage, loses its marks and is swept. *)
DoomedUnused ==
  gc_active =>
    \A a \in doomed :
      /\ refs[a] = 0 /\ a \notin Queued
      /\ \A t \in Threads : a \notin Stacked(t) /\ a # unregistering[t]

DoomedUnmarked ==
  \A a \in doomed \cap marked :
    gc_active => agc.phase = "unmark" /\ a >= agc.at

DoomedSwept ==
  /\ agc.phase = "sweep" => \A a \in doomed \cap present : a >= agc.at
  /\ GarbageGoes

GInv == DoomedUnused /\ DoomedUnmarked /\ DoomedSwept

(* A thread has written the atom down, and the collector has yet to look.  *)
Noted(a) ==
  /\ agc.phase = "mark"
  /\ \E t \in Threads : unregistering[t] = a /\ agc.at <= 4 * t - 3

(* The collector cannot miss such an atom any more. *)
Protected(a) ==
  \/ a \in marked \/ Noted(a)
  \/ \E s \in Structures : holds[s] = a
  \/ \E t \in Threads : hand[t] = a /\ pc[t] \in {"found", "drop", "swap"}

(* The messages that will be there when the collector gets to the queue:   *)
(* the first one may be on its way out.                                    *)
StillQueued ==
  {messages[k] : k \in {i \in DOMAIN messages :
                          i > 1 \/ \A t \in Threads : pc[t] # "unlink"}}

(* A thread that decrements without a mark has written its atom down before *)
(* the collector started, which finds it there.                            *)
NotesMarked ==
  /\ gc_active => ~Unnoted
  /\ \A t \in Threads : pc[t] = "dec" =>
       /\ unregistering[t] = hand[t]
       /\ agc.phase = "mark" => hand[t] \in marked \/ agc.at <= 4 * t - 3
       /\ agc.phase = "sweep" => hand[t] \in marked \/ hand[t] < agc.at

(* What is on a stack that was marked is protected or comes with the queue. *)
Covered(A) == \A a \in A : Protected(a) \/ a \in StillQueued

ScannedCovered ==
  agc.phase = "mark" =>
    /\ agc.at > QueuePart => \A a \in Queued : Protected(a)
    /\ \A t \in Threads :
         /\ agc.at > 4 * t - 2 => Covered(stack[t]["global"])
         /\ agc.at > 4 * t - 1 => Covered(stack[t]["local"])

(* While it sweeps, what is still to come and reachable is protected. *)
SweptProtected ==
  agc.phase = "sweep" =>
    \A a \in Queued \cup UNION {Stacked(t) : t \in Threads} :
      Protected(a) \/ a < agc.at

SInv == NoDangling /\ NotesMarked /\ ScannedCovered /\ SweptProtected
-----------------------------------------------------------------------------
LEMMA Steps == Next => CollectorStep \/ \E t \in Threads : ThreadStep(t)
  BY DEF Next, ThreadStep, PlainStep, KeepStep, DropStep, AtomStep

(* An atom is not NoAtom, a thread is not NoThread. *)
LEMMA Names ==
  /\ NoAtom \notin Atoms /\ Atoms \subseteq Nat /\ Threads \subseteq Nat \ {0}
  /\ NoThread \notin Threads /\ NoStructure \notin Structures
  /\ AtomMax \in Nat \ {0} /\ ThreadMax \in Nat \ {0} /\ Marks \in Nat \ {0}
  /\ QueuePart \in Nat \ {0}
  BY AtomAssumption DEF Atoms, Threads, NoAtom, Marks, QueuePart

LEMMA QueuedAtoms ==
  ASSUME TypeOK
  PROVE  /\ Queued \subseteq Atoms
         /\ messages # <<>> =>
              /\ Head(messages) \in Queued /\ Head(messages) \in Atoms
              /\ Tail(messages) \in Seq(Atoms)
         /\ \A t \in Threads : Stacked(t) \subseteq Atoms
  <1>1. messages \in Seq(Atoms)
    BY DEF TypeOK
  <1>2. Queued \subseteq Atoms
    BY <1>1 DEF Queued
  <1>3. ASSUME messages # <<>>
        PROVE  /\ Head(messages) \in Queued /\ Head(messages) \in Atoms
               /\ Tail(messages) \in Seq(Atoms)
    BY <1>1, <1>3 DEF Queued
  <1>4. \A t \in Threads : Stacked(t) \subseteq Atoms
    BY DEF TypeOK, Stacked, Areas
  <1> QED BY <1>2, <1>3, <1>4

(* What the plain steps leave alone. *)
LEMMA PlainKeeps ==
  ASSUME TypeOK, QueueHeld, NEW t \in Threads, PlainStep(t)
  PROVE  /\ UNCHANGED <<present, refs, holds, hand, using, unregistering, agc, doomed>>
         /\ \A u \in Threads \ {t} : pc'[u] = pc[u]
         /\ pc' \in [Threads -> PCs]
         /\ {pc[t], pc'[t]} \cap (Registering \cup {"write"}) = {}
         /\ \/ marked' = marked
            \/ pc[t] = "got" /\ gc_active /\ marked' = marked \cup {Head(messages)}
  <1>1. CASE \E verb \in {"send", "get", "peek"} : Enter(t, verb)
    BY <1>1 DEF Enter, Goto, TypeOK, PCs, Registering, atomVars, agcVars
  <1>2. CASE Send(t) \/ Wait(t) \/ Wake(t) \/ Copy(t)
    BY <1>2 DEF Send, Wait, Wake, Copy, Leave, Goto, TypeOK, PCs, Registering, atomVars, agcVars
  <1>3. CASE MarkMessage(t) \/ Unlink(t) \/ Peek(t)
    BY <1>3 DEF MarkMessage, Unlink, Peek, Leave, Goto, TypeOK, PCs, Registering, atomVars, agcVars
  <1>4. CASE \E x \in Areas, a \in Atoms : Pop(t, x, a) \/ Move(t, x, a)
    BY <1>4 DEF Pop, Move, TypeOK, PCs, Registering, atomVars, agcVars
  <1>5. CASE EnterGC(t) \/ LeaveGC(t)
    BY <1>5 DEF EnterGC, LeaveGC, Goto, TypeOK, PCs, Registering, atomVars, agcVars
  <1> QED BY <1>1, <1>2, <1>3, <1>4, <1>5 DEF PlainStep, QueueStep

LEMMA KeepKeeps ==
  ASSUME TypeOK, NEW t \in Threads, KeepStep(t)
  PROVE  /\ UNCHANGED <<present, refs, marked, holds, hand, using, messages, qlock, agc, doomed>>
         /\ \A u \in Threads \ {t} : pc'[u] = pc[u]
         /\ pc' \in [Threads -> PCs]
         /\ {pc[t], pc'[t]} \subseteq Registering
  BY DEF KeepStep, PutAtom, Unregister, Note, Goto, TypeOK, PCs, Registering, atomVars,
         queueVars, agcVars

-----------------------------------------------------------------------------
(* What registers an atom is finite, and counted by its references. *)
LEMMA Counting ==
  ASSUME NEW a
  PROVE  IsFiniteSet(Registered(a)) /\ Cardinality(Registered(a)) \in Nat
  <1>1. IsFiniteSet(Structures \cup Threads)
    <2>1. IsFiniteSet(1..ThreadMax)
      <3>1. 1 \in Int /\ ThreadMax \in Int
        BY AtomAssumption
      <3> QED
        BY <3>1, FS_Interval
    <2> QED BY <2>1, AtomAssumption, FS_Union DEF Threads
  <1>2. Registered(a) \in SUBSET (Structures \cup Threads)
    BY DEF Registered
  <1> QED BY <1>1, <1>2, FS_Subset, FS_CardinalityType

LEMMA RefsThread ==
  ASSUME TypeOK, Hands, QueueHeld, RefsExact, RefsPresent, NEW t \in Threads, ThreadStep(t)
  PROVE  RefsExact' /\ refs' \in [Atoms -> Nat]
  <1>0. /\ Structures \cap Threads = {} /\ NoAtom \notin Atoms
        /\ \A a \in Atoms : refs[a] = Cardinality(Registered(a))
    BY AtomAssumption, Names DEF RefsExact
  <1>1. ASSUME refs' = refs, \A a \in Atoms : Registered(a)' = Registered(a)
        PROVE  RefsExact' /\ refs' \in [Atoms -> Nat]
    BY <1>0, <1>1 DEF RefsExact, TypeOK
  <1>2. ASSUME NEW a \in Atoms, NEW x, x \notin Registered(a), Registered(a)' = Registered(a) \cup {x},
               refs' = [refs EXCEPT ![a] = @ + 1],
               \A b \in Atoms \ {a} : Registered(b)' = Registered(b)
        PROVE  RefsExact' /\ refs' \in [Atoms -> Nat]
    <2>1. Cardinality(Registered(a)') = Cardinality(Registered(a)) + 1
      BY <1>2, Counting, FS_AddElement
    <2>2. ASSUME NEW b \in Atoms
          PROVE  refs'[b] = Cardinality(Registered(b)')
      <3>1. CASE b = a
        BY <1>0, <1>2, <2>1, <3>1 DEF TypeOK
      <3>2. CASE b # a
        BY <1>0, <1>2, <3>2 DEF TypeOK
      <3> QED BY <3>1, <3>2
    <2>3. refs' \in [Atoms -> Nat]
      BY <1>2 DEF TypeOK
    <2> QED BY <2>2, <2>3 DEF RefsExact
  <1>3. ASSUME NEW a \in Atoms, NEW x, x \in Registered(a), Registered(a)' = Registered(a) \ {x},
               refs' = [refs EXCEPT ![a] = @ - 1],
               \A b \in Atoms \ {a} : Registered(b)' = Registered(b)
        PROVE  RefsExact' /\ refs' \in [Atoms -> Nat]
    <2>1. /\ Cardinality(Registered(a)') = Cardinality(Registered(a)) - 1
          /\ Cardinality(Registered(a)') \in Nat
      <3>1. IsFiniteSet(Registered(a)) /\ IsFiniteSet(Registered(a) \ {x})
            /\ Cardinality(Registered(a) \ {x}) = Cardinality(Registered(a)) - 1
        BY <1>3, Counting, FS_RemoveElement
      <3> QED BY <1>3, <3>1, FS_CardinalityType
    <2>2. ASSUME NEW b \in Atoms
          PROVE  refs'[b] = Cardinality(Registered(b)')
      <3>1. CASE b = a
        BY <1>0, <1>3, <2>1, <3>1 DEF TypeOK
      <3>2. CASE b # a
        BY <1>0, <1>3, <3>2 DEF TypeOK
      <3> QED BY <3>1, <3>2
    <2>3. refs' \in [Atoms -> Nat]
      <3>1. refs[a] - 1 \in Nat
        BY <1>0, <2>1, <2>2, <1>3 DEF TypeOK
      <3> QED BY <1>3, <3>1 DEF TypeOK
    <2> QED BY <2>2, <2>3 DEF RefsExact
  <1>4. CASE PlainStep(t)
    <2>1. \A u \in Threads : hand'[u] = hand[u] /\ (hand[u] # NoAtom =>
              (pc'[u] # "write" <=> pc[u] # "write"))
      BY <1>4, PlainKeeps DEF Hands, TypeOK
    <2>2. \A a \in Atoms : Registered(a)' = Registered(a)
      BY <1>0, <1>4, <2>1, PlainKeeps DEF Registered
    <2> QED BY <1>1, <1>4, <2>2, PlainKeeps
  <1>5. CASE KeepStep(t)
    <2>1. \A u \in Threads : pc'[u] # "write" <=> pc[u] # "write"
      BY <1>5, KeepKeeps DEF Registering, TypeOK
    <2>2. \A a \in Atoms : Registered(a)' = Registered(a)
      BY <1>5, <2>1, KeepKeeps DEF Registered
    <2> QED BY <1>1, <1>5, <2>2, KeepKeeps
  <1>6. CASE DropStep(t)
    <2>1. PICK a \in Atoms :
            /\ hand[t] = a /\ pc[t] \in {"swap", "dec"}
            /\ refs' = [refs EXCEPT ![a] = @ - 1] /\ holds' = holds
            /\ hand' = [hand EXCEPT ![t] = NoAtom] /\ pc' = [pc EXCEPT ![t] = "idle"]
      BY <1>6 DEF DropStep, Swap, Decrement, Release, Goto, Hands, Registering, TypeOK
    <2>2. t \in Registered(a)
      BY <2>1 DEF Registered
    <2>3. Registered(a)' = Registered(a) \ {t}
      BY <1>0, <2>1 DEF Registered, TypeOK
    <2>4. \A b \in Atoms \ {a} : Registered(b)' = Registered(b)
      BY <1>0, <2>1 DEF Registered, TypeOK
    <2> QED BY <1>3, <2>1, <2>2, <2>3, <2>4
  <1>7. CASE Write(t)
    <2>1. /\ pc[t] = "write" /\ refs' = refs /\ holds' = holds
          /\ hand' = [hand EXCEPT ![t] = NoAtom] /\ pc' = [pc EXCEPT ![t] = "idle"]
      BY <1>7 DEF Write, Goto, atomVars
    <2>2. \A a \in Atoms : Registered(a)' = Registered(a)
      BY <1>0, <2>1 DEF Registered, TypeOK
    <2> QED BY <1>1, <2>1, <2>2
  <1>8. ASSUME NEW a \in Atoms, Lookup(t, a)
        PROVE  RefsExact' /\ refs' \in [Atoms -> Nat]
    <2>0. a \notin present => refs[a] + 1 = 1
      BY DEF RefsPresent, TypeOK
    <2>1. /\ hand[t] = NoAtom /\ holds' = holds
          /\ hand' = [hand EXCEPT ![t] = a] /\ pc' = [pc EXCEPT ![t] = "found"]
          /\ refs' = [refs EXCEPT ![a] = @ + 1]
      BY <1>8, <2>0 DEF Lookup, Goto, Hands, Registering, TypeOK
    <2>2. t \notin Registered(a) /\ Registered(a)' = Registered(a) \cup {t}
      BY <1>0, <2>1 DEF Registered, TypeOK
    <2>3. \A b \in Atoms \ {a} : Registered(b)' = Registered(b)
      BY <1>0, <2>1 DEF Registered, TypeOK
    <2> QED BY <1>2, <2>1, <2>2, <2>3
  <1>9. ASSUME NEW s \in Structures, Store(t, s)
        PROVE  RefsExact' /\ refs' \in [Atoms -> Nat]
    <2>1. PICK a \in Atoms : /\ holds[s] = NoAtom /\ holds' = [holds EXCEPT ![s] = a]
                             /\ refs' = [refs EXCEPT ![a] = @ + 1]
                             /\ hand' = hand /\ pc' = pc
      BY <1>9, QueuedAtoms DEF Store
    <2>2. s \notin Registered(a) /\ Registered(a)' = Registered(a) \cup {s}
      BY <1>0, <2>1 DEF Registered, TypeOK
    <2>3. \A b \in Atoms \ {a} : Registered(b)' = Registered(b)
      BY <1>0, <2>1 DEF Registered, TypeOK
    <2> QED BY <1>2, <2>1, <2>2, <2>3
  <1>10. ASSUME NEW s \in Structures, Erase(t, s)
         PROVE  RefsExact' /\ refs' \in [Atoms -> Nat]
    <2>1. PICK a \in Atoms :
            /\ holds[s] = a /\ hand[t] = NoAtom
            /\ holds' = [holds EXCEPT ![s] = NoAtom] /\ refs' = refs
            /\ hand' = [hand EXCEPT ![t] = a] /\ pc' = [pc EXCEPT ![t] = "drop"]
      BY <1>10 DEF Erase, Goto, Hands, Registering, TypeOK, atomVars
    <2>2. s \in Registered(a) /\ t \notin Registered(a)
      BY <1>0, <2>1 DEF Registered
    <2>3. Registered(a)' = (Registered(a) \ {s}) \cup {t}
      BY <1>0, <2>1 DEF Registered, TypeOK
    <2>4. \A b \in Atoms \ {a} : Registered(b)' = Registered(b)
      BY <1>0, <2>1 DEF Registered, TypeOK
    <2>5. Cardinality(Registered(a)') = Cardinality(Registered(a))
      <3>1. /\ IsFiniteSet(Registered(a) \ {s})
            /\ Cardinality(Registered(a) \ {s}) = Cardinality(Registered(a)) - 1
        BY <2>2, Counting, FS_RemoveElement
      <3>2. t \notin Registered(a) \ {s}
        BY <2>2
      <3>3. Cardinality((Registered(a) \ {s}) \cup {t}) = Cardinality(Registered(a) \ {s}) + 1
        BY <3>1, <3>2, FS_AddElement
      <3> QED BY <2>3, <3>1, <3>3, Counting
    <2>6. \A b \in Atoms \ {a} : Cardinality(Registered(b)') = Cardinality(Registered(b))
      BY <2>4
    <2> QED BY <1>0, <2>1, <2>5, <2>6 DEF RefsExact, TypeOK
  <1>11. ASSUME NEW s \in Structures, Load(t, s)
         PROVE  RefsExact' /\ refs' \in [Atoms -> Nat]
    <2>1. /\ hand[t] = NoAtom /\ refs' = refs /\ holds' = holds
          /\ hand' = [hand EXCEPT ![t] = holds[s]] /\ pc' = [pc EXCEPT ![t] = "write"]
      BY <1>11 DEF Load, Goto, Hands, Registering, TypeOK
    <2>2. \A a \in Atoms : Registered(a)' = Registered(a)
      BY <1>0, <2>1 DEF Registered, TypeOK
    <2> QED BY <1>1, <2>1, <2>2
  <1> QED BY <1>4, <1>5, <1>6, <1>7, <1>8, <1>9, <1>10, <1>11 DEF ThreadStep

LEMMA TypesThread ==
  ASSUME TypeOK, Hands, QueueHeld, refs' \in [Atoms -> Nat], NEW t \in Threads, ThreadStep(t)
  PROVE  TypeOK'
  <1>0. /\ Queued \subseteq Atoms /\ \A u \in Threads : Stacked(u) \subseteq Atoms
        /\ messages # <<>> => /\ Head(messages) \in Queued /\ Head(messages) \in Atoms
                              /\ Tail(messages) \in Seq(Atoms)
    BY QueuedAtoms
  <1>1. ASSUME NEW x \in Areas, NEW a \in Atoms
        PROVE  [stack EXCEPT ![t][x] = @ \cup {a}] \in [Threads -> [Areas -> SUBSET Atoms]]
    BY DEF TypeOK
  <1>2. CASE \E verb \in {"send", "get", "peek"} : Enter(t, verb)
    BY <1>2 DEF Enter, Goto, TypeOK, PCs, atomVars, agcVars
  <1>3. CASE Send(t)
    <2>1. PICK a \in Atoms : messages' = Append(messages, a)
      BY <1>0, <1>3 DEF Send
    <2>2. messages' \in Seq(Atoms)
      BY <2>1 DEF TypeOK
    <2> QED BY <1>3, <2>2 DEF Send, Leave, Goto, TypeOK, PCs, atomVars, agcVars
  <1>4. CASE Wait(t) \/ Wake(t)
    BY <1>4 DEF Wait, Wake, Goto, TypeOK, PCs, atomVars, agcVars
  <1>5. CASE Copy(t)
    <2>1. stack' \in [Threads -> [Areas -> SUBSET Atoms]]
      BY <1>0, <1>1, <1>5 DEF Copy, Push, Areas
    <2> QED BY <1>5, <2>1 DEF Copy, Goto, TypeOK, PCs, atomVars, queueVars, agcVars
  <1>6. CASE MarkMessage(t)
    <2>1. marked' \subseteq Atoms
      BY <1>0, <1>6 DEF MarkMessage, TypeOK, QueueHeld
    <2> QED BY <1>6, <2>1 DEF MarkMessage, Goto, TypeOK, PCs, queueVars, agcVars
  <1>7. CASE Unlink(t)
    <2>1. messages' \in Seq(Atoms)
      BY <1>0, <1>7 DEF Unlink, QueueHeld
    <2> QED BY <1>7, <2>1 DEF Unlink, Leave, Goto, TypeOK, PCs, atomVars, agcVars
  <1>8. CASE Peek(t)
    <2>1. stack' \in [Threads -> [Areas -> SUBSET Atoms]]
      <3>1. CASE \E a \in Queued : Push(t, "global", a)
        BY <1>0, <1>1, <3>1 DEF Push, Areas
      <3>2. CASE UNCHANGED stack
        BY <3>2 DEF TypeOK
      <3> QED BY <1>8, <3>1, <3>2 DEF Peek
    <2> QED BY <1>8, <2>1 DEF Peek, Leave, Goto, TypeOK, PCs, atomVars, agcVars
  <1>9. CASE \E x \in Areas, a \in Atoms : Pop(t, x, a) \/ Move(t, x, a)
    <2>1. stack' \in [Threads -> [Areas -> SUBSET Atoms]]
      <3>1. ASSUME NEW x \in Areas, NEW a \in Atoms, Pop(t, x, a)
            PROVE  stack' \in [Threads -> [Areas -> SUBSET Atoms]]
        BY <3>1 DEF Pop, TypeOK
      <3>2. ASSUME NEW x \in Areas, NEW a \in Atoms, Move(t, x, a)
            PROVE  stack' \in [Threads -> [Areas -> SUBSET Atoms]]
        BY <1>1, <3>2 DEF Move, Push
      <3> QED BY <1>9, <3>1, <3>2
    <2> QED BY <1>9, <2>1 DEF Pop, Move, TypeOK, PCs, atomVars, queueVars, agcVars
  <1>10. CASE EnterGC(t) \/ LeaveGC(t)
    BY <1>10 DEF EnterGC, LeaveGC, Goto, TypeOK, PCs, atomVars, queueVars, agcVars
  <1>11. CASE PutAtom(t)
    <2>1. stack' \in [Threads -> [Areas -> SUBSET Atoms]]
      BY <1>1, <1>11 DEF PutAtom, Push, Areas, Hands, Registering, TypeOK
    <2> QED BY <1>11, <2>1 DEF PutAtom, Goto, TypeOK, PCs, atomVars, queueVars, agcVars
  <1>12. CASE Unregister(t) \/ Note(t)
    BY <1>12 DEF Unregister, Note, Goto, TypeOK, PCs, atomVars, queueVars, agcVars
  <1>13. CASE DropStep(t)
    <2>1. marked' \subseteq Atoms
      BY <1>13 DEF DropStep, Swap, Decrement, Hands, Registering, TypeOK
    <2> QED BY <1>13, <2>1 DEF DropStep, Swap, Decrement, Release, Goto, TypeOK, PCs, queueVars, agcVars
  <1>14. CASE Write(t)
    <2>1. stack' \in [Threads -> [Areas -> SUBSET Atoms]]
      <3>1. hand[t] \in Atoms
        BY <1>14 DEF Write, Hands, TypeOK
      <3> QED BY <1>1, <1>14, <3>1 DEF Write, Push
    <2> QED BY <1>14, <2>1 DEF Write, Goto, TypeOK, PCs, atomVars, queueVars, agcVars
  <1>15. ASSUME NEW a \in Atoms, Lookup(t, a)
         PROVE  TypeOK'
    BY <1>15 DEF Lookup, Goto, TypeOK, PCs, queueVars, agcVars
  <1>16. ASSUME NEW s \in Structures, Store(t, s)
         PROVE  TypeOK'
    <2>1. PICK a \in Atoms : holds' = [holds EXCEPT ![s] = a]
      BY <1>0, <1>16 DEF Store
    <2>2. holds' \in [Structures -> Atoms \cup {NoAtom}]
      BY <2>1 DEF TypeOK
    <2> QED BY <1>16, <2>2 DEF Store, TypeOK, queueVars, agcVars
  <1>17. ASSUME NEW s \in Structures, Erase(t, s)
         PROVE  TypeOK'
    BY <1>17 DEF Erase, Goto, TypeOK, PCs, atomVars, queueVars, agcVars
  <1>18. ASSUME NEW s \in Structures, Load(t, s)
         PROVE  TypeOK'
    <2>1. holds[s] \in Atoms
      BY <1>18 DEF Load, TypeOK
    <2> QED BY <1>18, <2>1 DEF Load, Goto, TypeOK, PCs, queueVars, agcVars
  <1> QED BY <1>2, <1>3, <1>4, <1>5, <1>6, <1>7, <1>8, <1>9, <1>10, <1>11, <1>12, <1>13, <1>14,
             <1>15, <1>16, <1>17, <1>18
          DEF ThreadStep, PlainStep, KeepStep, QueueStep

LEMMA HandsThread ==
  ASSUME TypeOK, Hands, QueueHeld, NEW t \in Threads, ThreadStep(t)
  PROVE  Hands'
  <1>0. NoAtom \notin Atoms
    BY Names
  <1>1. CASE PlainStep(t)
    BY <1>1, PlainKeeps DEF Hands, TypeOK
  <1>2. CASE KeepStep(t)
    BY <1>2, KeepKeeps DEF Hands, Registering, TypeOK
  <1>3. CASE DropStep(t)
    BY <1>3 DEF DropStep, Swap, Decrement, Release, Goto, Hands, Registering, TypeOK
  <1>4. CASE Write(t)
    BY <1>4 DEF Write, Goto, Hands, Registering, TypeOK
  <1>5. ASSUME NEW a \in Atoms, Lookup(t, a)
        PROVE  Hands'
    BY <1>0, <1>5 DEF Lookup, Goto, Hands, Registering, TypeOK
  <1>6. ASSUME NEW s \in Structures, Store(t, s)
        PROVE  Hands'
    BY <1>0, <1>6 DEF Store, Hands, TypeOK
  <1>7. ASSUME NEW s \in Structures, Erase(t, s)
        PROVE  Hands'
    BY <1>7 DEF Erase, Goto, Hands, Registering, TypeOK
  <1>8. ASSUME NEW s \in Structures, Load(t, s)
        PROVE  Hands'
    BY <1>8 DEF Load, Goto, Hands, Registering, TypeOK
  <1> QED BY <1>1, <1>2, <1>3, <1>4, <1>5, <1>6, <1>7, <1>8 DEF ThreadStep

LEMMA QueueThread ==
  ASSUME TypeOK, Hands, QueueHeld, NEW t \in Threads, ThreadStep(t)
  PROVE  QueueHeld'
  <1>0. NoThread \notin Threads
    BY Names
  <1>1. CASE \E verb \in {"send", "get", "peek"} : Enter(t, verb)
    BY <1>0, <1>1 DEF Enter, Goto, QueueHeld, Locked, TypeOK
  <1>2. CASE Send(t) \/ Unlink(t) \/ Peek(t) \/ Wait(t)
    BY <1>0, <1>2 DEF Send, Unlink, Peek, Wait, Leave, Goto, QueueHeld, Locked, TypeOK
  <1>3. CASE Wake(t) \/ Copy(t) \/ MarkMessage(t)
    BY <1>0, <1>3 DEF Wake, Copy, MarkMessage, Goto, QueueHeld, Locked, TypeOK, queueVars
  <1>4. CASE \E x \in Areas, a \in Atoms : Pop(t, x, a) \/ Move(t, x, a)
    BY <1>4 DEF Pop, Move, QueueHeld, queueVars
  <1>5. CASE EnterGC(t) \/ LeaveGC(t) \/ Write(t) \/ DropStep(t)
    BY <1>5 DEF EnterGC, LeaveGC, Write, DropStep, Swap, Decrement, Release, Goto, QueueHeld, Locked,
                TypeOK, queueVars
  <1>6. CASE KeepStep(t)
    BY <1>6, KeepKeeps DEF QueueHeld, Locked, Registering, TypeOK
  <1>7. CASE \/ \E a \in Atoms : Lookup(t, a)
             \/ \E s \in Structures : Store(t, s) \/ Erase(t, s) \/ Load(t, s)
    BY <1>7 DEF Lookup, Store, Erase, Load, Goto, QueueHeld, Locked, TypeOK, queueVars
  <1> QED BY <1>1, <1>2, <1>3, <1>4, <1>5, <1>6, <1>7 DEF ThreadStep, PlainStep, QueueStep
-----------------------------------------------------------------------------
(* Where the atoms come from that a step of a thread puts somewhere.       *)

(* What a push to an area adds to the stacks. *)
LEMMA Pushed ==
  ASSUME TypeOK, NEW t \in Threads, NEW y \in Areas, NEW b, Push(t, y, b),
         NEW u \in Threads, NEW x \in Areas, NEW a \in stack'[u][x], a \notin stack[u][x]
  PROVE  u = t /\ x = y /\ a = b
  BY DEF Push, TypeOK

LEMMA StackSource ==
  ASSUME TypeOK, QueueHeld, NEW t \in Threads, ThreadStep(t),
         NEW u \in Threads, NEW x \in Areas, NEW a \in stack'[u][x], a \notin stack[u][x]
  PROVE  /\ u = t
         /\ \/ pc[t] \in {"found", "write"} /\ a = hand[t]
            \/ pc[t] \in {"get", "peek"} /\ a \in Queued
            \/ Move(t, x, a) /\ a \in Stacked(t)
  <1>1. CASE PutAtom(t) \/ Write(t)
    BY <1>1, Pushed DEF PutAtom, Write, Areas
  <1>2. CASE Copy(t)
    BY <1>2, QueuedAtoms, Pushed DEF Copy, Areas
  <1>3. CASE Peek(t)
    BY <1>3, Pushed DEF Peek, Areas
  <1>4. CASE \E y \in Areas, b \in Atoms : Move(t, y, b)
    BY <1>4, Pushed DEF Move
  <1>5. CASE \E y \in Areas, b \in Atoms : Pop(t, y, b)
    BY <1>5 DEF Pop, TypeOK
  <1>6. CASE \/ \E verb \in {"send", "get", "peek"} : Enter(t, verb)
             \/ Send(t) \/ Wait(t) \/ Wake(t) \/ MarkMessage(t) \/ Unlink(t)
             \/ EnterGC(t) \/ LeaveGC(t) \/ Unregister(t) \/ Note(t) \/ DropStep(t)
             \/ \E b \in Atoms : Lookup(t, b)
             \/ \E s \in Structures : Store(t, s) \/ Erase(t, s) \/ Load(t, s)
    <2>1. stack' = stack
      BY <1>6 DEF Enter, Send, Wait, Wake, MarkMessage, Unlink, EnterGC, LeaveGC, Unregister, Note,
                  DropStep, Swap, Decrement, Release, Lookup, Store, Erase, Load
    <2> QED BY <2>1
  <1> QED BY <1>1, <1>2, <1>3, <1>4, <1>5, <1>6 DEF ThreadStep, PlainStep, QueueStep, KeepStep

LEMMA QueueSource ==
  ASSUME TypeOK, QueueHeld, NEW t \in Threads, ThreadStep(t), NEW a \in Queued', a \notin Queued
  PROVE  Send(t) /\ a \in Stacked(t)
  <1>0. messages \in Seq(Atoms)
    BY DEF TypeOK
  <1>1. CASE Send(t)
    <2>1. PICK b \in Stacked(t) : messages' = Append(messages, b)
      BY <1>1 DEF Send
    <2>2. PICK k \in DOMAIN messages' : a = messages'[k]
      BY DEF Queued
    <2>3. k \in 1..(Len(messages) + 1)
      BY <1>0, <2>1
    <2>4. k \notin DOMAIN messages
      <3>1. k \in DOMAIN messages => messages'[k] = messages[k]
        BY <1>0, <2>1
      <3> QED BY <2>2, <3>1 DEF Queued
    <2>5. k = Len(messages) + 1
      BY <1>0, <2>3, <2>4
    <2> QED BY <1>0, <1>1, <2>1, <2>2, <2>5
  <1>2. CASE Unlink(t)
    <2>1. messages # <<>> /\ messages' = Tail(messages)
      BY <1>2 DEF Unlink, QueueHeld
    <2>2. \A k \in DOMAIN messages' : k + 1 \in DOMAIN messages /\ messages'[k] = messages[k + 1]
      BY <1>0, <2>1
    <2> QED BY <2>2 DEF Queued
  <1>3. CASE ~Send(t) /\ ~Unlink(t)
    <2>1. messages' = messages
      BY <1>3 DEF ThreadStep, PlainStep, QueueStep, KeepStep, DropStep, Enter, Wait, Wake, Copy,
         MarkMessage, Peek, Pop, Move, EnterGC, LeaveGC, PutAtom, Unregister, Note, Swap, Decrement,
         Release, Write, Lookup, Store, Erase, Load, queueVars
    <2> QED BY <2>1 DEF Queued
  <1> QED BY <1>1, <1>2, <1>3

(* The other places: structures, hands, references, unregistering, marks.  *)
LEMMA CollectorStill ==
  ASSUME NEW t \in Threads, ThreadStep(t)
  PROVE  agc' = agc /\ doomed' = doomed
  BY DEF ThreadStep, PlainStep, QueueStep, KeepStep, DropStep, Enter, Send, Wait, Wake, Copy,
     MarkMessage, Unlink, Peek, Pop, Move, EnterGC, LeaveGC, PutAtom, Unregister, Note, Swap,
     Decrement, Release, Write, Lookup, Store, Erase, Load, agcVars

LEMMA PresentSource ==
  ASSUME TypeOK, QueueHeld, NEW t \in Threads, ThreadStep(t)
  PROVE  present \subseteq present' /\ (gc_active => present' = present)
  <1>1. CASE \E a \in Atoms : Lookup(t, a)
    BY <1>1 DEF Lookup
  <1>2. CASE PlainStep(t) \/ KeepStep(t)
    BY <1>2, PlainKeeps, KeepKeeps
  <1>3. CASE DropStep(t) \/ Write(t) \/ \E s \in Structures : Store(t, s) \/ Erase(t, s) \/ Load(t, s)
    BY <1>3 DEF DropStep, Swap, Decrement, Release, Write, Store, Erase, Load, atomVars
  <1> QED BY <1>1, <1>2, <1>3 DEF ThreadStep

LEMMA HoldsSource ==
  ASSUME TypeOK, QueueHeld, NEW t \in Threads, ThreadStep(t), NEW s \in Structures
  PROVE  \/ holds'[s] \in {holds[s], NoAtom}
         \/ pc[t] = "idle" /\ holds[s] = NoAtom /\ holds'[s] \in Stacked(t)
  <1>1. CASE \E r \in Structures : Store(t, r) \/ Erase(t, r)
    BY <1>1 DEF Store, Erase, TypeOK
  <1>2. CASE PlainStep(t) \/ KeepStep(t)
    BY <1>2, PlainKeeps, KeepKeeps
  <1>3. CASE DropStep(t) \/ Write(t) \/ (\E a \in Atoms : Lookup(t, a)) \/ \E r \in Structures : Load(t, r)
    BY <1>3 DEF DropStep, Swap, Decrement, Release, Write, Lookup, Load
  <1> QED BY <1>1, <1>2, <1>3 DEF ThreadStep

LEMMA HandSource ==
  ASSUME TypeOK, QueueHeld, NEW t \in Threads, ThreadStep(t), NEW u \in Threads
  PROVE  \/ hand'[u] \in {hand[u], NoAtom}
         \/ ~gc_active /\ hand'[u] \in present'
         \/ \E s \in Structures : holds[s] # NoAtom /\ holds[s] = hand'[u]
  <1>1. CASE \E a \in Atoms : Lookup(t, a)
    BY <1>1 DEF Lookup, TypeOK
  <1>2. CASE \E s \in Structures : Erase(t, s) \/ Load(t, s)
    BY <1>2 DEF Erase, Load, TypeOK
  <1>3. CASE PlainStep(t) \/ KeepStep(t)
    BY <1>3, PlainKeeps, KeepKeeps
  <1>4. CASE DropStep(t) \/ Write(t) \/ \E s \in Structures : Store(t, s)
    BY <1>4 DEF DropStep, Swap, Decrement, Release, Write, Store, TypeOK
  <1> QED BY <1>1, <1>2, <1>3, <1>4 DEF ThreadStep

LEMMA RefsSource ==
  ASSUME TypeOK, Hands, QueueHeld, RefsExact, NEW t \in Threads, ThreadStep(t),
         NEW a \in Atoms, refs'[a] # 0
  PROVE  refs[a] # 0 \/ (~gc_active /\ a \in present') \/ a \in Stacked(t)
  <1>1. CASE \E b \in Atoms : Lookup(t, b)
    BY <1>1 DEF Lookup, TypeOK
  <1>2. CASE \E s \in Structures : Store(t, s)
    BY <1>2 DEF Store, TypeOK
  <1>3. CASE DropStep(t)
    <2>1. hand[t] \in Atoms /\ t \in Registered(hand[t]) /\ refs' = [refs EXCEPT ![hand[t]] = @ - 1]
      BY <1>3 DEF DropStep, Swap, Decrement, Release, Hands, Registering, Registered, TypeOK
    <2>2. refs[hand[t]] # 0
      <3>1. PICK b \in Atoms : b = hand[t]
        BY <2>1
      <3>2. refs[b] = Cardinality(Registered(b)) /\ t \in Registered(b)
        BY <2>1, <3>1 DEF RefsExact
      <3>3. Cardinality(Registered(b)) # 0
        BY <3>2, Counting, FS_EmptySet
      <3> QED BY <3>1, <3>2, <3>3
    <2> QED BY <2>1, <2>2 DEF TypeOK
  <1>4. CASE PlainStep(t) \/ KeepStep(t)
    BY <1>4, PlainKeeps, KeepKeeps
  <1>5. CASE Write(t) \/ \E s \in Structures : Erase(t, s) \/ Load(t, s)
    BY <1>5 DEF Write, Erase, Load, atomVars
  <1> QED BY <1>1, <1>2, <1>3, <1>4, <1>5 DEF ThreadStep

LEMMA UnregisteringSource ==
  ASSUME TypeOK, Hands, QueueHeld, NEW t \in Threads, ThreadStep(t), NEW u \in Threads
  PROVE  \/ unregistering'[u] = unregistering[u]
         \/ unregistering'[u] = hand[t] /\ hand[t] # NoAtom
  <1>1. CASE Note(t)
    BY <1>1 DEF Note, Hands, Registering, TypeOK
  <1>2. CASE PlainStep(t)
    BY <1>2, PlainKeeps
  <1>3. CASE ~Note(t) /\ ~PlainStep(t)
    BY <1>3 DEF ThreadStep, KeepStep, DropStep, PutAtom, Unregister, Swap, Decrement, Release, Write,
                Lookup, Store, Erase, Load
  <1> QED BY <1>1, <1>2, <1>3

LEMMA MarkSource ==
  ASSUME TypeOK, Hands, QueueHeld, NEW t \in Threads, ThreadStep(t)
  PROVE  /\ gc_active => marked \subseteq marked'
         /\ \A a \in marked' \ marked :
              \/ a \in Queued
              \/ a = hand[t] /\ a # NoAtom
              \/ \E s \in Structures : a = holds[s] /\ a # NoAtom
  <1>1. CASE PlainStep(t)
    <2>1. pc[t] = "got" => Head(messages) \in Queued
      BY QueuedAtoms DEF QueueHeld
    <2> QED BY <1>1, <2>1, PlainKeeps
  <1>2. CASE DropStep(t)
    BY <1>2 DEF DropStep, Swap, Decrement, Hands, Registering, TypeOK
  <1>3. CASE \E s \in Structures : Load(t, s)
    BY <1>3 DEF Load, TypeOK
  <1>4. CASE \E a \in Atoms : Lookup(t, a)
    BY <1>4 DEF Lookup
  <1>5. CASE KeepStep(t) \/ Write(t) \/ \E s \in Structures : Store(t, s) \/ Erase(t, s)
    BY <1>5, KeepKeeps DEF Write, Store, Erase, atomVars
  <1> QED BY <1>1, <1>2, <1>3, <1>4, <1>5 DEF ThreadStep

(* What is in a hand or in a structure has a reference. *)
LEMMA HeldRefs ==
  ASSUME TypeOK, Hands, RefsExact
  PROVE  /\ \A s \in Structures : holds[s] # NoAtom => refs[holds[s]] # 0
         /\ \A t \in Threads : hand[t] # NoAtom => refs[hand[t]] # 0
  <1>1. ASSUME NEW a \in Atoms, NEW x \in Registered(a)
        PROVE  refs[a] # 0
    BY <1>1, Counting, FS_EmptySet DEF RefsExact
  <1>2. ASSUME NEW s \in Structures, holds[s] # NoAtom
        PROVE  refs[holds[s]] # 0
    <2>1. PICK a \in Atoms : a = holds[s]
      BY <1>2 DEF TypeOK
    <2>2. s \in Registered(a)
      BY <2>1 DEF Registered
    <2> QED BY <1>1, <2>1, <2>2
  <1>3. ASSUME NEW t \in Threads, hand[t] # NoAtom
        PROVE  refs[hand[t]] # 0
    <2>1. PICK a \in Atoms : a = hand[t]
      BY <1>3 DEF TypeOK
    <2>2. CASE pc[t] # "write"
      BY <1>1, <2>1, <2>2 DEF Registered
    <2>3. CASE pc[t] = "write"
      BY <1>2, <1>3, <2>3 DEF Hands
    <2> QED BY <2>2, <2>3
  <1> QED BY <1>2, <1>3
-----------------------------------------------------------------------------
(* The steps of a thread, for nothing that dangles. *)

LEMMA DanglingThread ==
  ASSUME CInv, NoDangling, NEW t \in Threads, ThreadStep(t)
  PROVE  NoDangling'
  <1>0. TypeOK /\ Hands /\ QueueHeld /\ present \subseteq present'
    BY PresentSource DEF CInv
  <1>1. ASSUME NEW a \in Queued'
        PROVE  a \in present'
    BY <1>0, QueueSource DEF NoDangling
  <1>2. ASSUME NEW u \in Threads, NEW x \in Areas, NEW a \in stack'[u][x]
        PROVE  a \in present'
    <2>1. CASE a \in stack[u][x]
      BY <1>0, <2>1 DEF NoDangling, Stacked, Areas
    <2>2. CASE a \notin stack[u][x]
      <3>1. \/ pc[t] \in {"found", "write"} /\ a = hand[t]
            \/ a \in Queued \cup Stacked(t)
        BY <1>0, <2>2, StackSource
      <3> QED BY <1>0, <3>1 DEF NoDangling, Hands, Registering
    <2> QED BY <2>1, <2>2
  <1>3. ASSUME NEW s \in Structures, holds'[s] # NoAtom
        PROVE  holds'[s] \in present'
    BY <1>0, <1>3, HoldsSource DEF NoDangling
  <1>4. ASSUME NEW u \in Threads, hand'[u] # NoAtom
        PROVE  hand'[u] \in present'
    BY <1>0, <1>4, HandSource DEF NoDangling
  <1> QED BY <1>1, <1>2, <1>3, <1>4 DEF NoDangling, Stacked, Areas

LEMMA PresentThread ==
  ASSUME CInv, NoDangling, NEW t \in Threads, ThreadStep(t)
  PROVE  RefsPresent'
  BY PresentSource, RefsSource DEF CInv, NoDangling, RefsPresent

LEMMA CountedThread ==
  ASSUME CInv, NoDangling, NEW t \in Threads, ThreadStep(t)
  PROVE  CInv'
  <1>1. RefsExact' /\ refs' \in [Atoms -> Nat]
    BY RefsThread DEF CInv
  <1>2. TypeOK' /\ Hands' /\ QueueHeld' /\ RefsPresent'
    BY <1>1, TypesThread, HandsThread, QueueThread, PresentThread DEF CInv
  <1>3. Bounds'
    BY CollectorStill DEF CInv, Bounds
  <1> QED BY <1>1, <1>2, <1>3 DEF CInv

(* No other thread is inside the queue. *)
LEMMA LockAlone ==
  ASSUME QueueHeld, NEW t \in Threads, pc[t] \in Locked, NEW u \in Threads \ {t}
  PROVE  pc[u] \notin Locked
  BY DEF QueueHeld

(* What a thread does to what it writes down. *)
LEMMA NotesStill ==
  ASSUME CInv, NotesMarked, NEW t \in Threads, ThreadStep(t)
  PROVE  /\ gc_active => unregistering' = unregistering
         /\ gc_active => ~Unnoted'
         /\ \A u \in Threads : pc'[u] = "dec" =>
              \/ ~gc_active /\ unregistering'[u] = hand'[u]
              \/ /\ pc[u] = "dec" /\ hand'[u] = hand[u]
                 /\ unregistering'[u] = unregistering[u]
  <1>0. TypeOK /\ QueueHeld
    BY DEF CInv
  <1>1. CASE PlainStep(t)
    BY <1>0, <1>1, PlainKeeps DEF NotesMarked, Unnoted, Registering
  <1>2. CASE PutAtom(t) \/ Unregister(t)
    BY <1>0, <1>2 DEF PutAtom, Unregister, Goto, NotesMarked, Unnoted, TypeOK
  <1>3. CASE Note(t)
    <2>1. ~gc_active
      BY <1>3 DEF Note, NotesMarked, Unnoted
    <2> QED BY <1>0, <1>3, <2>1 DEF Note, Goto, TypeOK
  <1>4. CASE DropStep(t) \/ Write(t)
    BY <1>0, <1>4 DEF DropStep, Swap, Decrement, Release, Write, Goto, NotesMarked, Unnoted, TypeOK
  <1>5. CASE \/ \E a \in Atoms : Lookup(t, a)
             \/ \E s \in Structures : Store(t, s) \/ Erase(t, s) \/ Load(t, s)
    BY <1>0, <1>5 DEF Lookup, Store, Erase, Load, Goto, NotesMarked, Unnoted, TypeOK
  <1> QED BY <1>1, <1>2, <1>3, <1>4, <1>5 DEF ThreadStep, KeepStep

LEMMA NotesThread ==
  ASSUME CInv, NotesMarked, NEW t \in Threads, ThreadStep(t)
  PROVE  NotesMarked'
  <1>0. TypeOK /\ Hands /\ QueueHeld /\ agc' = agc /\ (gc_active' <=> gc_active)
    BY CollectorStill DEF CInv, gc_active
  <1>1. gc_active' => ~Unnoted'
    BY <1>0, NotesStill
  <1>2. ASSUME NEW u \in Threads, pc'[u] = "dec"
        PROVE  /\ unregistering'[u] = hand'[u]
               /\ agc.phase = "mark" => hand'[u] \in marked' \/ agc.at <= 4 * u - 3
               /\ agc.phase = "sweep" => hand'[u] \in marked' \/ hand'[u] < agc.at
    <2>1. CASE ~gc_active
      <3>1. unregistering'[u] = hand'[u]
        BY <1>2, <2>1, NotesStill DEF NotesMarked
      <3> QED BY <2>1, <3>1 DEF gc_active
    <2>2. CASE gc_active
      <3>1. pc[u] = "dec" /\ hand'[u] = hand[u] /\ unregistering'[u] = unregistering[u]
        BY <1>2, <2>2, NotesStill
      <3>2. marked \subseteq marked'
        BY <1>0, <2>2, MarkSource
      <3> QED BY <3>1, <3>2 DEF NotesMarked
    <2> QED BY <2>1, <2>2
  <1> QED BY <1>0, <1>1, <1>2 DEF NotesMarked

(* While the collector runs, what it cannot miss stays so: the last one    *)
(* that lets go of an atom marks it or has written it down.                *)
LEMMA ProtectedKept ==
  ASSUME CInv, NotesMarked, agc.phase \in {"mark", "sweep"}, NEW t \in Threads, ThreadStep(t),
         NEW a \in Atoms, Protected(a)
  PROVE  Protected(a)' \/ (agc.phase = "sweep" /\ a < agc.at)
  <1>0. /\ TypeOK /\ Hands /\ QueueHeld /\ NoAtom \notin Atoms /\ marked \subseteq marked'
        /\ agc' = agc /\ unregistering' = unregistering /\ ~Unnoted /\ gc_active
    <2>1. gc_active
      BY DEF gc_active
    <2> QED BY <2>1, MarkSource, Names, CollectorStill, NotesStill DEF CInv, NotesMarked
  <1>1. CASE a \in marked
    BY <1>0, <1>1 DEF Protected
  <1>4. CASE Noted(a)
    BY <1>0, <1>4 DEF Noted, Protected
  <1>2. ASSUME NEW s \in Structures, holds[s] = a
        PROVE  Protected(a)'
    <2>1. CASE Erase(t, s)
      BY <1>0, <1>2, <2>1 DEF Erase, Goto, Protected, TypeOK
    <2>2. CASE ~Erase(t, s)
      <3>1. CASE \E r \in Structures : Erase(t, r)
        <4>1. holds'[s] = a
          BY <1>0, <1>2, <2>2, <3>1 DEF Erase, TypeOK
        <4> QED BY <4>1 DEF Protected
      <3>2. CASE ~\E r \in Structures : Erase(t, r)
        <4>1. holds'[s] = a
          <5>1. CASE PlainStep(t) \/ KeepStep(t)
            BY <1>0, <1>2, <5>1, PlainKeeps, KeepKeeps
          <5>2. CASE \E r \in Structures : Store(t, r)
            BY <1>0, <1>2, <5>2 DEF Store, TypeOK
          <5>3. CASE DropStep(t) \/ Write(t) \/ (\E b \in Atoms : Lookup(t, b))
                     \/ \E r \in Structures : Load(t, r)
            BY <1>2, <5>3 DEF DropStep, Swap, Decrement, Release, Write, Lookup, Load
          <5> QED BY <3>2, <5>1, <5>2, <5>3 DEF ThreadStep
        <4> QED BY <4>1 DEF Protected
      <3> QED BY <3>1, <3>2
    <2> QED BY <2>1, <2>2
  <1>3. ASSUME NEW u \in Threads, hand[u] = a, pc[u] \in {"found", "drop", "swap"}
        PROVE  Protected(a)' \/ (agc.phase = "sweep" /\ a < agc.at)
    <2>1. CASE Swap(t) /\ u = t
      <3>1. CASE refs[a] = 1
        BY <1>3, <2>1, <3>1 DEF Swap, Protected
      <3>2. CASE refs[a] # 1
        <4>1. Registered(a) # {t}
          <5>1. refs[a] = Cardinality(Registered(a))
            BY DEF CInv, RefsExact
          <5>2. Cardinality({t}) = 1
            BY FS_Singleton
          <5> QED BY <3>2, <5>1, <5>2
        <4>2. t \in Registered(a)
          BY <1>3, <2>1 DEF Registered
        <4>3. PICK x \in Registered(a) : x # t
          BY <4>1, <4>2
        <4>4. CASE x \in Structures /\ holds[x] = a
          <5>1. holds' = holds
            BY <2>1 DEF Swap, Release
          <5> QED BY <4>4, <5>1 DEF Protected
        <4>5. CASE x \in Threads /\ hand[x] = a /\ pc[x] # "write"
          <5>1. pc[x] \in {"found", "drop", "swap", "dec"}
            BY <1>0, <4>5 DEF Hands, Registering, Unnoted
          <5>2. pc'[x] = pc[x] /\ hand'[x] = hand[x]
            BY <1>0, <2>1, <4>3, <4>5 DEF Swap, Release, Goto, TypeOK
          <5>3. CASE pc[x] = "dec"
            <6>1. /\ unregistering[x] = a
                  /\ agc.phase = "mark" => a \in marked \/ agc.at <= 4 * x - 3
                  /\ agc.phase = "sweep" => a \in marked \/ a < agc.at
              BY <4>5, <5>3 DEF NotesMarked
            <6>2. CASE a \in marked
              BY <1>0, <6>2 DEF Protected
            <6>3. CASE agc.phase = "mark" /\ agc.at <= 4 * x - 3
              BY <1>0, <4>5, <6>1, <6>3 DEF Noted, Protected
            <6>4. CASE agc.phase = "sweep" /\ a < agc.at
              BY <6>4
            <6> QED BY <6>1, <6>2, <6>3, <6>4
          <5>4. CASE pc[x] # "dec"
            BY <4>5, <5>1, <5>2, <5>4 DEF Protected
          <5> QED BY <5>3, <5>4
        <4> QED BY <4>3, <4>4, <4>5 DEF Registered
      <3> QED BY <3>1, <3>2
    <2>2. CASE (PutAtom(t) \/ Unregister(t)) /\ u = t
      BY <1>0, <1>3, <2>2 DEF PutAtom, Unregister, Goto, Protected, TypeOK
    <2>3. CASE u # t
      <3>1. hand'[u] = hand[u] /\ pc'[u] = pc[u]
        <4>1. CASE PlainStep(t) \/ KeepStep(t)
          BY <1>0, <2>3, <4>1, PlainKeeps, KeepKeeps
        <4>2. CASE DropStep(t) \/ Write(t) \/ (\E b \in Atoms : Lookup(t, b))
                   \/ \E r \in Structures : Store(t, r) \/ Erase(t, r) \/ Load(t, r)
          BY <1>0, <2>3, <4>2 DEF DropStep, Swap, Decrement, Release, Write, Lookup, Store, Erase, Load,
                                  Goto, TypeOK
        <4> QED BY <4>1, <4>2 DEF ThreadStep
      <3> QED BY <1>3, <3>1 DEF Protected
    <2>4. CASE u = t /\ ~Swap(t) /\ ~PutAtom(t) /\ ~Unregister(t)
      <3>1. pc[t] \in {"found", "drop", "swap"}
        BY <1>3, <2>4
      <3>2. ~PlainStep(t)
        BY <1>0, <3>1, PlainKeeps DEF Registering
      <3> QED BY <2>4, <3>1, <3>2 DEF ThreadStep, KeepStep, Note, DropStep, Decrement, Write, Lookup,
                                     Store, Erase, Load
    <2> QED BY <2>1, <2>2, <2>3, <2>4
  <1> QED BY <1>1, <1>2, <1>3, <1>4 DEF Protected

(* A message that is in the queue while nobody takes one out stays there.  *)
LEMMA AllStill ==
  ASSUME \A t \in Threads : pc[t] # "unlink"
  PROVE  StillQueued = Queued
  BY DEF StillQueued, Queued

LEMMA StillKept ==
  ASSUME CInv, gc_active, NEW t \in Threads, ThreadStep(t), NEW a \in StillQueued
  PROVE  a \in StillQueued' \/ Protected(a)'
  <1>0. TypeOK /\ Hands /\ QueueHeld /\ messages \in Seq(Atoms)
    BY DEF CInv, TypeOK
  <1>1. PICK k \in DOMAIN messages :
          messages[k] = a /\ (k > 1 \/ \A u \in Threads : pc[u] # "unlink")
    BY DEF StillQueued
  <1>2. CASE Unlink(t)
    <2>1. messages # <<>> /\ messages' = Tail(messages) /\ pc' = [pc EXCEPT ![t] = "idle"]
      BY <1>0, <1>2 DEF Unlink, Leave, Goto, QueueHeld
    <2>2. k > 1
      BY <1>1, <1>2 DEF Unlink
    <2>3. k - 1 \in DOMAIN messages' /\ messages'[k - 1] = a
      BY <1>0, <1>1, <2>1, <2>2
    <2>4. \A u \in Threads : pc'[u] # "unlink"
      BY <1>0, <1>2, <2>1, LockAlone DEF Unlink, Locked, TypeOK
    <2> QED BY <2>3, <2>4 DEF StillQueued
  <1>3. CASE MarkMessage(t)
    <2>1. messages' = messages /\ marked' = marked \cup {Head(messages)}
      BY <1>3 DEF MarkMessage, queueVars
    <2>2. CASE k = 1
      <3>1. a = Head(messages)
        BY <1>0, <1>1, <2>2
      <3> QED BY <2>1, <3>1 DEF Protected
    <2>3. CASE k # 1
      <3>1. k > 1
        BY <1>0, <1>1, <2>3
      <3> QED BY <1>1, <2>1, <3>1 DEF StillQueued
    <2> QED BY <2>2, <2>3
  <1>4. CASE Send(t)
    <2>1. /\ k \in DOMAIN messages' /\ messages'[k] = a
          /\ \A u \in Threads : pc'[u] = "unlink" => pc[u] = "unlink"
      <3>1. PICK b \in Atoms : messages' = Append(messages, b)
        BY <1>0, <1>4, QueuedAtoms DEF Send
      <3> QED BY <1>0, <1>1, <1>4, <3>1 DEF Send, Leave, Goto, TypeOK
    <2> QED BY <1>1, <2>1 DEF StillQueued
  <1>5. CASE ~Unlink(t) /\ ~MarkMessage(t) /\ ~Send(t)
    <2>1. messages' = messages
      BY <1>5 DEF ThreadStep, PlainStep, QueueStep, KeepStep, DropStep, Enter, Wait, Wake, Copy,
         Peek, Pop, Move, EnterGC, LeaveGC, PutAtom, Unregister, Note, Swap, Decrement,
         Release, Write, Lookup, Store, Erase, Load, queueVars
    <2>2. \A u \in Threads : pc'[u] = "unlink" => pc[u] = "unlink"
      <3>1. CASE PlainStep(t)
        BY <1>0, <1>5, <3>1 DEF PlainStep, QueueStep, Enter, Wait, Wake, Copy, Peek, Pop, Move,
           EnterGC, LeaveGC, Leave, Goto, TypeOK
      <3>2. CASE KeepStep(t)
        BY <1>0, <3>2, KeepKeeps DEF Registering
      <3>3. CASE ~PlainStep(t) /\ ~KeepStep(t)
        BY <1>0, <3>3 DEF ThreadStep, DropStep, Swap, Decrement, Release, Write, Lookup, Store,
           Erase, Load, Goto, TypeOK
      <3> QED BY <3>1, <3>2, <3>3
    <2> QED BY <1>1, <2>1, <2>2 DEF StillQueued
  <1> QED BY <1>2, <1>3, <1>4, <1>5

(* What a thread adds to one of its stacks. *)
LEMMA NewProtected ==
  ASSUME CInv, Orderly, NEW t \in Threads, ThreadStep(t), NEW u \in Threads,
         NEW x \in Areas, NEW a \in stack'[u][x], a \notin stack[u][x]
  PROVE  \/ Protected(a) \/ a \in StillQueued
         \/ a \in Stacked(u) /\ (x = "global" => ~BetweenStacks(u))
  <1>0. TypeOK /\ Hands /\ QueueHeld
    BY DEF CInv
  <1>1. /\ u = t
        /\ \/ pc[t] \in {"found", "write"} /\ a = hand[t]
           \/ pc[t] \in {"get", "peek"} /\ a \in Queued
           \/ Move(t, x, a) /\ a \in Stacked(t)
    BY <1>0, StackSource
  <1>2. CASE pc[t] \in {"found", "write"} /\ a = hand[t]
    BY <1>0, <1>2 DEF Protected, Hands
  <1>3. CASE pc[t] \in {"get", "peek"} /\ a \in Queued
    <2>1. \A r \in Threads : pc[r] # "unlink"
      BY <1>0, <1>3, LockAlone DEF Locked
    <2> QED BY <1>3, <2>1, AllStill
  <1>4. CASE Move(t, x, a) /\ a \in Stacked(t)
    <2>1. a \in Atoms
      BY <1>0, <1>4, QueuedAtoms
    <2> QED BY <1>1, <1>4, <2>1 DEF Orderly
  <1> QED BY <1>1, <1>2, <1>3, <1>4

LEMMA ScannedThread ==
  ASSUME CInv, SInv, Orderly, NEW t \in Threads, ThreadStep(t)
  PROVE  ScannedCovered'
  <1>0. /\ TypeOK /\ TypeOK' /\ agc' = agc /\ QueueHeld /\ NotesMarked
        /\ agc.at \in Nat /\ Threads \subseteq Nat \ {0}
    BY CollectorStill, CountedThread, Names DEF CInv, SInv, TypeOK
  <1> SUFFICES ASSUME agc.phase = "mark"
               PROVE  /\ agc.at > QueuePart => \A a \in Queued' : Protected(a)'
                      /\ \A u \in Threads :
                           /\ agc.at > 4 * u - 2 => Covered(stack[u]["global"])'
                           /\ agc.at > 4 * u - 1 => Covered(stack[u]["local"])'
    BY <1>0 DEF ScannedCovered
  <1>1. gc_active
    BY DEF gc_active
  <1>2. ASSUME NEW a \in Atoms, Protected(a)
        PROVE  Protected(a)'
    BY <1>0, <1>2, ProtectedKept
  <1>3. ASSUME NEW u \in Threads, NEW x \in Areas, NEW a \in stack'[u][x],
               Protected(a) \/ a \in StillQueued
        PROVE  Protected(a)' \/ a \in StillQueued'
    <2>1. a \in Atoms
      BY <1>0 DEF TypeOK
    <2> QED BY <1>1, <1>2, <1>3, <2>1, StillKept
  <1>4. ASSUME NEW u \in Threads, agc.at > 4 * u - 1
        PROVE  \A a \in Stacked(u) : Protected(a) \/ a \in StillQueued
    <2>1. agc.at > 4 * u - 2
      BY <1>0, <1>4
    <2> QED BY <1>4, <2>1 DEF SInv, ScannedCovered, Covered, Stacked
  <1>5. ASSUME agc.at > QueuePart, NEW a \in Queued'
        PROVE  Protected(a)'
    <2>1. \A b \in Queued : Protected(b)
      BY <1>5 DEF SInv, ScannedCovered
    <2>2. a \in Atoms
      BY <1>0, <1>5 DEF Queued, TypeOK
    <2>3. CASE a \in Queued
      BY <1>2, <2>1, <2>2, <2>3
    <2>4. CASE a \notin Queued
      <3>1. Send(t) /\ a \in Stacked(t)
        BY <1>0, <2>4, QueueSource
      <3>2. agc.at > 4 * t - 1
        BY <1>0, <1>5, <3>1 DEF Orderly, AfterQueue
      <3>3. Protected(a) \/ a \in StillQueued
        BY <1>4, <3>1, <3>2
      <3> QED BY <1>2, <2>1, <2>2, <3>3 DEF StillQueued, Queued
    <2> QED BY <2>3, <2>4
  <1>6. ASSUME NEW u \in Threads, agc.at > 4 * u - 2
        PROVE  Covered(stack[u]["global"])'
    <2>1. Covered(stack[u]["global"])
      BY <1>6 DEF SInv, ScannedCovered
    <2>2. ASSUME NEW a \in stack'[u]["global"]
          PROVE  Protected(a) \/ a \in StillQueued
      <3>1. CASE a \in stack[u]["global"]
        BY <2>1, <3>1 DEF Covered
      <3>2. CASE a \notin stack[u]["global"]
        <4>1. \/ Protected(a) \/ a \in StillQueued
              \/ a \in Stacked(u) /\ ~BetweenStacks(u)
          BY <3>2, NewProtected DEF Areas
        <4>2. ASSUME ~BetweenStacks(u)
              PROVE  agc.at > 4 * u - 1
          BY <1>0, <1>6, <4>2 DEF BetweenStacks
        <4> QED BY <1>4, <4>1, <4>2
      <3> QED BY <3>1, <3>2
    <2> QED BY <1>3, <2>2 DEF Covered, Areas
  <1>7. ASSUME NEW u \in Threads, agc.at > 4 * u - 1
        PROVE  Covered(stack[u]["local"])'
    <2>1. ASSUME NEW a \in stack'[u]["local"]
          PROVE  Protected(a) \/ a \in StillQueued
      <3>1. a \in stack[u]["local"] \/ Protected(a) \/ a \in StillQueued \/ a \in Stacked(u)
        BY NewProtected DEF Areas
      <3> QED BY <1>4, <1>7, <3>1 DEF Stacked
    <2> QED BY <1>3, <2>1 DEF Covered, Areas
  <1> QED BY <1>5, <1>6, <1>7

LEMMA SweptThread ==
  ASSUME CInv, SInv, Orderly, NEW t \in Threads, ThreadStep(t)
  PROVE  SweptProtected'
  <1>0. /\ TypeOK /\ TypeOK' /\ agc' = agc /\ QueueHeld
        /\ Queued' \subseteq Atoms /\ StillQueued \subseteq Queued
    <2>1. TypeOK /\ TypeOK' /\ agc' = agc /\ QueueHeld
      BY CollectorStill, CountedThread DEF CInv, SInv
    <2>2. messages' \in Seq(Atoms)
      BY <2>1 DEF TypeOK
    <2> QED BY <2>1, <2>2 DEF StillQueued, Queued
  <1> SUFFICES ASSUME agc.phase = "sweep"
               PROVE  \A a \in (Queued \cup UNION {Stacked(u) : u \in Threads})' :
                        Protected(a)' \/ a < agc.at
    BY <1>0 DEF SweptProtected
  <1>1. NotesMarked
    BY DEF SInv
  <1>2. \A a \in Queued \cup UNION {Stacked(u) : u \in Threads} : Protected(a) \/ a < agc.at
    BY DEF SInv, SweptProtected
  <1>3. ASSUME NEW a \in Queued'
        PROVE  a \in Atoms /\ (Protected(a) \/ a < agc.at)
    BY <1>0, <1>2, QueueSource
  <1>4. ASSUME NEW u \in Threads, NEW x \in Areas, NEW a \in stack'[u][x]
        PROVE  a \in Atoms /\ (Protected(a) \/ a < agc.at)
    <2>1. a \in Atoms
      BY <1>0 DEF TypeOK
    <2>2. CASE a \in stack[u][x]
      BY <1>2, <2>1, <2>2 DEF Stacked, Areas
    <2>3. CASE a \notin stack[u][x]
      <3>1. Protected(a) \/ a \in StillQueued \/ a \in Stacked(u)
        BY <2>3, NewProtected
      <3> QED BY <1>0, <1>2, <2>1, <3>1
    <2> QED BY <2>2, <2>3
  <1>5. ASSUME NEW a \in (Queued \cup UNION {Stacked(u) : u \in Threads})'
        PROVE  a \in Atoms /\ (Protected(a) \/ a < agc.at)
    <2>1. CASE a \in Queued'
      BY <1>3, <2>1
    <2>2. CASE a \notin Queued'
      <3>1. PICK u \in Threads : a \in stack'[u]["global"] \cup stack'[u]["local"]
        BY <2>2 DEF Stacked
      <3>2. PICK x \in Areas : a \in stack'[u][x]
        BY <3>1 DEF Areas
      <3> QED BY <1>4, <3>2
    <2> QED BY <2>1, <2>2
  <1> QED BY <1>1, <1>5, ProtectedKept
-----------------------------------------------------------------------------
(* The steps of the collector. *)

LEMMA LoopBounds ==
  ASSUME TypeOK, NEW max \in Nat \ {0}, NEW phase, Loop(max, phase)
  PROVE  \/ agc.at < max /\ agc'.phase = agc.phase /\ agc'.at = agc.at + 1
         \/ agc.at >= max /\ agc'.phase = phase /\ agc'.at = 1
  BY DEF Loop, TypeOK

LEMMA CollectorTypes ==
  ASSUME CInv, CollectorStep
  PROVE  TypeOK' /\ Bounds'
  <1>0. TypeOK /\ AtomMax \in Nat \ {0} /\ Marks \in Nat \ {0} /\ Bounds
    BY Names DEF CInv
  <1>1. CASE Start
    BY <1>0, <1>1 DEF Start, BeginAGC, TypeOK, Bounds, atomVars, queueVars
  <1>2. CASE Unmark
    <2>1. agc' \in [phase : {"unmark", "mark"}, at : Nat \ {0}]
      BY <1>0, <1>2 DEF Unmark, Loop, TypeOK
    <2>2. Bounds'
      <3>1. agc.phase = "unmark" /\ Loop(AtomMax, "mark")
        BY <1>2 DEF Unmark
      <3>2. \/ agc.at < AtomMax /\ agc'.phase = agc.phase /\ agc'.at = agc.at + 1
            \/ agc.at >= AtomMax /\ agc'.phase = "mark" /\ agc'.at = 1
        BY <1>0, <3>1, LoopBounds
      <3>3. agc.at \in Nat
        BY <1>0 DEF TypeOK
      <3> QED BY <1>0, <3>1, <3>2, <3>3 DEF Bounds
    <2> QED BY <1>0, <1>2, <2>1, <2>2 DEF Unmark, TypeOK, queueVars
  <1>3. CASE Mark
    <2>1. agc' \in [phase : {"mark", "sweep"}, at : Nat \ {0}]
      BY <1>0, <1>3 DEF Mark, Loop, TypeOK
    <2>2. Bounds'
      <3>1. agc.phase = "mark" /\ Loop(Marks, "sweep")
        BY <1>3 DEF Mark
      <3>2. \/ agc.at < Marks /\ agc'.phase = agc.phase /\ agc'.at = agc.at + 1
            \/ agc.at >= Marks /\ agc'.phase = "sweep" /\ agc'.at = 1
        BY <1>0, <3>1, LoopBounds
      <3>3. agc.at \in Nat
        BY <1>0 DEF TypeOK
      <3> QED BY <1>0, <3>1, <3>2, <3>3 DEF Bounds
    <2> QED BY <1>0, <1>3, <2>1, <2>2 DEF Mark, TypeOK, queueVars
  <1>4. CASE Sweep
    <2>1. agc' \in [phase : {"sweep", "done"}, at : Nat \ {0}]
      BY <1>0, <1>4 DEF Sweep, Loop, TypeOK
    <2>2. Bounds'
      <3>1. agc.phase = "sweep" /\ Loop(AtomMax, "done")
        BY <1>4 DEF Sweep
      <3>2. \/ agc.at < AtomMax /\ agc'.phase = agc.phase /\ agc'.at = agc.at + 1
            \/ agc.at >= AtomMax /\ agc'.phase = "done" /\ agc'.at = 1
        BY <1>0, <3>1, LoopBounds
      <3>3. agc.at \in Nat
        BY <1>0 DEF TypeOK
      <3> QED BY <1>0, <3>1, <3>2, <3>3 DEF Bounds
    <2> QED BY <1>0, <1>4, <2>1, <2>2 DEF Sweep, TypeOK, queueVars
  <1>5. CASE Finish
    BY <1>0, <1>5 DEF Finish, TypeOK, Bounds, atomVars, queueVars
  <1> QED BY <1>1, <1>2, <1>3, <1>4, <1>5 DEF CollectorStep

(* The collector changes atoms, their marks and where it is. *)
LEMMA CollectorKeeps ==
  ASSUME CollectorStep
  PROVE  UNCHANGED <<refs, holds, stack, messages, qlock, pc, hand, using, unregistering>>
  BY DEF CollectorStep, Start, BeginAGC, Unmark, Mark, Sweep, Finish, atomVars, queueVars

LEMMA CollectorCounted ==
  ASSUME CInv, CollectorStep
  PROVE  CInv'
  <1>1. Hands' /\ QueueHeld'
    BY CollectorKeeps DEF CInv, Hands, QueueHeld
  <1>2. RefsExact'
    BY CollectorKeeps DEF CInv, RefsExact, Registered
  <1>3. RefsPresent'
    <2>1. ASSUME NEW a \in Atoms, refs[a] # 0
          PROVE  a \in present'
      <3>1. a \in present
        BY <2>1 DEF CInv, RefsPresent
      <3> QED BY <2>1, <3>1 DEF CollectorStep, Start, BeginAGC, Unmark, Mark, Sweep, Finish, atomVars
    <2> QED BY <2>1, CollectorKeeps DEF RefsPresent
  <1> QED BY <1>1, <1>2, <1>3, CollectorTypes DEF CInv

LEMMA CollectorDangles ==
  ASSUME CInv, SInv, CollectorStep
  PROVE  NoDangling'
  <1>0. TypeOK /\ Hands /\ RefsExact
    BY DEF CInv
  <1>1. ASSUME NEW a \in present, \/ a \in Queued \cup UNION {Stacked(t) : t \in Threads}
                                  \/ \E s \in Structures : a = holds[s]
                                  \/ \E t \in Threads : a = hand[t]
        PROVE  a \in present'
    <2>1. CASE Sweep /\ a = agc.at
      <3>1. a \in marked \/ refs[a] # 0
        <4>0. a \in Atoms /\ a # NoAtom
          BY <1>0, Names DEF TypeOK
        <4>1. CASE a \in Queued \cup UNION {Stacked(t) : t \in Threads}
          <5>1. Protected(a) /\ ~Noted(a)
            BY <1>0, <2>1, <4>0, <4>1, Names DEF Sweep, SInv, SweptProtected, Noted
          <5> QED BY <1>0, <4>0, <5>1, HeldRefs DEF Protected
        <4>2. CASE \/ \E s \in Structures : a = holds[s]
                   \/ \E t \in Threads : a = hand[t]
          BY <1>0, <4>0, <4>2, HeldRefs
        <4> QED BY <1>1, <4>1, <4>2
      <3> QED BY <2>1, <3>1 DEF Sweep
    <2>2. CASE ~(Sweep /\ a = agc.at)
      BY <2>2 DEF CollectorStep, Start, BeginAGC, Unmark, Mark, Sweep, Finish, atomVars
    <2> QED BY <2>1, <2>2
  <1>2. NoDangling
    BY DEF SInv
  <1>3. Queued \subseteq present'
    BY <1>1, <1>2 DEF NoDangling
  <1>4. \A t \in Threads : Stacked(t) \subseteq present'
    BY <1>1, <1>2 DEF NoDangling
  <1>5. \A s \in Structures : holds[s] # NoAtom => holds[s] \in present'
    BY <1>1, <1>2 DEF NoDangling
  <1>6. \A t \in Threads : hand[t] # NoAtom => hand[t] \in present'
    BY <1>1, <1>2 DEF NoDangling
  <1> QED BY <1>3, <1>4, <1>5, <1>6, CollectorKeeps DEF NoDangling, Queued, Stacked

(* The steps at which the stacks of a thread are marked. *)
LEMMA StackRoots ==
  ASSUME NEW t \in Threads
  PROVE  /\ 4 * t - 2 \in 1..(Marks - 1) /\ Roots(4 * t - 2) = stack[t]["global"]
         /\ 4 * t - 1 \in 1..(Marks - 1) /\ Roots(4 * t - 1) = stack[t]["local"]
  <1>0. t \in 1..ThreadMax /\ t \in Int /\ ThreadMax \in Int
    BY Names DEF Threads
  <1>1. 4 * t - 2 \in 1..(Marks - 1) /\ 4 * t - 1 \in 1..(Marks - 1)
    BY <1>0 DEF Marks
  <1>2. /\ ((4 * t - 2 - 1) \div 4) + 1 = t /\ ((4 * t - 2 - 1) % 4) + 1 = 2
        /\ ((4 * t - 1 - 1) \div 4) + 1 = t /\ ((4 * t - 1 - 1) % 4) + 1 = 3
    BY <1>0
  <1>3. 4 * t - 2 # Marks /\ 4 * t - 1 # Marks
    BY <1>0 DEF Marks
  <1> HIDE DEF Marks
  <1>4. Parts[2] = "global" /\ Parts[3] = "local"
    BY DEF Parts
  <1>5. Roots(4 * t - 2) = stack[t]["global"]
    BY <1>2, <1>3, <1>4 DEF Roots
  <1>6. Roots(4 * t - 1) = stack[t]["local"]
    BY <1>2, <1>3, <1>4 DEF Roots
  <1> QED BY <1>1, <1>5, <1>6

(* and those at which its unregistering atom and the queue are. *)
LEMMA NoteRoots ==
  ASSUME NEW t \in Threads
  PROVE  4 * t - 3 \in 1..(Marks - 1) /\ Roots(4 * t - 3) = {unregistering[t]}
  <1>0. t \in 1..ThreadMax /\ t \in Int /\ ThreadMax \in Int
    BY Names DEF Threads
  <1>1. 4 * t - 3 \in 1..(Marks - 1) /\ 4 * t - 3 # Marks
    BY <1>0 DEF Marks
  <1>2. ((4 * t - 3 - 1) \div 4) + 1 = t /\ ((4 * t - 3 - 1) % 4) + 1 = 1
    BY <1>0
  <1> HIDE DEF Marks
  <1>3. Parts[1] = "unregistering"
    BY DEF Parts
  <1> QED BY <1>1, <1>2, <1>3 DEF Roots

LEMMA QueueRoots ==
  QueuePart \in 1..Marks /\ Roots(QueuePart) = Queued
  <1>1. CASE Owner = NoThread
    BY <1>1, Names DEF QueuePart, Roots
  <1>2. CASE Owner # NoThread
    <2>0. Owner \in 1..ThreadMax /\ Owner \in Int /\ ThreadMax \in Int
      BY <1>2, AtomAssumption, Names DEF Threads
    <2>1. 4 * Owner \in 1..Marks /\ 4 * Owner # Marks /\ QueuePart = 4 * Owner
      BY <1>2, <2>0 DEF QueuePart, Marks
    <2>2. ((4 * Owner - 1) \div 4) + 1 = Owner /\ ((4 * Owner - 1) % 4) + 1 = 4
      BY <2>0
    <2> HIDE DEF Marks, QueuePart
    <2>3. Parts[4] = "queue"
      BY DEF Parts
    <2> QED BY <2>1, <2>2, <2>3 DEF Roots
  <1> QED BY <1>1, <1>2

LEMMA StillSame ==
  ASSUME CollectorStep
  PROVE  StillQueued' = StillQueued
  BY CollectorKeeps DEF StillQueued

LEMMA MarkProtects ==
  ASSUME CInv, Mark, NEW a \in present, Protected(a)
  PROVE  Protected(a)'
  <1>0. /\ marked' = marked \cup (Roots(agc.at) \cap present) /\ agc.phase = "mark"
        /\ UNCHANGED <<holds, hand, pc, unregistering>>
        /\ agc.at \in Nat /\ Marks \in Nat \ {0}
        /\ \/ agc.at < Marks /\ agc'.phase = agc.phase /\ agc'.at = agc.at + 1
           \/ agc.at >= Marks /\ agc'.phase = "sweep" /\ agc'.at = 1
    BY Names, LoopBounds DEF CInv, Mark, TypeOK
  <1>1. CASE Noted(a)
    <2>1. PICK t \in Threads : unregistering[t] = a /\ agc.at <= 4 * t - 3
      BY <1>1 DEF Noted
    <2>2. /\ t \in Nat \ {0} /\ 4 * t - 3 < Marks
          /\ Roots(4 * t - 3) = {unregistering[t]}
      BY Names, NoteRoots
    <2>3. CASE agc.at = 4 * t - 3
      BY <1>0, <2>1, <2>2, <2>3 DEF Protected
    <2>4. CASE agc.at # 4 * t - 3
      <3>1. agc'.phase = "mark" /\ agc'.at <= 4 * t - 3
        BY <1>0, <2>1, <2>2, <2>4
      <3> QED BY <1>0, <2>1, <3>1 DEF Noted, Protected
    <2> QED BY <2>3, <2>4
  <1>2. CASE ~Noted(a)
    BY <1>0, <1>2 DEF Protected
  <1> QED BY <1>1, <1>2

(* Marking a stack covers it, and keeps covered what was. *)
LEMMA CollectorScans ==
  ASSUME CInv, SInv, CollectorStep
  PROVE  ScannedCovered'
  <1>0. /\ TypeOK /\ CInv' /\ Marks \in Nat \ {0} /\ AtomMax \in Nat \ {0}
        /\ agc.at \in Nat /\ agc'.at \in Nat
    BY CollectorCounted, Names DEF CInv, TypeOK
  <1> SUFFICES ASSUME agc'.phase = "mark", NEW t \in Threads
               PROVE  /\ agc'.at > QueuePart => \A a \in Queued : Protected(a)'
                      /\ agc'.at > 4 * t - 2 => Covered(stack[t]["global"])'
                      /\ agc'.at > 4 * t - 1 => Covered(stack[t]["local"])'
    <2>1. Queued' = Queued /\ Threads # {}
      BY CollectorKeeps, Names DEF Queued, Threads
    <2> QED BY <2>1 DEF ScannedCovered
  <1>1. t \in Nat \ {0} /\ QueuePart \in Nat \ {0}
    BY Names
  <1>2. CASE Mark
    <2>1. agc.phase = "mark" /\ agc'.at = agc.at + 1 /\ agc.at < Marks
      <3>1. agc.phase = "mark" /\ Loop(Marks, "sweep")
        BY <1>2 DEF Mark
      <3> QED BY <1>0, <3>1, LoopBounds
    <2>2. ASSUME NEW x \in Areas, Covered(stack[t][x])
          PROVE  Covered(stack[t][x])'
      <3>1. stack' = stack /\ StillQueued' = StillQueued
        BY StillSame, CollectorKeeps
      <3>2. stack[t][x] \subseteq present
        BY DEF SInv, NoDangling, Stacked, Areas
      <3>3. \A a \in present : Protected(a) => Protected(a)'
        BY <1>2, MarkProtects
      <3> QED BY <2>2, <3>1, <3>2, <3>3 DEF Covered
    <2>3. ASSUME NEW x \in Areas, Roots(agc.at) = stack[t][x]
          PROVE  Covered(stack[t][x])'
      <3>1. stack[t][x] \subseteq present
        BY DEF SInv, NoDangling, Stacked, Areas
      <3>2. stack' = stack /\ stack[t][x] \subseteq marked'
        BY <1>2, <2>3, <3>1 DEF Mark
      <3>3. \A a \in stack'[t][x] : Protected(a)'
        BY <3>2 DEF Protected
      <3> QED BY <3>3 DEF Covered
    <2>4. ASSUME agc'.at > 4 * t - 2
          PROVE  Covered(stack[t]["global"])'
      <3>1. CASE agc.at = 4 * t - 2
        BY <2>3, <3>1, StackRoots DEF Areas
      <3>2. CASE agc.at > 4 * t - 2
        BY <2>1, <2>2, <3>2 DEF SInv, ScannedCovered, Areas
      <3> QED BY <1>0, <1>1, <2>1, <2>4, <3>1, <3>2
    <2>5. ASSUME agc'.at > 4 * t - 1
          PROVE  Covered(stack[t]["local"])'
      <3>1. CASE agc.at = 4 * t - 1
        BY <2>3, <3>1, StackRoots DEF Areas
      <3>2. CASE agc.at > 4 * t - 1
        BY <2>1, <2>2, <3>2 DEF SInv, ScannedCovered, Areas
      <3> QED BY <1>0, <1>1, <2>1, <2>5, <3>1, <3>2
    <2>6. ASSUME agc'.at > QueuePart, NEW a \in Queued
          PROVE  Protected(a)'
      <3>0. a \in present
        BY DEF SInv, NoDangling
      <3>1. CASE agc.at = QueuePart
        BY <1>2, <2>6, <3>0, <3>1, QueueRoots DEF Mark, Protected
      <3>2. CASE agc.at > QueuePart
        BY <1>2, <2>1, <2>6, <3>0, <3>2, MarkProtects DEF SInv, ScannedCovered
      <3> QED BY <1>0, <1>1, <2>1, <2>6, <3>1, <3>2
    <2> QED BY <2>4, <2>5, <2>6
  <1>3. CASE ~Mark
    <2>1. agc'.at = 1
      <3>1. Unmark
        BY <1>0, <1>3 DEF CollectorStep, Start, BeginAGC, Sweep, Finish, Loop, TypeOK
      <3>2. agc.phase = "unmark" /\ Loop(AtomMax, "mark")
        BY <3>1 DEF Unmark
      <3> QED BY <1>0, <3>2, LoopBounds
    <2> QED BY <1>1, <2>1
  <1> QED BY <1>2, <1>3

LEMMA CollectorNotes ==
  ASSUME CInv, SInv, Orderly, CollectorStep
  PROVE  NotesMarked'
  <1>0. /\ TypeOK /\ Hands /\ Bounds /\ NotesMarked /\ NoDangling
        /\ agc.at \in Nat /\ Marks \in Nat \ {0} /\ AtomMax \in Nat \ {0}
        /\ Atoms \subseteq Nat /\ Threads \subseteq Nat \ {0} /\ NoAtom \notin Atoms
        /\ UNCHANGED <<pc, hand, unregistering>>
    BY Names, CollectorKeeps DEF CInv, SInv, TypeOK
  <1>1. gc_active' => ~Unnoted'
    <2>1. CASE Start
      BY <1>0, <2>1 DEF Orderly, Unnoted
    <2>2. CASE ~Start
      <3>1. gc_active
        BY <2>2 DEF CollectorStep, Unmark, Mark, Sweep, Finish, gc_active
      <3> QED BY <1>0, <3>1 DEF NotesMarked, Unnoted
    <2> QED BY <2>1, <2>2
  <1> SUFFICES ASSUME NEW t \in Threads, pc[t] = "dec"
               PROVE  /\ agc'.phase = "mark" => hand[t] \in marked' \/ agc'.at <= 4 * t - 3
                      /\ agc'.phase = "sweep" => hand[t] \in marked' \/ hand[t] < agc'.at
    BY <1>0, <1>1 DEF NotesMarked
  <1>2. /\ unregistering[t] = hand[t]
        /\ agc.phase = "mark" => hand[t] \in marked \/ agc.at <= 4 * t - 3
        /\ agc.phase = "sweep" => hand[t] \in marked \/ hand[t] < agc.at
    BY <1>0 DEF NotesMarked
  <1>3. t \in Nat \ {0} /\ hand[t] \in Nat /\ hand[t] \in present
    BY <1>0 DEF Hands, Registering, NoDangling, TypeOK
  <1>4. CASE Start \/ Finish
    BY <1>0, <1>4 DEF Start, BeginAGC, Finish, TypeOK
  <1>5. CASE Unmark
    <2>1. agc.phase = "unmark" /\ Loop(AtomMax, "mark")
      BY <1>5 DEF Unmark
    <2> QED BY <1>0, <1>3, <2>1, LoopBounds
  <1>6. CASE Mark
    <2>1. /\ agc.phase = "mark" /\ Loop(Marks, "sweep")
          /\ marked' = marked \cup (Roots(agc.at) \cap present)
      BY <1>6 DEF Mark
    <2>2. \/ agc.at < Marks /\ agc'.phase = "mark" /\ agc'.at = agc.at + 1
          \/ agc.at >= Marks /\ agc'.phase = "sweep" /\ agc'.at = 1
      BY <1>0, <2>1, LoopBounds
    <2>3. 4 * t - 3 < Marks /\ Roots(4 * t - 3) = {unregistering[t]}
      BY <1>0, <1>3, NoteRoots
    <2>4. CASE agc.at = 4 * t - 3
      BY <1>2, <1>3, <2>1, <2>3, <2>4
    <2>5. CASE agc.at # 4 * t - 3
      BY <1>0, <1>2, <1>3, <2>1, <2>2, <2>3, <2>5
    <2> QED BY <2>4, <2>5
  <1>7. CASE Sweep
    <2>1. agc.phase = "sweep" /\ Loop(AtomMax, "done") /\ marked' = marked \ {agc.at}
      BY <1>7 DEF Sweep
    <2>2. \/ agc'.phase = "sweep" /\ agc'.at = agc.at + 1
          \/ agc'.phase = "done"
      BY <1>0, <2>1, LoopBounds
    <2> QED BY <1>0, <1>2, <1>3, <2>1, <2>2
  <1> QED BY <1>4, <1>5, <1>6, <1>7 DEF CollectorStep

LEMMA CollectorSweeps ==
  ASSUME CInv, SInv, CollectorStep
  PROVE  SweptProtected'
  <1>0. /\ TypeOK /\ Bounds /\ Marks \in Nat \ {0} /\ AtomMax \in Nat \ {0} /\ Atoms \subseteq Nat
        /\ agc.at \in Nat /\ UNCHANGED <<stack, messages>>
    BY Names, CollectorKeeps DEF CInv, TypeOK
  <1> SUFFICES ASSUME agc'.phase = "sweep",
                      NEW a \in Queued \cup UNION {Stacked(t) : t \in Threads}
               PROVE  Protected(a)' \/ a < agc'.at
    BY <1>0 DEF SweptProtected, Queued, Stacked
  <1>1. a \in Nat
    BY <1>0, QueuedAtoms
  <1>2. CASE Mark
    <2>1. agc'.phase = "sweep" /\ agc.at = Marks
      <3>1. agc.phase = "mark" /\ Loop(Marks, "sweep")
        BY <1>2 DEF Mark
      <3> QED BY <1>0, <3>1, LoopBounds DEF Bounds
    <2>0. a \in present
      BY DEF SInv, NoDangling
    <2>2. CASE a \in Queued
      <3>1. CASE QueuePart = agc.at
        BY <1>2, <2>0, <2>2, <3>1, QueueRoots DEF Mark, Protected
      <3>2. CASE QueuePart # agc.at
        <4>1. agc.at > QueuePart /\ agc.phase = "mark"
          BY <1>0, <1>2, <2>1, <3>2, QueueRoots DEF Mark
        <4> QED BY <1>2, <2>0, <2>2, <4>1, MarkProtects DEF SInv, ScannedCovered
      <3> QED BY <3>1, <3>2
    <2>3. CASE a \notin Queued
      <3>1. PICK t \in Threads : a \in Stacked(t)
        BY <2>3
      <3>2. agc.at > 4 * t - 2 /\ agc.at > 4 * t - 1
        <4>1. 4 * t - 2 < Marks /\ 4 * t - 1 < Marks
          BY <1>0, StackRoots, Names
        <4> QED BY <2>1, <4>1, <1>0
      <3>3. agc.phase = "mark"
        BY <1>2 DEF Mark
      <3>4. Protected(a) \/ a \in StillQueued
        BY <3>1, <3>2, <3>3 DEF SInv, ScannedCovered, Covered, Stacked
      <3>5. Protected(a)
        BY <2>3, <3>4 DEF StillQueued, Queued
      <3> QED BY <1>2, <2>0, <3>5, MarkProtects
    <2> QED BY <2>2, <2>3
  <1>3. CASE Sweep
    <2>1. agc.phase = "sweep" /\ agc'.at = agc.at + 1
      <3>1. agc.phase = "sweep" /\ Loop(AtomMax, "done")
        BY <1>3 DEF Sweep
      <3> QED BY <1>0, <3>1, LoopBounds
    <2>2. CASE a <= agc.at
      BY <1>0, <1>1, <2>1, <2>2
    <2>3. CASE a > agc.at
      <3>1. Protected(a) /\ ~Noted(a)
        BY <1>0, <1>1, <2>1, <2>3 DEF SInv, SweptProtected, Noted
      <3>2. a \in marked => a \in marked'
        BY <1>0, <1>1, <1>3, <2>3 DEF Sweep
      <3> QED BY <3>1, <3>2, CollectorKeeps DEF Protected
    <2> QED BY <1>0, <1>1, <2>2, <2>3
  <1>4. CASE Start \/ Unmark \/ Finish
    <2>1. CASE Start
      BY <2>1 DEF Start, BeginAGC
    <2>2. CASE Unmark
      <3>1. agc.phase = "unmark" /\ Loop(AtomMax, "mark")
        BY <2>2 DEF Unmark
      <3> QED BY <1>0, <3>1, LoopBounds
    <2>3. CASE Finish
      BY <1>0, <2>3 DEF Finish, TypeOK
    <2> QED BY <1>4, <2>1, <2>2, <2>3
  <1> QED BY <1>2, <1>3, <1>4 DEF CollectorStep

IInv == CInv /\ SInv

LEMMA CountedStill ==
  ASSUME CInv, UNCHANGED vars
  PROVE  CInv'
  BY DEF vars, CInv, TypeOK, Hands, QueueHeld, Bounds, RefsExact, RefsPresent, Registered

LEMMA AtomsInit ==
  Init => IInv
  <1> SUFFICES ASSUME Init PROVE IInv
    OBVIOUS
  <1>0. NoAtom \notin Atoms /\ NoThread \notin Threads /\ Structures \cap Threads = {}
    BY Names, AtomAssumption
  <1>1. TypeOK
    <2>1. refs \in [Atoms -> Nat] /\ holds \in [Structures -> Atoms \cup {NoAtom}]
      BY DEF Init
    <2>2. stack \in [Threads -> [Areas -> SUBSET Atoms]]
      BY DEF Init
    <2>3. agc \in [phase : {"idle", "unmark", "mark", "sweep", "done"}, at : Nat \ {0}]
      BY DEF Init
    <2>4. /\ pc \in [Threads -> PCs] /\ hand \in [Threads -> Atoms \cup {NoAtom}]
          /\ using \in [Threads -> Structures \cup {NoStructure}]
          /\ unregistering \in [Threads -> Atoms \cup {NoAtom}]
      BY DEF Init, PCs
    <2>5. present \subseteq Atoms /\ marked \subseteq Atoms /\ doomed \subseteq Atoms
          /\ messages \in Seq(Atoms) /\ qlock \in Threads \cup {NoThread}
      BY DEF Init
    <2> QED BY <2>1, <2>2, <2>3, <2>4, <2>5 DEF TypeOK
  <1>2. Hands /\ QueueHeld /\ Bounds /\ RefsPresent
    BY DEF Init, Hands, QueueHeld, Bounds, RefsPresent, Registering, Locked
  <1>3. RefsExact
    <2>1. ASSUME NEW a \in Atoms
          PROVE  Cardinality(Registered(a)) = 0
      <3>1. Registered(a) = {}
        BY <1>0 DEF Init, Registered
      <3> QED BY <3>1, FS_EmptySet
    <2> QED BY <2>1 DEF Init, RefsExact
  <1>4. NoDangling
    <2>1. Queued = {} /\ \A t \in Threads : Stacked(t) = {}
      BY DEF Init, Queued, Stacked, Areas
    <2> QED BY <2>1 DEF Init, NoDangling
  <1>5. NotesMarked /\ ScannedCovered /\ SweptProtected
    BY DEF Init, NotesMarked, gc_active, ScannedCovered, SweptProtected
  <1> QED BY <1>1, <1>2, <1>3, <1>4, <1>5 DEF IInv, CInv, SInv

LEMMA AtomsStep ==
  ASSUME IInv, [Next]_vars, [Orderly]_vars
  PROVE  IInv'
  <1>0. CInv /\ SInv /\ NoDangling /\ NotesMarked
    BY DEF IInv, SInv
  <1>1. ASSUME Orderly, NEW t \in Threads, ThreadStep(t)
        PROVE  IInv'
    BY <1>0, <1>1, CountedThread, DanglingThread, NotesThread, ScannedThread, SweptThread
       DEF IInv, SInv
  <1>2. CASE Orderly /\ CollectorStep
    BY <1>0, <1>2, CollectorCounted, CollectorDangles, CollectorNotes, CollectorScans,
       CollectorSweeps DEF IInv, SInv
  <1>3. CASE UNCHANGED vars
    <2>1. CInv'
      BY <1>0, <1>3, CountedStill
    <2>2. NoDangling'
      BY <1>0, <1>3 DEF vars, NoDangling, Queued, Stacked
    <2>3. \A a : Protected(a) <=> Protected(a)'
      BY <1>3 DEF vars, Protected, Noted
    <2>4. NotesMarked'
      BY <1>0, <1>3 DEF vars, NotesMarked, Unnoted, gc_active
    <2>5. ScannedCovered'
      BY <1>0, <1>3, <2>3 DEF vars, SInv, ScannedCovered, Covered, StillQueued, Queued
    <2>6. SweptProtected'
      BY <1>0, <1>3, <2>3 DEF vars, SInv, SweptProtected, Queued, Stacked
    <2> QED BY <2>1, <2>2, <2>4, <2>5, <2>6 DEF IInv, SInv
  <1> QED BY <1>1, <1>2, <1>3, Steps

(* No atom is reclaimed while a stack, a message, a structure or a thread  *)
(* that works with it refers to it, although the collector marks the       *)
(* stacks of threads that run, that register and unregister atoms, copy    *)
(* them from one stack to the other and pass them through a queue: in the  *)
(* behaviours in which no collection starts between the test of gc_active  *)
(* and the note of PL_unregister_atom(), no thread copies an atom to its   *)
(* global stack while the collector is between its two stacks, and none    *)
(* sends one to a queue that was marked before its stacks were.            *)
THEOREM NothingDangles == Spec /\ [][Orderly]_vars => []NoDangling
  <1>1. IInv => NoDangling
    BY DEF IInv, SInv
  <1> QED BY <1>1, AtomsInit, AtomsStep, PTL DEF Spec
-----------------------------------------------------------------------------
(* What holds for as long as nothing dangles, in any of these windows.     *)

LEMMA CountedStep ==
  ASSUME CInv, NoDangling, [Next]_vars
  PROVE  CInv'
  BY Steps, CountedThread, CollectorCounted, CountedStill

LEMMA CountedInvariance == Spec /\ []NoDangling => []CInv
  <1>1. Init => CInv
    BY AtomsInit DEF IInv
  <1> QED BY <1>1, CountedStep, PTL DEF Spec

(* An atom has as many references as there are structures that hold it and *)
(* threads that have yet to unregister it, however many threads register   *)
(* and unregister it at a time and whether or not the collector runs: none *)
(* too many or too few when the collector reads it.  Only an atom that is  *)
(* registered after it was reclaimed could be counted wrong.               *)
THEOREM ReferencesExact == Spec /\ []NoDangling => []RefsExact
  <1>1. CInv => RefsExact
    BY DEF CInv
  <1> QED BY <1>1, CountedInvariance, PTL

(* Type correctness: no reference count is negative. *)
THEOREM AtomTypes == Spec /\ []NoDangling => []TypeOK
  <1>1. CInv => TypeOK
    BY DEF CInv
  <1> QED BY <1>1, CountedInvariance, PTL
-----------------------------------------------------------------------------
(* Garbage stays garbage while the collector runs, and is swept. *)

LEMMA DoomedThread ==
  ASSUME CInv, GInv, NEW t \in Threads, ThreadStep(t)
  PROVE  GInv'
  <1>0. /\ TypeOK /\ Hands /\ QueueHeld /\ RefsExact
        /\ agc' = agc /\ doomed' = doomed /\ (gc_active' <=> gc_active)
        /\ doomed \subseteq Atoms /\ NoAtom \notin Atoms
    BY CollectorStill, Names DEF CInv, TypeOK, gc_active
  <1>1. CASE ~gc_active
    BY <1>0, <1>1 DEF GInv, DoomedUnused, DoomedUnmarked, DoomedSwept, GarbageGoes, gc_active
  <1>2. CASE gc_active
    <2>1. /\ present' = present
          /\ \A a \in doomed : /\ refs[a] = 0 /\ a \notin Queued
                               /\ \A u \in Threads : a \notin Stacked(u) /\ a # unregistering[u]
      BY <1>0, <1>2, PresentSource DEF GInv, DoomedUnused
    <2>2. ASSUME NEW a \in doomed
          PROVE  /\ \A s \in Structures : holds[s] # a
                 /\ \A u \in Threads : hand[u] # a
      BY <1>0, <2>1, HeldRefs
    <2>3. ASSUME NEW a \in doomed
          PROVE  /\ refs'[a] = 0 /\ a \notin Queued'
                 /\ \A u \in Threads : a \notin Stacked(u)' /\ a # unregistering'[u]
      <3>1. refs'[a] = 0
        BY <1>0, <1>2, <2>1, RefsSource
      <3>2. a \notin Queued'
        BY <1>0, <2>1, QueueSource
      <3>3. ASSUME NEW u \in Threads, NEW x \in Areas, a \in stack'[u][x]
            PROVE  FALSE
        <4>1. a \notin stack[u][x]
          BY <2>1 DEF Stacked, Areas
        <4> QED BY <1>0, <2>1, <2>2, <3>3, <4>1, StackSource
      <3>4. ASSUME NEW u \in Threads
            PROVE  a # unregistering'[u]
        BY <1>0, <2>1, <2>2, UnregisteringSource
      <3> QED BY <3>1, <3>2, <3>3, <3>4 DEF Stacked, Areas
    <2>4. DoomedUnused'
      BY <1>0, <2>3 DEF DoomedUnused
    <2>5. \A a \in doomed : a \in marked' => a \in marked
      BY <1>0, <2>1, <2>2, MarkSource
    <2>6. DoomedUnmarked'
      BY <1>0, <2>5 DEF GInv, DoomedUnmarked
    <2>7. DoomedSwept'
      BY <1>0, <2>1 DEF GInv, DoomedSwept, GarbageGoes
    <2> QED BY <2>4, <2>6, <2>7 DEF GInv
  <1> QED BY <1>1, <1>2

LEMMA DoomedCollector ==
  ASSUME CInv, GInv, CollectorStep
  PROVE  GInv'
  <1>0. /\ TypeOK /\ Bounds /\ agc.at \in Nat /\ AtomMax \in Nat \ {0} /\ Marks \in Nat \ {0}
        /\ UNCHANGED <<refs, stack, messages, unregistering>>
        /\ doomed \subseteq Atoms /\ Atoms = 1..AtomMax /\ present \subseteq Atoms
    BY CollectorKeeps, Names DEF CInv, TypeOK, Atoms
  <1>1. CASE Start
    <2>1. agc' = [phase |-> "unmark", at |-> 1] /\ present' = present /\ marked' = marked
          /\ doomed' = present \ (InUse \cup {unregistering[t] : t \in Threads})
      BY <1>1 DEF Start, BeginAGC, atomVars
    <2>2. DoomedUnused'
      <3>1. ASSUME NEW a \in doomed'
            PROVE  /\ refs[a] = 0 /\ a \notin Queued
                   /\ \A t \in Threads : a \notin Stacked(t) /\ a # unregistering[t]
        <4>1. a \in Atoms /\ a \notin InUse /\ a \notin {unregistering[t] : t \in Threads}
          BY <1>0, <2>1
        <4>2. refs[a] = 0 /\ a \notin Queued /\ a \notin UNION {Stacked(t) : t \in Threads}
          <5>1. InUse = Queued \cup (UNION {Stacked(t) : t \in Threads}) \cup {b \in Atoms : refs[b] # 0}
            BY DEF InUse
          <5>2. a \notin {b \in Atoms : refs[b] # 0}
            BY <4>1, <5>1
          <5> QED BY <4>1, <5>1, <5>2
        <4> QED BY <4>1, <4>2
      <3> QED BY <1>0, <3>1 DEF DoomedUnused, Queued, Stacked
    <2>3. DoomedUnmarked' /\ DoomedSwept'
      BY <1>0, <2>1 DEF DoomedUnmarked, DoomedSwept, GarbageGoes
    <2> QED BY <2>2, <2>3 DEF GInv
  <1>2. CASE Finish
    <2>1. ~gc_active' /\ agc'.phase = "idle"
      BY <1>0, <1>2 DEF Finish, gc_active, TypeOK
    <2> QED BY <2>1 DEF GInv, DoomedUnused, DoomedUnmarked, DoomedSwept, GarbageGoes
  <1>3. CASE Unmark \/ Mark \/ Sweep
    <2>0. gc_active /\ doomed' = doomed
      BY <1>3 DEF Unmark, Mark, Sweep, gc_active
    <2>1. DoomedUnused'
      BY <1>0, <2>0 DEF GInv, DoomedUnused, Queued, Stacked
    <2>2. CASE Unmark
      <3>1. /\ agc.phase = "unmark" /\ marked' = marked \ {agc.at} /\ Loop(AtomMax, "mark")
        BY <2>2 DEF Unmark
      <3>2. \/ agc.at < AtomMax /\ agc'.phase = "unmark" /\ agc'.at = agc.at + 1
            \/ agc.at >= AtomMax /\ agc'.phase = "mark" /\ agc'.at = 1
        BY <1>0, <3>1, LoopBounds
      <3>3. \A a \in doomed \cap marked : a >= agc.at /\ a \in 1..AtomMax
        BY <1>0, <2>0 DEF GInv, DoomedUnmarked
      <3>4. \A a \in doomed \cap marked' : a >= agc.at + 1 /\ a \in 1..AtomMax
        BY <1>0, <3>1, <3>3
      <3>5. DoomedUnmarked'
        BY <1>0, <2>0, <3>2, <3>4 DEF DoomedUnmarked
      <3>6. DoomedSwept'
        BY <3>2 DEF DoomedSwept, GarbageGoes
      <3> QED BY <2>1, <3>5, <3>6 DEF GInv
    <2>3. CASE Mark
      <3>1. /\ agc.phase = "mark" /\ marked' = marked \cup (Roots(agc.at) \cap present)
            /\ Loop(Marks, "sweep")
        BY <2>3 DEF Mark
      <3>2. \/ agc'.phase = "mark" /\ agc'.at = agc.at + 1
            \/ agc'.phase = "sweep" /\ agc'.at = 1
        BY <1>0, <3>1, LoopBounds
      <3>3. doomed \cap marked = {}
        BY <2>0, <3>1 DEF GInv, DoomedUnmarked
      <3>4. doomed \cap Roots(agc.at) = {}
        <4> DEFINE k == agc.at
                   u == ((k - 1) \div 4) + 1
                   part == Parts[((k - 1) % 4) + 1]
        <4>1. k \in 1..Marks
          BY <1>0, <3>1 DEF CInv, Bounds, TypeOK
        <4>2. CASE k = Marks
          BY <2>0, <4>2 DEF Roots, GInv, DoomedUnused
        <4>3. CASE k # Marks
          <5>1. u \in Threads /\ part \in {"unregistering", "global", "local", "queue"}
            <6>1. k \in 1..(4 * ThreadMax) /\ ThreadMax \in Nat
              BY <1>0, <4>1, <4>3, Names DEF Marks
            <6>2. ((k - 1) \div 4) + 1 \in 1..ThreadMax /\ ((k - 1) % 4) + 1 \in 1..4
              <7> HIDE DEF k
              <7> QED BY <6>1
            <6> QED BY <6>2 DEF Threads, Parts
          <5>2. Roots(k) \subseteq {unregistering[u]} \cup Queued \cup Stacked(u)
            <6> HIDE DEF u
            <6>1. Roots(k) = IF part = "unregistering" THEN {unregistering[u]}
                             ELSE IF part = "queue" THEN (IF Owner = u THEN Queued ELSE {})
                             ELSE stack[u][part]
              BY <4>3 DEF Roots, u
            <6> HIDE DEF part
            <6> QED BY <5>1, <6>1 DEF Stacked
          <5> HIDE DEF u, k
          <5>3. doomed \cap ({unregistering[u]} \cup Queued \cup Stacked(u)) = {}
            BY <2>0, <5>1 DEF GInv, DoomedUnused
          <5> QED BY <5>2, <5>3 DEF k
        <4> QED BY <4>2, <4>3
      <3>5. DoomedUnmarked'
        BY <2>0, <3>1, <3>3, <3>4 DEF DoomedUnmarked
      <3>6. DoomedSwept'
        BY <1>0, <2>0, <2>3, <3>2 DEF Mark, DoomedSwept, GarbageGoes
      <3> QED BY <2>1, <3>5, <3>6 DEF GInv
    <2>4. CASE Sweep
      <3>1. /\ agc.phase = "sweep" /\ marked' = marked \ {agc.at} /\ Loop(AtomMax, "done")
            /\ present' = IF refs[agc.at] = 0 /\ agc.at \notin marked THEN present \ {agc.at}
                          ELSE present
        BY <2>4 DEF Sweep
      <3>2. \/ agc.at < AtomMax /\ agc'.phase = "sweep" /\ agc'.at = agc.at + 1
            \/ agc.at >= AtomMax /\ agc'.phase = "done" /\ agc'.at = 1
        BY <1>0, <3>1, LoopBounds
      <3>3. doomed \cap marked = {} /\ \A a \in doomed : refs[a] = 0
        BY <1>0, <2>0, <3>1 DEF GInv, DoomedUnmarked, DoomedUnused
      <3>4. \A a \in doomed \cap present : a >= agc.at /\ a \in 1..AtomMax
        BY <1>0, <3>1 DEF GInv, DoomedSwept
      <3>5. \A a \in doomed \cap present' : a >= agc.at + 1 /\ a \in 1..AtomMax
        BY <1>0, <3>1, <3>3, <3>4
      <3>6. DoomedUnmarked'
        BY <2>0, <3>1, <3>3 DEF DoomedUnmarked
      <3>7. DoomedSwept'
        <4>1. CASE agc'.phase = "sweep"
          BY <1>0, <2>0, <3>2, <3>5, <4>1 DEF DoomedSwept, GarbageGoes
        <4>2. CASE agc'.phase = "done"
          <5>1. \A a \in doomed \cap present' : FALSE
            BY <1>0, <3>1, <3>2, <3>5, <4>2
          <5> QED BY <2>0, <4>2, <5>1 DEF DoomedSwept, GarbageGoes
        <4> QED BY <3>1, <3>2, <4>1, <4>2
      <3> QED BY <2>1, <3>6, <3>7 DEF GInv
    <2> QED BY <1>3, <2>2, <2>3, <2>4
  <1> QED BY <1>1, <1>2, <1>3 DEF CollectorStep

(* What was garbage as the collector started is gone when it is done: no   *)
(* mark of the time before and no step of a thread saves it.               *)
THEOREM GarbageGone == Spec /\ []NoDangling => []GarbageGoes
  <1>1. Init => GInv
    BY DEF Init, GInv, DoomedUnused, DoomedUnmarked, DoomedSwept, GarbageGoes, gc_active
  <1>2. CInv /\ GInv /\ [Next]_vars => GInv'
    <2> SUFFICES ASSUME CInv, GInv, [Next]_vars PROVE GInv'
      OBVIOUS
    <2>1. CASE UNCHANGED vars
      BY <2>1 DEF vars, GInv, DoomedUnused, DoomedUnmarked, DoomedSwept, GarbageGoes, InUse,
         Queued, Stacked, gc_active
    <2>2. CASE Next
      BY <2>2, Steps, DoomedThread, DoomedCollector
    <2> QED BY <2>1, <2>2
  <1>3. GInv => GarbageGoes
    BY DEF GInv, DoomedSwept
  <1> QED BY <1>1, <1>2, <1>3, CountedInvariance, PTL DEF Spec
=============================================================================
