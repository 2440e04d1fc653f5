------------------------ MODULE MessageQueue_proofs -------------------------
(***************************************************************************)
(* Proofs about MessageQueue, for any threads, messages, patterns, kind    *)
(* and size of queue.                                                      *)
(***************************************************************************)
EXTENDS MessageQueue, FiniteSetTheorems, SequenceTheorems, TLAPS

(* TypeOK with counters that could be negative: inductive by itself. *)
Typed ==
  /\ queue \in Seq(Message)
  /\ sequence_next \in Nat
  /\ waiting \in Int /\ waiting_var \in Int /\ wait_for_drain \in Int
  /\ initialized \in BOOLEAN /\ destroyed \in BOOLEAN
  /\ inTable \in BOOLEAN /\ freed \in BOOLEAN
  /\ lthread \in Threads \cup {NoThread}
  /\ pc \in [Threads -> PCs]
  /\ req \in [Threads -> Request \cup {NoReq}]
  /\ seen \in [Threads -> Nat]
  /\ sig \in [Threads -> BOOLEAN]
  /\ outcome \in [Threads -> Outcomes]
  /\ got \in [Threads -> Msgs \cup {NoMsg}]

(* What is known of the fields of a request from its call. *)
LEMMA RequestFields ==
  ASSUME NEW r \in Request \cup {NoReq}
  PROVE  /\ r.call = "send" => r \in SendReq /\ r.msg \in Msgs
         /\ r.call = "get" => r \in GetReq /\ r.pat \in Patterns
         /\ r.call = "peek" => r.pat \in Patterns
  BY DEF Request, NoReq, SendReq, GetReq, PeekReq, OtherReq

(* Removing one element of a sequence. *)
LEMMA RemoveAtType ==
  ASSUME NEW S, NEW s \in Seq(S), NEW i \in DOMAIN s
  PROVE  /\ RemoveAt(s, i) \in Seq(S)
         /\ Len(RemoveAt(s, i)) = Len(s) - 1
         /\ \A j \in 1 .. (i - 1) : RemoveAt(s, i)[j] = s[j]
         /\ \A j \in i .. (Len(s) - 1) : RemoveAt(s, i)[j] = s[j + 1]
  <1> DEFINE a == SubSeq(s, 1, i - 1)
             b == SubSeq(s, i + 1, Len(s))
  <1>1. a \in Seq(S) /\ Len(a) = i - 1 /\ \A j \in 1 .. (i - 1) : a[j] = s[j]
    OBVIOUS
  <1>2. /\ b \in Seq(S) /\ Len(b) = Len(s) - i
        /\ \A j \in 1 .. (Len(s) - i) : b[j] = s[j + i]
    OBVIOUS
  <1>3. RemoveAt(s, i) = a \o b
    BY DEF RemoveAt
  <1>4. i \in 1 .. Len(s) /\ Len(s) \in Nat
    OBVIOUS
  <1> HIDE DEF a, b
  <1>5. a \o b \in Seq(S) /\ Len(a \o b) = Len(s) - 1
    BY <1>1, <1>2, <1>4
  <1>6. \A j \in 1 .. (i - 1) : (a \o b)[j] = a[j]
    BY <1>1, <1>2, <1>4
  <1>7. ASSUME NEW j \in i .. (Len(s) - 1)
        PROVE  (a \o b)[j] = s[j + 1]
    <2>1. (a \o b)[j] = b[j - (i - 1)]
      <3>1. j \in 1 .. Len(a) + Len(b) /\ ~(j <= Len(a)) /\ j - Len(a) = j - (i - 1)
        BY <1>1, <1>2, <1>4
      <3>2. (a \o b)[j] = IF j <= Len(a) THEN a[j] ELSE b[j - Len(a)]
        BY <1>1, <1>2, <3>1, ConcatProperties
      <3> QED
        BY ONLY <3>1, <3>2
    <2>2. j - (i - 1) \in 1 .. (Len(s) - i) /\ (j - (i - 1)) + i = j + 1
      BY <1>4
    <2> QED
      BY <2>1, <2>2, <1>2
  <1> QED
    BY <1>1, <1>3, <1>5, <1>6, <1>7

(* release_message_queue() keeps the types of what it changes. *)
LEMMA ReleaseTyped ==
  ASSUME Typed, NEW t \in Threads, NEW o \in Outcomes, NEW woken,
         Release(t, o, woken)
  PROVE  /\ pc' \in [Threads -> PCs]
         /\ req' \in [Threads -> Request \cup {NoReq}]
         /\ outcome' \in [Threads -> Outcomes]
  <1>1. AfterRelease(o, req[t].call) \in PCs
    BY DEF AfterRelease, PCs
  <1> QED
    BY <1>1 DEF Typed, Release, Goto, PCs, WaitPC

(* The parts of queue_message() and get_message() that change the queue. *)
LEMMA AppendTyped ==
  ASSUME Typed, NEW t \in Threads, req[t].call = "send", AppendMessage(t)
  PROVE  /\ queue' \in Seq(Message)
         /\ sequence_next' \in Nat
         /\ pc' \in [Threads -> PCs]
         /\ req' \in [Threads -> Request \cup {NoReq}]
         /\ outcome' \in [Threads -> Outcomes]
  <1>1. req[t].msg \in Msgs
    BY RequestFields DEF Typed
  <1>2. sequence_next' \in Nat \ {0} /\ queue \in Seq(Message)
    BY DEF AppendMessage, Typed
  <1>3. [id |-> sequence_next', msg |-> req[t].msg] \in Message
    BY <1>1, <1>2 DEF Message
  <1>4. queue' = Append(queue, [id |-> sequence_next', msg |-> req[t].msg])
    BY DEF AppendMessage
  <1>5. queue' \in Seq(Message)
    BY <1>2, <1>3, <1>4
  <1>6. \E woken : Release(t, "ok", woken)
    BY DEF AppendMessage
  <1>7. "ok" \in Outcomes
    BY DEF Outcomes
  <1> QED
    BY <1>2, <1>5, <1>6, <1>7, ReleaseTyped

LEMMA TakeTyped ==
  ASSUME Typed, NEW t \in Threads, TakeFirst(t)
  PROVE  /\ queue' \in Seq(Message)
         /\ got' \in [Threads -> Msgs \cup {NoMsg}]
         /\ pc' \in [Threads -> PCs]
         /\ req' \in [Threads -> Request \cup {NoReq}]
         /\ outcome' \in [Threads -> Outcomes]
  <1>1. PICK i \in Candidates(t) :
          /\ queue' = RemoveAt(queue, i)
          /\ got' = [got EXCEPT ![t] = queue[i].msg]
          /\ \E woken \in WakeWriters : Release(t, "ok", woken)
    BY DEF TakeFirst
  <1>2. i \in DOMAIN queue /\ queue \in Seq(Message)
    BY DEF Candidates, Unseen, Typed
  <1>3. queue[i] \in Message
    BY <1>2
  <1>4. queue[i].msg \in Msgs
    BY <1>3 DEF Message
  <1>5. "ok" \in Outcomes
    BY DEF Outcomes
  <1> QED
    BY <1>1, <1>2, <1>4, <1>5, ReleaseTyped, RemoveAtType DEF Typed

LEMMA ScannedToTyped ==
  ASSUME Typed, NEW t \in Threads
  PROVE  ScannedTo(t) \in Nat
  <1>1. CASE Unseen(t) = {}
    BY <1>1 DEF ScannedTo, Typed
  <1>2. CASE Unseen(t) # {}
    <2>1. Len(queue) \in DOMAIN queue /\ queue \in Seq(Message)
      BY <1>2 DEF Unseen, Typed
    <2>2. queue[Len(queue)] \in Message
      BY <2>1
    <2> QED
      BY <1>2, <2>2 DEF ScannedTo, Message
  <1> QED
    BY <1>1, <1>2

(* Every step keeps the types. *)
LEMMA SendTyped ==
  ASSUME Typed, NEW t \in Threads, SendStep(t)
  PROVE  Typed'
  <1>1. CASE SendNow(t)
    <2>1. AppendMessage(t) /\ req[t].call = "send"
      BY <1>1 DEF SendNow, Enter
    <2> QED
      BY <1>1, <2>1, AppendTyped
      DEF SendNow, Enter, UnlockThread, AppendMessage, Typed
  <1>2. CASE SendWait(t)
    BY <1>2 DEF SendWait, Enter, UnlockThread, Typed, PCs, WaitPC
  <1>3. CASE SendInterrupted(t)
    BY <1>3, ReleaseTyped DEF SendInterrupted, Typed, Outcomes
  <1>4. CASE SendTimeout(t)
    BY <1>4, ReleaseTyped DEF SendTimeout, Typed, Outcomes, shared
  <1>5. CASE SendDestroyed(t)
    BY <1>5, ReleaseTyped DEF SendDestroyed, Typed, Outcomes, shared
  <1>6. CASE SendWaitAgain(t)
    BY <1>6 DEF SendWaitAgain, Typed, shared, PCs, WaitPC
  <1>7. CASE SendDrained(t)
    <2>1. AppendMessage(t) /\ req[t].call = "send"
      BY <1>7 DEF SendDrained, Writers
    <2>2. /\ UNCHANGED <<waiting, waiting_var, initialized, destroyed,
                         inTable, freed, lthread, seen, sig, got>>
          /\ wait_for_drain' = wait_for_drain - 1
      BY <1>7 DEF SendDrained, AppendMessage
    <2> QED
      BY <2>1, <2>2, AppendTyped DEF Typed
  <1> QED
    BY <1>1, <1>2, <1>3, <1>4, <1>5, <1>6, <1>7 DEF SendStep

LEMMA LeaveGetTyped ==
  ASSUME Typed, NEW t \in Threads, NEW o \in Outcomes, LeaveGet(t, o)
  PROVE  Typed'
  BY ReleaseTyped DEF LeaveGet, StopWaiting, IsVar, Typed

LEMMA GetTyped ==
  ASSUME Typed, NEW t \in Threads, GetStep(t)
  PROVE  Typed'
  <1>0. {"intr", "fail", "existence"} \subseteq Outcomes
    BY DEF Outcomes
  <1>1. CASE GetNow(t)
    <2>1. TakeFirst(t)
      BY <1>1 DEF GetNow
    <2> QED
      BY <1>1, <2>1, TakeTyped
      DEF GetNow, Enter, UnlockThread, TakeFirst, Typed
  <1>2. CASE GetWait(t)
    BY <1>2, ScannedToTyped
    DEF GetWait, Enter, UnlockThread, IsVar, Typed, PCs, WaitPC
  <1>3. CASE GetInterrupted(t) \/ GetTimeout(t) \/ GetDestroyed(t)
    BY <1>0, <1>3, LeaveGetTyped DEF GetInterrupted, GetTimeout, GetDestroyed
  <1>4. CASE GetTake(t)
    <2>1. TakeFirst(t)
      BY <1>4 DEF GetTake
    <2>2. UNCHANGED <<sequence_next, wait_for_drain, initialized, destroyed,
                      inTable, freed, lthread, seen, sig>>
      BY <1>4 DEF GetTake, TakeFirst
    <2>3. waiting' \in Int /\ waiting_var' \in Int
      BY <1>4 DEF GetTake, StopWaiting, IsVar, Typed
    <2> QED
      BY <2>1, <2>2, <2>3, TakeTyped DEF Typed
  <1>5. CASE GetWaitAgain(t)
    BY <1>5, ScannedToTyped DEF GetWaitAgain, Typed, shared, PCs, WaitPC
  <1> QED
    BY <1>1, <1>2, <1>3, <1>4, <1>5 DEF GetStep

LEMMA OtherTyped ==
  ASSUME Typed, NEW t \in Threads, OtherStep(t)
  PROVE  Typed'
  <1>0. {"ok", "fail", "permission"} \subseteq Outcomes
    BY DEF Outcomes
  <1>1. CASE Peek(t)
    <2>1. req[t].pat \in Patterns /\ queue \in Seq(Message)
      BY <1>1, RequestFields DEF Peek, Enter, Typed
    <2>2. PICK o \in {"ok", "fail"} : Release(t, o, {})
      BY <1>1 DEF Peek
    <2>3. \A i \in DOMAIN queue : queue[i].msg \in Msgs
      <3>1. \A i \in DOMAIN queue : queue[i] \in Message
        BY <2>1
      <3> QED
        BY <3>1 DEF Message
    <2>4. got' \in [Threads -> Msgs \cup {NoMsg}]
      BY <1>1, <2>3 DEF Peek, Typed
    <2> QED
      BY <1>0, <1>1, <2>2, <2>4, ReleaseTyped
      DEF Peek, Enter, UnlockThread, Typed, shared
  <1>2. CASE PropertyFind(t)
    BY <1>0, <1>2, ReleaseTyped
    DEF PropertyFind, Enter, UnlockThread, Typed, shared
  <1>3. CASE PropertyRead(t)
    BY <1>3 DEF PropertyRead, Typed, shared, PCs
  <1>4. CASE DestroyDenied(t)
    BY <1>0, <1>4, ReleaseTyped
    DEF DestroyDenied, Enter, UnlockThread, Typed, shared
  <1>5. CASE DestroyFind(t)
    BY <1>5 DEF DestroyFind, Enter, UnlockThread, Typed, shared, PCs
  <1>6. CASE Destroy(t)
    BY <1>0, <1>6, ReleaseTyped DEF Destroy, Typed
  <1>7. CASE Delete(t)
    <2>1. AfterRelease(outcome[t], req[t].call) \in PCs
      BY DEF AfterRelease, PCs
    <2>2. queue' = <<>> /\ <<>> \in Seq(Message)
      BY <1>7 DEF Delete
    <2> QED
      BY <1>7, <2>1, <2>2 DEF Delete, Typed
  <1> QED
    BY <1>1, <1>2, <1>3, <1>4, <1>5, <1>6, <1>7 DEF OtherStep

LEMMA TypedInvariant == Spec => []Typed
  <1>1. Init => Typed
    <2>1. <<>> \in Seq(Message)
      OBVIOUS
    <2>2. ASSUME Init
          PROVE  /\ pc \in [Threads -> PCs] /\ outcome \in [Threads -> Outcomes]
                 /\ sig \in [Threads -> BOOLEAN]
      BY <2>2 DEF Init, PCs, Outcomes
    <2>3. ASSUME Init
          PROVE  /\ req \in [Threads -> Request \cup {NoReq}]
                 /\ got \in [Threads -> Msgs \cup {NoMsg}]
                 /\ seen \in [Threads -> Nat]
      BY <2>3 DEF Init
    <2>4. ASSUME Init
          PROVE  /\ initialized \in BOOLEAN /\ destroyed \in BOOLEAN
                 /\ inTable \in BOOLEAN /\ freed \in BOOLEAN
      BY <2>4 DEF Init
    <2>5. ASSUME Init
          PROVE  /\ queue \in Seq(Message) /\ sequence_next \in Nat
                 /\ waiting \in Int /\ waiting_var \in Int
                 /\ wait_for_drain \in Int
                 /\ lthread \in Threads \cup {NoThread}
      BY <2>1, <2>5 DEF Init
    <2> QED
      BY <2>2, <2>3, <2>4, <2>5 DEF Typed
  <1>2. Typed /\ [Next]_vars => Typed'
    <2> SUFFICES ASSUME Typed, [Next]_vars PROVE Typed'
      OBVIOUS
    <2>0. \A t \in Threads, r \in Request : EntryPC(t, r) \in PCs
      BY DEF EntryPC, PCs
    <2>1. ASSUME NEW t \in Threads, NEW r \in Request, Begin(t, r)
          PROVE  Typed'
      BY <2>0, <2>1 DEF Begin, Typed, shared, Outcomes
    <2>2. ASSUME NEW t \in Threads, Lookup(t) PROVE Typed'
      BY <2>2 DEF Lookup, Typed, shared, PCs, Outcomes
    <2>3. ASSUME NEW t \in Threads, EnterDestroyed(t) PROVE Typed'
      BY <2>3 DEF EnterDestroyed, UnlockThread, Typed, shared, PCs, Outcomes
    <2>4. ASSUME NEW t \in Threads, HandleAndRetry(t) PROVE Typed'
      <3>1. EntryPC(t, req[t]) \in PCs
        BY DEF EntryPC, PCs
      <3> QED
        BY <2>4, <3>1 DEF HandleAndRetry, Typed, shared, Outcomes
    <2>5. ASSUME NEW t \in Threads, HandleAndFail(t) PROVE Typed'
      BY <2>5 DEF HandleAndFail, Typed, shared, PCs, Outcomes
    <2>6. ASSUME NEW t \in Threads, Step(t) PROVE Typed'
      BY <2>2, <2>3, <2>4, <2>5, <2>6, SendTyped, GetTyped, OtherTyped DEF Step
    <2>7. ASSUME NEW t \in Threads, Tick(t) \/ Expire(t) \/ RaiseSignal(t)
          PROVE  Typed'
      BY <2>7 DEF Tick, Expire, RaiseSignal, Typed, shared, PCs, WaitPC
    <2>8. CASE Collect
      <3>1. queue' \in Seq(Message)
        BY <2>8 DEF Collect, Typed
      <3> QED
        BY <2>8, <3>1 DEF Collect, Typed
    <2>9. CASE ExitStart \/ ExitStep
      <3>1. CASE ExitStart
        BY <3>1, KindAssumption DEF ExitStart, Typed, shared, PCs
      <3>2. CASE ExitBroadcast
        BY <3>2 DEF ExitBroadcast, Goto, Typed, PCs, WaitPC
      <3>3. CASE ExitDestroy
        <4>1. queue' = <<>> /\ <<>> \in Seq(Message)
          BY <3>3 DEF ExitDestroy
        <4> QED
          BY <3>3, <4>1 DEF ExitDestroy, Typed, PCs
      <3>4. CASE ExitFree
        BY <3>4 DEF ExitFree, Typed, PCs
      <3> QED
        BY <2>9, <3>1, <3>2, <3>3, <3>4 DEF ExitStep
    <2>10. CASE UNCHANGED vars
      BY <2>10 DEF vars, shared, Typed
    <2> QED
      BY <2>1, <2>6, <2>7, <2>8, <2>9, <2>10 DEF Next
  <1> QED
    BY <1>1, <1>2, PTL DEF Spec

-----------------------------------------------------------------------------
(* The counters and the threads they count. *)

(* A set that gains or loses the element t. *)
LEMMA CardinalityChange ==
  ASSUME NEW S, NEW T, NEW t, IsFiniteSet(S), S \ {t} = T \ {t}
  PROVE  /\ IsFiniteSet(T) /\ Cardinality(S) \in Nat /\ Cardinality(T) \in Nat
         /\ (t \in S <=> t \in T) => Cardinality(T) = Cardinality(S)
         /\ t \in S /\ t \notin T => Cardinality(T) = Cardinality(S) - 1
         /\ t \notin S /\ t \in T => Cardinality(T) = Cardinality(S) + 1
  <1>1. CASE t \in S <=> t \in T
    <2>1. S = T
      BY <1>1
    <2> QED
      BY <1>1, <2>1, FS_CardinalityType
  <1>2. CASE t \in S /\ t \notin T
    <2>1. T = S \ {t}
      BY <1>2
    <2> QED
      BY <1>2, <2>1, FS_RemoveElement, FS_CardinalityType
  <1>3. CASE t \notin S /\ t \in T
    <2>1. T = S \cup {t}
      BY <1>3
    <2> QED
      BY <1>3, <2>1, FS_AddElement, FS_CardinalityType
  <1> QED
    BY <1>1, <1>2, <1>3

(* No other thread starts or stops waiting. *)
SameOthers(t) ==
  \A u \in Threads \ {t} :
    req'[u] = req[u] /\ (pc'[u] \in WaitPC <=> pc[u] \in WaitPC)

LEMMA FiniteWaiters ==
  /\ IsFiniteSet(Readers) /\ IsFiniteSet(VarReaders) /\ IsFiniteSet(Writers)
  <1>1. Readers \subseteq Threads /\ VarReaders \subseteq Threads
        /\ Writers \subseteq Threads
    BY DEF Readers, VarReaders, Writers
  <1> QED
    BY <1>1, FS_Subset, DataAssumption

LEMMA WaitersChange ==
  ASSUME NEW t \in Threads, SameOthers(t)
  PROVE  /\ Readers \ {t} = Readers' \ {t}
         /\ VarReaders \ {t} = VarReaders' \ {t}
         /\ Writers \ {t} = Writers' \ {t}
  BY DEF SameOthers, Readers, VarReaders, Writers

(* Thread t stops waiting, or was not waiting and does not start. *)
LEMMA LeaveCounts ==
  ASSUME NEW t \in Threads, SameOthers(t), pc'[t] \notin WaitPC
  PROVE  /\ t \in Readers =>
              /\ Cardinality(Readers') = Cardinality(Readers) - 1
              /\ Cardinality(VarReaders') = Cardinality(VarReaders) - IsVar(t)
              /\ Cardinality(Writers') = Cardinality(Writers)
         /\ t \in Writers =>
              /\ Cardinality(Readers') = Cardinality(Readers)
              /\ Cardinality(VarReaders') = Cardinality(VarReaders)
              /\ Cardinality(Writers') = Cardinality(Writers) - 1
         /\ t \notin Readers \cup Writers =>
              /\ Cardinality(Readers') = Cardinality(Readers)
              /\ Cardinality(VarReaders') = Cardinality(VarReaders)
              /\ Cardinality(Writers') = Cardinality(Writers)
  <1>1. t \notin Readers' /\ t \notin VarReaders' /\ t \notin Writers'
    BY DEF Readers, VarReaders, Writers
  <1>2. /\ t \in VarReaders <=> t \in Readers /\ IsVar(t) = 1
        /\ IsVar(t) \in {0, 1}
        /\ ~(t \in Readers /\ t \in Writers)
    BY DEF Readers, VarReaders, Writers, IsVar
  <1> QED
    BY <1>1, <1>2, FiniteWaiters, WaitersChange, CardinalityChange

(* Thread t starts waiting. *)
LEMMA JoinCounts ==
  ASSUME NEW t \in Threads, SameOthers(t),
         pc[t] \notin WaitPC, pc'[t] \in WaitPC, req'[t] = req[t]
  PROVE  /\ req[t].call = "get" =>
              /\ Cardinality(Readers') = Cardinality(Readers) + 1
              /\ Cardinality(VarReaders') = Cardinality(VarReaders) + IsVar(t)
              /\ Cardinality(Writers') = Cardinality(Writers)
         /\ req[t].call = "send" =>
              /\ Cardinality(Readers') = Cardinality(Readers)
              /\ Cardinality(VarReaders') = Cardinality(VarReaders)
              /\ Cardinality(Writers') = Cardinality(Writers) + 1
  <1>1. t \notin Readers /\ t \notin VarReaders /\ t \notin Writers
    BY DEF Readers, VarReaders, Writers
  <1>2. /\ t \in Readers' <=> req[t].call = "get"
        /\ t \in VarReaders' <=> req[t].call = "get" /\ IsVar(t) = 1
        /\ t \in Writers' <=> req[t].call = "send"
        /\ IsVar(t) \in {0, 1}
    BY DEF Readers, VarReaders, Writers, IsVar
  <1> QED
    BY <1>1, <1>2, FiniteWaiters, WaitersChange, CardinalityChange

(* Thread t waits on, or was not and is not waiting. *)
LEMMA StayCounts ==
  ASSUME NEW t \in Threads, SameOthers(t),
         \/ pc[t] \in WaitPC /\ pc'[t] \in WaitPC /\ req'[t] = req[t]
         \/ pc[t] \notin WaitPC /\ pc'[t] \notin WaitPC
  PROVE  /\ Readers' = Readers
         /\ VarReaders' = VarReaders
         /\ Writers' = Writers
  BY DEF SameOthers, Readers, VarReaders, Writers

LEMMA CondSignalSubset ==
  ASSUME NEW blocked, NEW woken \in CondSignal(blocked)
  PROVE  woken \subseteq blocked
  BY DEF CondSignal

(* release_message_queue() and the wakeups before it. *)
LEMMA ReleaseOthers ==
  ASSUME Typed, NEW t \in Threads, NEW o, NEW woken,
         woken \subseteq BlockedReaders \cup BlockedWriters,
         Release(t, o, woken)
  PROVE  SameOthers(t) /\ pc'[t] \notin WaitPC
  <1>1. pc'[t] \notin WaitPC
    BY DEF Release, Goto, AfterRelease, WaitPC, Typed
  <1>2. ASSUME NEW u \in Threads \ {t}
        PROVE  req'[u] = req[u] /\ (pc'[u] \in WaitPC <=> pc[u] \in WaitPC)
    <2>1. req'[u] = req[u]
      BY <1>2 DEF Release, Typed
    <2>2. pc'[u] = IF u \in woken THEN "woken" ELSE pc[u]
      BY <1>2 DEF Release, Goto
    <2>3. u \in woken => pc[u] = "wait"
      BY DEF BlockedReaders, BlockedWriters
    <2> QED
      BY <2>1, <2>2, <2>3 DEF WaitPC
  <1> QED
    BY <1>1, <1>2 DEF SameOthers

LEMMA AppendOthers ==
  ASSUME Typed, NEW t \in Threads, AppendMessage(t)
  PROVE  SameOthers(t) /\ pc'[t] \notin WaitPC
  <1>1. PICK woken \in WakeReaders : Release(t, "ok", woken)
    BY DEF AppendMessage
  <1>2. woken \subseteq BlockedReaders
    BY <1>1, CondSignalSubset DEF WakeReaders
  <1> QED
    BY <1>1, <1>2, ReleaseOthers

LEMMA TakeOthers ==
  ASSUME Typed, NEW t \in Threads, TakeFirst(t)
  PROVE  SameOthers(t) /\ pc'[t] \notin WaitPC
  <1>1. PICK woken \in WakeWriters : Release(t, "ok", woken)
    BY DEF TakeFirst
  <1>2. woken \subseteq BlockedWriters
    BY <1>1, CondSignalSubset DEF WakeWriters
  <1> QED
    BY <1>1, <1>2, ReleaseOthers

(* The counters; wait_for_drain may exceed the number of writers that wait. *)
Counted ==
  /\ waiting = Cardinality(Readers)
  /\ waiting_var = Cardinality(VarReaders)
  /\ wait_for_drain >= Cardinality(Writers)
(* Steps that neither start nor end a wait, and leave the counters alone. *)
LEMMA StayCounted ==
  ASSUME Counted, NEW t \in Threads, SameOthers(t),
         UNCHANGED <<waiting, waiting_var, wait_for_drain>>,
         \/ pc[t] \in WaitPC /\ pc'[t] \in WaitPC /\ req'[t] = req[t]
         \/ pc[t] \notin WaitPC /\ pc'[t] \notin WaitPC
  PROVE  Counted'
  BY StayCounts DEF Counted

LEMMA SendCounted ==
  ASSUME Typed, Counted, NEW t \in Threads, SendStep(t)
  PROVE  Counted'
  <1>0. Cardinality(Writers) \in Nat /\ wait_for_drain \in Int
    BY FiniteWaiters, FS_CardinalityType DEF Typed
  <1>1. CASE SendNow(t)
    <2>1. AppendMessage(t) /\ pc[t] = "lockq"
      BY <1>1 DEF SendNow, Enter
    <2>2. UNCHANGED <<waiting, waiting_var, wait_for_drain>>
      BY <1>1 DEF SendNow, AppendMessage
    <2> QED
      BY <2>1, <2>2, AppendOthers, StayCounted DEF WaitPC
  <1>2. CASE SendWait(t)
    <2>1. /\ SameOthers(t) /\ req'[t] = req[t] /\ req[t].call = "send"
          /\ pc[t] \notin WaitPC /\ pc'[t] \in WaitPC
      BY <1>2 DEF SendWait, Enter, SameOthers, WaitPC, Typed
    <2> QED
      BY <1>0, <1>2, <2>1, JoinCounts DEF SendWait, Counted
  <1>3. CASE SendInterrupted(t)
    <2>1. SameOthers(t) /\ pc'[t] \notin WaitPC
      BY <1>3, ReleaseOthers DEF SendInterrupted
    <2> QED
      BY <1>0, <1>3, <2>1, LeaveCounts DEF SendInterrupted, Counted
  <1>4. CASE SendTimeout(t) \/ SendDestroyed(t)
    <2>1. SameOthers(t) /\ pc'[t] \notin WaitPC
      BY <1>4, ReleaseOthers DEF SendTimeout, SendDestroyed
    <2>2. t \in Writers /\ UNCHANGED <<waiting, waiting_var, wait_for_drain>>
      BY <1>4 DEF SendTimeout, SendDestroyed, shared
    <2> QED
      BY <1>0, <2>1, <2>2, LeaveCounts DEF Counted
  <1>5. CASE SendWaitAgain(t)
    <2>1. /\ SameOthers(t) /\ req'[t] = req[t]
          /\ pc[t] \in WaitPC /\ pc'[t] \in WaitPC
      BY <1>5 DEF SendWaitAgain, Writers, SameOthers, WaitPC, Typed
    <2> QED
      BY <1>5, <2>1, StayCounted DEF SendWaitAgain, shared
  <1>6. CASE SendDrained(t)
    <2>1. AppendMessage(t) /\ t \in Writers
      BY <1>6 DEF SendDrained
    <2>2. /\ UNCHANGED <<waiting, waiting_var>>
          /\ wait_for_drain' = wait_for_drain - 1
      BY <1>6 DEF SendDrained, AppendMessage
    <2> QED
      BY <1>0, <2>1, <2>2, AppendOthers, LeaveCounts DEF Counted
  <1> QED
    BY <1>1, <1>2, <1>3, <1>4, <1>5, <1>6 DEF SendStep

LEMMA GetCounted ==
  ASSUME Typed, Counted, NEW t \in Threads, GetStep(t)
  PROVE  Counted'
  <1>1. CASE GetNow(t)
    <2>1. TakeFirst(t) /\ pc[t] = "lockq"
      BY <1>1 DEF GetNow, Enter
    <2>2. UNCHANGED <<waiting, waiting_var, wait_for_drain>>
      BY <1>1 DEF GetNow, TakeFirst
    <2> QED
      BY <2>1, <2>2, TakeOthers, StayCounted DEF WaitPC
  <1>2. CASE GetWait(t)
    <2>1. /\ SameOthers(t) /\ req'[t] = req[t] /\ req[t].call = "get"
          /\ pc[t] \notin WaitPC /\ pc'[t] \in WaitPC
      BY <1>2 DEF GetWait, Enter, SameOthers, WaitPC, Typed
    <2> QED
      BY <1>2, <2>1, JoinCounts DEF GetWait, Counted
  <1>3. ASSUME NEW o, t \in Readers, LeaveGet(t, o) PROVE Counted'
    <2>1. SameOthers(t) /\ pc'[t] \notin WaitPC
      BY <1>3, ReleaseOthers DEF LeaveGet
    <2> QED
      BY <1>3, <2>1, LeaveCounts DEF LeaveGet, StopWaiting, Counted
  <1>4. CASE GetInterrupted(t) \/ GetTimeout(t) \/ GetDestroyed(t)
    BY <1>3, <1>4 DEF GetInterrupted, GetTimeout, GetDestroyed
  <1>5. CASE GetTake(t)
    <2>1. TakeFirst(t) /\ t \in Readers /\ UNCHANGED wait_for_drain
      BY <1>5 DEF GetTake, TakeFirst
    <2>2. SameOthers(t) /\ pc'[t] \notin WaitPC
      BY <2>1, TakeOthers
    <2> QED
      BY <1>5, <2>1, <2>2, LeaveCounts DEF GetTake, StopWaiting, Counted
  <1>6. CASE GetWaitAgain(t)
    <2>1. /\ SameOthers(t) /\ req'[t] = req[t]
          /\ pc[t] \in WaitPC /\ pc'[t] \in WaitPC
      BY <1>6 DEF GetWaitAgain, Readers, SameOthers, WaitPC, Typed
    <2> QED
      BY <1>6, <2>1, StayCounted DEF GetWaitAgain, shared
  <1> QED
    BY <1>1, <1>2, <1>4, <1>5, <1>6 DEF GetStep

LEMMA OtherCounted ==
  ASSUME Typed, Counted, NEW t \in Threads, OtherStep(t)
  PROVE  Counted'
  <1>1. CASE Peek(t) \/ PropertyFind(t) \/ DestroyDenied(t)
    <2>1. \E o \in Outcomes : Release(t, o, {})
      BY <1>1 DEF Peek, PropertyFind, DestroyDenied, Outcomes
    <2>2. /\ pc[t] = "lockq"
          /\ UNCHANGED <<waiting, waiting_var, wait_for_drain>>
      BY <1>1 DEF Peek, PropertyFind, DestroyDenied, Enter, shared
    <2> QED
      BY <2>1, <2>2, ReleaseOthers, StayCounted DEF WaitPC
  <1>2. CASE PropertyRead(t)
    <2>1. /\ SameOthers(t) /\ pc[t] \notin WaitPC /\ pc'[t] \notin WaitPC
      BY <1>2 DEF PropertyRead, SameOthers, WaitPC, Typed
    <2> QED
      BY <1>2, <2>1, StayCounted DEF PropertyRead, shared
  <1>3. CASE DestroyFind(t)
    <2>1. /\ SameOthers(t) /\ pc[t] \notin WaitPC /\ pc'[t] \notin WaitPC
      BY <1>3 DEF DestroyFind, Enter, SameOthers, WaitPC, Typed
    <2> QED
      BY <1>3, <2>1, StayCounted DEF DestroyFind, shared
  <1>4. CASE Destroy(t)
    <2>1. \E woken : woken \subseteq BlockedReaders \cup BlockedWriters
                     /\ Release(t, "ok", woken)
      BY <1>4 DEF Destroy
    <2>2. SameOthers(t) /\ pc[t] \notin WaitPC /\ pc'[t] \notin WaitPC
      BY <1>4, <2>1, ReleaseOthers DEF Destroy, WaitPC
    <2> QED
      BY <1>4, <2>2, StayCounted DEF Destroy
  <1>5. CASE Delete(t)
    <2>1. /\ SameOthers(t) /\ pc[t] \notin WaitPC /\ pc'[t] \notin WaitPC
      BY <1>5 DEF Delete, AfterRelease, SameOthers, WaitPC, Typed
    <2> QED
      BY <1>5, <2>1, StayCounted DEF Delete
  <1> QED
    BY <1>1, <1>2, <1>3, <1>4, <1>5 DEF OtherStep

LEMMA CountedInvariant == Spec => []Counted
  <1>1. Init => Counted
    <2> SUFFICES ASSUME Init PROVE Counted
      OBVIOUS
    <2>1. Readers = {} /\ VarReaders = {} /\ Writers = {}
      BY DEF Init, Readers, VarReaders, Writers, WaitPC, NoReq
    <2> QED
      BY <2>1, FS_EmptySet DEF Init, Counted
  <1>2. Typed /\ Counted /\ [Next]_vars => Counted'
    <2> SUFFICES ASSUME Typed, Counted, [Next]_vars PROVE Counted'
      OBVIOUS
    <2>1. ASSUME NEW t \in Threads, NEW r \in Request, Begin(t, r)
          PROVE  Counted'
      <3>1. SameOthers(t) /\ pc[t] \notin WaitPC /\ pc'[t] \notin WaitPC
        BY <2>1 DEF Begin, EntryPC, SameOthers, WaitPC, Typed
      <3> QED
        BY <2>1, <3>1, StayCounted DEF Begin, shared
    <2>2. ASSUME NEW t \in Threads,
                 \/ Lookup(t) \/ EnterDestroyed(t)
                 \/ HandleAndRetry(t) \/ HandleAndFail(t)
          PROVE  Counted'
      <3>1. SameOthers(t) /\ pc[t] \notin WaitPC /\ pc'[t] \notin WaitPC
        BY <2>2 DEF Lookup, EnterDestroyed, HandleAndRetry, HandleAndFail,
                    EntryPC, SameOthers, WaitPC, Typed
      <3> QED
        BY <2>2, <3>1, StayCounted
        DEF Lookup, EnterDestroyed, HandleAndRetry, HandleAndFail, shared
    <2>3. ASSUME NEW t \in Threads, Step(t) PROVE Counted'
      BY <2>2, <2>3, SendCounted, GetCounted, OtherCounted DEF Step
    <2>4. ASSUME NEW t \in Threads, Tick(t) \/ Expire(t) \/ RaiseSignal(t)
          PROVE  Counted'
      <3>1. /\ SameOthers(t)
            /\ \/ pc[t] \in WaitPC /\ pc'[t] \in WaitPC /\ req'[t] = req[t]
               \/ pc[t] \notin WaitPC /\ pc'[t] \notin WaitPC
        BY <2>4 DEF Tick, Expire, RaiseSignal, BlockedReaders, BlockedWriters,
                    SameOthers, WaitPC, Typed
      <3> QED
        BY <2>4, <3>1, StayCounted DEF Tick, Expire, RaiseSignal, shared
    <2>5. CASE Collect
      BY <2>5 DEF Collect, Counted, Readers, VarReaders, Writers
    <2>6. CASE ExitStart \/ ExitStep
      <3>1. SameOthers(Owner) /\ pc[Owner] \notin WaitPC
            /\ pc'[Owner] \notin WaitPC
        BY <2>6, KindAssumption
        DEF ExitStart, ExitStep, ExitBroadcast, ExitDestroy, ExitFree, Goto,
            BlockedReaders, BlockedWriters, SameOthers, WaitPC, Typed
      <3> QED
        BY <2>6, <3>1, StayCounted, KindAssumption
        DEF ExitStart, ExitStep, ExitBroadcast, ExitDestroy, ExitFree, shared
    <2>7. CASE UNCHANGED vars
      BY <2>7 DEF vars, shared, Counted, Readers, VarReaders, Writers
    <2> QED
      BY <2>1, <2>3, <2>4, <2>5, <2>6, <2>7 DEF Next
  <1> QED
    BY <1>1, <1>2, TypedInvariant, PTL DEF Spec

(* The counters of waiting readers are exact in every reachable state.     *)
THEOREM CountedReaders == Spec => []WaitersCounted
  <1>1. Counted => WaitersCounted
    BY DEF Counted, WaitersCounted
  <1> QED
    BY <1>1, CountedInvariant, PTL

(* Type correctness.  The counters are never negative because they count.  *)
THEOREM TypeCorrect == Spec => []TypeOK
  <1>1. Typed /\ Counted => TypeOK
    BY FiniteWaiters, FS_CardinalityType DEF Typed, Counted, TypeOK
  <1> QED
    BY <1>1, TypedInvariant, CountedInvariant, PTL

-----------------------------------------------------------------------------
(* Who deletes the queue.                                                  *)

(* The queue was destroyed and the last of those who waited has left: no   *)
(* call gets into it any more.                                             *)
Over == destroyed /\ \A u \in Threads : pc[u] \notin WaitPC

(* Before that, at most one thread is between the two halves of            *)
(* message_queue_destroy/1; from then on at most one deletes the queue,    *)
(* which is why it still finds it initialized.                             *)
Deletion ==
  /\ \A t \in Threads : pc[t] \in WaitPC => req[t].call \in {"get", "send"}
  /\ \A t \in Threads : pc[t] = "destroy" =>
       /\ ~destroyed /\ Kind # "thread"
       /\ \A u \in Threads : pc[u] = "destroy" => u = t
  /\ pc[Owner] \in {"exit", "reap"} => Kind = "thread"
  /\ \A t \in Threads : pc[t] = "del" =>
       /\ initialized /\ Over /\ Kind # "thread"
       /\ \A u \in Threads : pc[u] = "del" => u = t
  /\ Kind = "anon" /\ freed => \A t \in Threads : pc[t] = "idle"
  /\ initialized \/ Kind = "thread" \/ Over \/ (Kind = "anon" /\ freed)

(* Thread t gives the queue back: it deletes it only as the last user.     *)
LEMMA ReleaseDeletion ==
  ASSUME Typed, Deletion, Counted', NEW t \in Threads, NEW o, NEW woken,
         Release(t, o, woken), woken \subseteq BlockedReaders \cup BlockedWriters,
         pc[t] \in WaitPC \cup {"lockq", "destroy"}, ~Over,
         \A u \in Threads \ {t} : pc[u] # "destroy",
         destroyed => destroyed', UNCHANGED <<initialized, freed>>,
         wait_for_drain' \in Int
  PROVE  Deletion'
  <1>1. SameOthers(t) /\ pc'[t] \notin WaitPC
    BY ReleaseOthers
  <1>2. /\ pc'[t] \in {"del", "handle", "prop", "idle"}
        /\ pc'[t] = "del" =>
             destroyed' /\ waiting' = 0 /\ wait_for_drain' = 0 /\ Kind # "thread"
    BY DEF Release, Goto, AfterRelease, LastUser
  <1>3. \A u \in Threads \ {t} : pc'[u] = pc[u] \/ pc'[u] = "woken"
    BY DEF Release, Goto
  <1>4. \A u \in Threads : pc[u] # "del"
    BY DEF Deletion
  <1>5. initialized \/ Kind = "thread"
    BY DEF Deletion, WaitPC
  <1>6. ~(Kind = "anon" /\ freed)
    BY DEF Deletion, WaitPC
  <1>7. \A u \in Threads : pc'[u] # "destroy"
    BY <1>2, <1>3 DEF WaitPC
  <1>8. \A u \in Threads :
          pc'[u] \in WaitPC => req'[u].call \in {"get", "send"}
    BY <1>1 DEF SameOthers, Deletion
  <1>9. pc'[Owner] \in {"exit", "reap"} => Kind = "thread"
    BY <1>2, <1>3, KindAssumption DEF Deletion
  <1>10. ASSUME NEW u \in Threads, pc'[u] = "del"
         PROVE  /\ u = t /\ initialized' /\ destroyed' /\ Kind # "thread"
                /\ \A v \in Threads : pc'[v] \notin WaitPC
    <2>1. u = t
      BY <1>3, <1>4, <1>10 DEF WaitPC
    <2>2. destroyed' /\ waiting' = 0 /\ wait_for_drain' = 0 /\ Kind # "thread"
      BY <1>2, <1>10, <2>1
    <2>3. IsFiniteSet(Readers') /\ IsFiniteSet(Writers')
      <3>1. Readers' \subseteq Threads /\ Writers' \subseteq Threads
        BY DEF Readers, Writers
      <3> QED
        BY <3>1, FS_Subset, DataAssumption
    <2>4. Cardinality(Readers') = 0 /\ Cardinality(Writers') = 0
      BY <2>2, <2>3, FS_CardinalityType DEF Counted
    <2>5. Readers' = {} /\ Writers' = {}
      BY <2>3, <2>4, FS_EmptySet
    <2>6. \A v \in Threads : pc'[v] \notin WaitPC
      BY <1>8, <2>5 DEF Readers, Writers
    <2> QED
      BY <1>5, <2>1, <2>2, <2>6
  <1> QED
    BY <1>5, <1>6, <1>7, <1>8, <1>9, <1>10 DEF Deletion, Over

(* A step of t that neither enters nor leaves the critical sections that   *)
(* Deletion is about.                                                      *)
LEMMA QuietDeletion ==
  ASSUME Typed, Deletion, NEW t \in Threads, SameOthers(t),
         \A u \in Threads \ {t} : pc'[u] = pc[u],
         UNCHANGED <<destroyed, initialized, freed>>,
         pc'[t] \notin {"destroy", "del"},
         pc'[t] \in WaitPC =>
           req'[t].call \in {"get", "send"} /\ (pc[t] \in WaitPC \/ ~destroyed),
         pc'[t] \in {"exit", "reap"} => t # Owner \/ Kind = "thread",
         pc[t] # "idle" \/ ~freed \/ Kind # "anon"
  PROVE  Deletion'
  <1>1. ~(Kind = "anon" /\ freed)
    BY DEF Deletion
  <1>2. Over => Over'
    BY DEF Over
  <1>3. \A u \in Threads : pc'[u] = "del" =>
          /\ u # t /\ initialized' /\ Over' /\ Kind # "thread"
          /\ \A v \in Threads : pc'[v] = "del" => v = u
    BY <1>2 DEF Deletion
  <1>4. \A u \in Threads : pc'[u] = "destroy" =>
          /\ ~destroyed' /\ Kind # "thread"
          /\ \A v \in Threads : pc'[v] = "destroy" => v = u
    BY DEF Deletion
  <1>5. \A u \in Threads :
          pc'[u] \in WaitPC => req'[u].call \in {"get", "send"}
    BY DEF SameOthers, Deletion
  <1>6. pc'[Owner] \in {"exit", "reap"} => Kind = "thread"
    BY KindAssumption DEF Deletion
  <1>7. initialized' \/ Kind = "thread" \/ Over'
    BY <1>1, <1>2 DEF Deletion
  <1> QED
    BY <1>1, <1>3, <1>4, <1>5, <1>6, <1>7 DEF Deletion

LEMMA SendDeletion ==
  ASSUME Typed, Deletion, Typed', Counted', NEW t \in Threads, SendStep(t)
  PROVE  Deletion'
  <1>0. wait_for_drain' \in Int
    BY DEF Typed
  <1>1. CASE SendNow(t) \/ SendDrained(t)
    <2>1. PICK woken \in WakeReaders : Release(t, "ok", woken)
      BY <1>1 DEF SendNow, SendDrained, AppendMessage
    <2>2. woken \subseteq BlockedReaders
      BY <2>1, CondSignalSubset DEF WakeReaders
    <2>3. /\ ~destroyed /\ ~QueueLocked
          /\ pc[t] \in WaitPC \cup {"lockq"}
          /\ UNCHANGED <<destroyed, initialized, freed>>
      BY <1>1 DEF SendNow, SendDrained, Enter, WaitOver, Writers, AppendMessage
    <2> QED
      BY <1>0, <2>1, <2>2, <2>3, ReleaseDeletion DEF Over, QueueLocked
  <1>2. CASE SendInterrupted(t) \/ SendTimeout(t) \/ SendDestroyed(t)
    <2>1. PICK o : Release(t, o, {})
      BY <1>2 DEF SendInterrupted, SendTimeout, SendDestroyed
    <2>2. /\ pc[t] \in WaitPC /\ ~QueueLocked
          /\ UNCHANGED <<destroyed, initialized, freed>>
      BY <1>2 DEF SendInterrupted, SendTimeout, SendDestroyed, Interrupted,
                  TimedOut, WaitOver, Writers, shared
    <2> QED
      BY <1>0, <2>1, <2>2, ReleaseDeletion DEF Over, QueueLocked
  <1>3. CASE SendWait(t) \/ SendWaitAgain(t)
    <2>1. /\ SameOthers(t) /\ \A u \in Threads \ {t} : pc'[u] = pc[u]
          /\ UNCHANGED <<destroyed, initialized, freed>>
          /\ pc'[t] = "wait" /\ req'[t].call = "send" /\ ~destroyed
          /\ pc[t] # "idle"
      BY <1>3 DEF SendWait, SendWaitAgain, Enter, WaitOver, Writers, shared,
                  SameOthers, WaitPC, Typed
    <2> QED
      BY <2>1, QuietDeletion DEF WaitPC
  <1> QED
    BY <1>1, <1>2, <1>3 DEF SendStep

LEMMA GetDeletion ==
  ASSUME Typed, Deletion, Typed', Counted', NEW t \in Threads, GetStep(t)
  PROVE  Deletion'
  <1>0. wait_for_drain' \in Int
    BY DEF Typed
  <1>1. CASE GetNow(t) \/ GetTake(t)
    <2>1. PICK woken \in WakeWriters : Release(t, "ok", woken)
      BY <1>1 DEF GetNow, GetTake, TakeFirst
    <2>2. woken \subseteq BlockedWriters
      BY <2>1, CondSignalSubset DEF WakeWriters
    <2>3. /\ ~destroyed /\ ~QueueLocked
          /\ pc[t] \in WaitPC \cup {"lockq"}
          /\ UNCHANGED <<destroyed, initialized, freed>>
      BY <1>1 DEF GetNow, GetTake, Enter, WaitOver, Readers, TakeFirst
    <2> QED
      BY <1>0, <2>1, <2>2, <2>3, ReleaseDeletion DEF Over, QueueLocked
  <1>2. CASE GetInterrupted(t) \/ GetTimeout(t) \/ GetDestroyed(t)
    <2>1. PICK o : LeaveGet(t, o)
      BY <1>2 DEF GetInterrupted, GetTimeout, GetDestroyed
    <2>2. /\ pc[t] \in WaitPC /\ ~QueueLocked
          /\ Release(t, o, {})
          /\ UNCHANGED <<destroyed, initialized, freed>>
      BY <1>2, <2>1 DEF GetInterrupted, GetTimeout, GetDestroyed, Interrupted,
                        TimedOut, WaitOver, Readers, LeaveGet
    <2> QED
      BY <1>0, <2>2, ReleaseDeletion DEF Over, QueueLocked
  <1>3. CASE GetWait(t) \/ GetWaitAgain(t)
    <2>1. /\ SameOthers(t) /\ \A u \in Threads \ {t} : pc'[u] = pc[u]
          /\ UNCHANGED <<destroyed, initialized, freed>>
          /\ pc'[t] = "wait" /\ req'[t].call = "get" /\ ~destroyed
          /\ pc[t] # "idle"
      BY <1>3 DEF GetWait, GetWaitAgain, Enter, WaitOver, Readers, shared,
                  SameOthers, WaitPC, Typed
    <2> QED
      BY <2>1, QuietDeletion DEF WaitPC
  <1> QED
    BY <1>1, <1>2, <1>3 DEF GetStep

LEMMA OtherDeletion ==
  ASSUME Typed, Deletion, Typed', Counted', NEW t \in Threads, OtherStep(t)
  PROVE  Deletion'
  <1>0. wait_for_drain' \in Int
    BY DEF Typed
  <1>1. CASE Peek(t) \/ PropertyFind(t) \/ DestroyDenied(t)
    <2>1. PICK o : Release(t, o, {})
      BY <1>1 DEF Peek, PropertyFind, DestroyDenied
    <2>2. /\ ~destroyed /\ ~QueueLocked /\ pc[t] = "lockq"
          /\ UNCHANGED <<destroyed, initialized, freed>>
      BY <1>1 DEF Peek, PropertyFind, DestroyDenied, Enter, shared
    <2> QED
      BY <1>0, <2>1, <2>2, ReleaseDeletion DEF Over, QueueLocked
  <1>2. CASE PropertyRead(t)
    <2>1. /\ SameOthers(t) /\ \A u \in Threads \ {t} : pc'[u] = pc[u]
          /\ UNCHANGED <<destroyed, initialized, freed>>
          /\ pc[t] = "prop" /\ pc'[t] = "idle"
      BY <1>2 DEF PropertyRead, shared, SameOthers, WaitPC, Typed
    <2> QED
      BY <2>1, QuietDeletion DEF WaitPC
  <1>3. CASE DestroyFind(t)
    <2>1. /\ SameOthers(t) /\ \A u \in Threads \ {t} : pc'[u] = pc[u]
          /\ UNCHANGED <<destroyed, initialized, freed>>
          /\ pc[t] = "lockq" /\ pc'[t] = "destroy" /\ Kind # "thread"
          /\ ~destroyed /\ \A u \in Threads : pc[u] # "destroy"
      BY <1>3 DEF DestroyFind, Enter, QueueLocked, shared, SameOthers, WaitPC,
                  Typed
    <2>2. \A u \in Threads :
            pc'[u] \in WaitPC => req'[u].call \in {"get", "send"}
      BY <2>1 DEF SameOthers, Deletion, WaitPC
    <2>3. ~Over /\ \A u \in Threads : pc'[u] # "del"
      BY <2>1 DEF Over, Deletion
    <2>4. initialized /\ ~(Kind = "anon" /\ freed)
      BY <2>1, <2>3 DEF Deletion
    <2>5. \A u \in Threads : pc'[u] = "destroy" => u = t
      BY <2>1
    <2>6. pc'[Owner] \in {"exit", "reap"} => Kind = "thread"
      BY <2>1, KindAssumption DEF Deletion
    <2> QED
      BY <2>1, <2>2, <2>3, <2>4, <2>5, <2>6 DEF Deletion
  <1>4. CASE Destroy(t)
    <2>1. PICK woken : woken \subseteq BlockedReaders \cup BlockedWriters
                       /\ Release(t, "ok", woken)
      BY <1>4 DEF Destroy
    <2>2. /\ pc[t] = "destroy" /\ destroyed'
          /\ UNCHANGED <<initialized, freed>>
      BY <1>4 DEF Destroy
    <2>3. ~destroyed /\ \A u \in Threads \ {t} : pc[u] # "destroy"
      BY <2>2 DEF Deletion
    <2> QED
      BY <1>0, <2>1, <2>2, <2>3, ReleaseDeletion DEF Over
  <1>5. CASE Delete(t)
    <2>1. /\ SameOthers(t) /\ \A u \in Threads \ {t} : pc'[u] = pc[u]
          /\ UNCHANGED destroyed /\ freed' = (Kind # "anon")
          /\ pc[t] = "del" /\ pc'[t] \in {"handle", "prop", "idle"}
      BY <1>5 DEF Delete, AfterRelease, SameOthers, WaitPC, Typed
    <2>2. /\ Over /\ Kind # "thread"
          /\ \A u \in Threads : pc[u] = "del" => u = t
      BY <2>1 DEF Deletion
    <2>3. Over' /\ \A u \in Threads : pc'[u] \notin {"del", "destroy"}
      BY <2>1, <2>2 DEF Over, Deletion, WaitPC
    <2>4. \A u \in Threads : pc'[u] \notin WaitPC
      BY <2>3 DEF Over
    <2>5. pc'[Owner] \in {"exit", "reap"} => Kind = "thread"
      BY <2>1, KindAssumption DEF Deletion
    <2> QED
      BY <2>1, <2>3, <2>4, <2>5 DEF Deletion
  <1> QED
    BY <1>1, <1>2, <1>3, <1>4, <1>5 DEF OtherStep

(* The steps of a thread before and after it uses the queue.               *)
LEMMA ThreadDeletion ==
  ASSUME Typed, Deletion, NEW t \in Threads,
         \/ \E r \in Request : Begin(t, r)
         \/ Lookup(t) \/ EnterDestroyed(t)
         \/ HandleAndRetry(t) \/ HandleAndFail(t)
         \/ Tick(t) \/ Expire(t) \/ RaiseSignal(t)
  PROVE  Deletion'
  <1>1. CASE \E r \in Request : Begin(t, r)
    <2>1. /\ SameOthers(t) /\ \A u \in Threads \ {t} : pc'[u] = pc[u]
          /\ UNCHANGED <<destroyed, initialized, freed>>
          /\ pc'[t] \in {"lockq", "lookup"} /\ (Kind = "anon" => ~freed)
      BY <1>1 DEF Begin, EntryPC, shared, SameOthers, WaitPC, Typed
    <2> QED
      BY <2>1, QuietDeletion DEF WaitPC
  <1>2. CASE \/ Lookup(t) \/ EnterDestroyed(t)
             \/ HandleAndRetry(t) \/ HandleAndFail(t)
    <2>1. /\ SameOthers(t) /\ \A u \in Threads \ {t} : pc'[u] = pc[u]
          /\ UNCHANGED <<destroyed, initialized, freed>>
          /\ pc'[t] \in {"lockq", "lookup", "idle"} /\ pc[t] # "idle"
      BY <1>2 DEF Lookup, EnterDestroyed, HandleAndRetry, HandleAndFail,
                  EntryPC, shared, SameOthers, WaitPC, Typed
    <2> QED
      BY <2>1, QuietDeletion DEF WaitPC
  <1>3. CASE Tick(t) \/ Expire(t)
    <2>1. /\ SameOthers(t) /\ \A u \in Threads \ {t} : pc'[u] = pc[u]
          /\ UNCHANGED <<destroyed, initialized, freed>>
          /\ pc[t] \in WaitPC /\ pc'[t] \in {"tick", "expired"}
          /\ req'[t] = req[t] /\ pc[t] # "idle"
      BY <1>3 DEF Tick, Expire, BlockedReaders, BlockedWriters, shared,
                  SameOthers, WaitPC, Typed
    <2>2. req'[t].call \in {"get", "send"}
      BY <2>1 DEF Deletion
    <2> QED
      BY <2>1, <2>2, QuietDeletion
  <1>4. CASE RaiseSignal(t)
    <2>1. UNCHANGED <<pc, req, destroyed, initialized, freed>>
      BY <1>4 DEF RaiseSignal, shared
    <2> QED
      BY <2>1 DEF Deletion, Over
  <1> QED
    BY <1>1, <1>2, <1>3, <1>4

(* The steps that end the life of a queue that is not destroyed by name.   *)
LEMMA EndDeletion ==
  ASSUME Typed, Deletion, Collect \/ ExitStart \/ ExitStep
  PROVE  Deletion'
  <1>1. CASE Collect
    <2>1. /\ Kind = "anon" /\ freed'
          /\ \A t \in Threads : pc'[t] = "idle"
      BY <1>1 DEF Collect
    <2> QED
      BY <2>1, KindAssumption DEF Deletion, WaitPC
  <1>2. CASE ExitStart \/ ExitStep
    <2>1. Kind = "thread"
      BY <1>2 DEF ExitStart, ExitStep, ExitBroadcast, ExitDestroy, ExitFree,
                  Deletion
    <2>2. /\ SameOthers(Owner) /\ pc'[Owner] \in {"exit", "reap", "gone"}
          /\ \A u \in Threads \ {Owner} : pc'[u] = pc[u] \/ pc'[u] = "woken"
      BY <1>2, KindAssumption
      DEF ExitStart, ExitStep, ExitBroadcast, ExitDestroy, ExitFree, Goto,
          BlockedReaders, BlockedWriters, SameOthers, WaitPC, Typed
    <2>3. \A u \in Threads : pc'[u] \notin {"del", "destroy"}
      BY <2>1, <2>2 DEF Deletion
    <2>4. \A u \in Threads :
            pc'[u] \in WaitPC => req'[u].call \in {"get", "send"}
      BY <2>2 DEF SameOthers, Deletion, WaitPC
    <2> QED
      BY <2>1, <2>3, <2>4 DEF Deletion
  <1> QED
    BY <1>1, <1>2

LEMMA DeletionInvariant == Spec => []Deletion
  <1>1. Init => Deletion
    BY KindAssumption DEF Init, Deletion, WaitPC
  <1>2. Typed /\ Typed' /\ Counted' /\ Deletion /\ [Next]_vars => Deletion'
    <2> SUFFICES ASSUME Typed, Typed', Counted', Deletion, [Next]_vars
                 PROVE  Deletion'
      OBVIOUS
    <2>1. ASSUME NEW t \in Threads, Step(t) PROVE Deletion'
      BY <2>1, SendDeletion, GetDeletion, OtherDeletion, ThreadDeletion DEF Step
    <2>2. ASSUME NEW t \in Threads,
                 \/ \E r \in Request : Begin(t, r)
                 \/ Tick(t) \/ Expire(t) \/ RaiseSignal(t)
          PROVE  Deletion'
      BY <2>2, ThreadDeletion
    <2>3. CASE UNCHANGED vars
      BY <2>3 DEF vars, shared, Deletion, Over
    <2> QED
      BY <2>1, <2>2, <2>3, EndDeletion DEF Next
  <1> QED
    BY <1>1, <1>2, TypedInvariant, CountedInvariant, PTL DEF Spec

(* Of the threads that leave a destroyed queue, whatever they waited for,  *)
(* exactly one deletes it, and it is not deleted twice.                    *)
THEOREM OneDeletes == Spec => []DeletedOnce
  <1>1. Deletion => DeletedOnce
    BY DEF Deletion, Over, DeletedOnce
  <1> QED
    BY <1>1, DeletionInvariant, PTL

-----------------------------------------------------------------------------
(* Who uses the queue of a thread.                                         *)

(* message_queue_property/2 reads fields after it gave its locks back.     *)
NoInspection == \A t \in Threads : "property" \notin Calls[t]

(* A thread that has the pointer to the queue of another one holds         *)
(* L_THREAD or is counted as waiting.  The owner keeps L_THREAD while it   *)
(* waits for the counters to become 0, and by then the queue is out of the *)
(* table.                                                                  *)
ThreadUse ==
  /\ \A t \in Threads : req[t].call # "property"
  /\ \A t \in Threads : pc[t] = "lockq" => lthread = t \/ t = Owner
  /\ \A t \in Threads : pc[t] \in {"exit", "reap", "gone"} => t = Owner
  /\ \A t \in Threads : pc[t] \notin {"destroy", "del", "prop"}
  /\ pc[Owner] = "exit" => lthread = Owner
  /\ pc[Owner] \in {"reap", "gone"} =>
        ~inTable /\ \A t \in Threads : pc[t] \notin HoldsQueue
  /\ freed => pc[Owner] = "gone"

(* Thread t ends its use of the queue or waits on; L_THREAD, if it has it, *)
(* is given back, and what it wakes are threads that wait.                 *)
LEMMA LeaveUse ==
  ASSUME ThreadUse, NEW t \in Threads, SameOthers(t),
         pc[t] \in HoldsQueue \cup {"handle", "idle", "lookup"},
         pc'[t] \in WaitPC \cup {"handle", "idle", "lookup"},
         pc'[t] \in WaitPC => pc[t] \in HoldsQueue,
         \A u \in Threads \ {t} : pc'[u] = pc[u] \/ pc'[u] = "woken",
         req'[t].call # "property",
         lthread' = lthread \/ (lthread = t /\ lthread' = NoThread),
         UNCHANGED <<inTable, freed>>
  PROVE  ThreadUse'
  <1>1. \A u \in Threads : req'[u].call # "property"
    BY DEF ThreadUse, SameOthers
  <1>2. \A u \in Threads : pc'[u] = "lockq" => u # t /\ pc[u] = "lockq"
    BY DEF WaitPC
  <1>3. \A u \in Threads : pc'[u] = "lockq" => lthread' = u \/ u = Owner
    BY <1>2 DEF ThreadUse
  <1>4. \A u \in Threads :
          pc[u] \in {"exit", "reap", "gone"} \/ pc'[u] \in {"exit", "reap", "gone"}
            => pc'[u] = pc[u]
    <2>1. pc'[t] \notin {"exit", "reap", "gone"}
          /\ pc[t] \notin {"exit", "reap", "gone"}
      BY DEF HoldsQueue, WaitPC
    <2>2. ASSUME NEW u \in Threads \ {t}
          PROVE  pc[u] \in {"exit", "reap", "gone"} \/ pc'[u] \in {"exit", "reap", "gone"}
                   => pc'[u] = pc[u]
      BY DEF SameOthers, WaitPC
    <2> QED
      BY <2>1, <2>2
  <1>5. \A u \in Threads : pc'[u] \notin {"destroy", "del", "prop"}
    BY DEF ThreadUse, WaitPC
  <1>6. pc'[Owner] = "exit" => lthread' = Owner
    BY <1>4, KindAssumption DEF ThreadUse, HoldsQueue, WaitPC
  <1>7. \A u \in Threads : pc'[u] \in HoldsQueue => pc[u] \in HoldsQueue
    <2>1. pc'[t] \in HoldsQueue => pc[t] \in HoldsQueue
      BY DEF HoldsQueue
    <2>2. ASSUME NEW u \in Threads \ {t}, pc'[u] \in HoldsQueue
          PROVE  pc[u] \in HoldsQueue
      BY <2>2 DEF SameOthers, WaitPC, HoldsQueue
    <2> QED
      BY <2>1, <2>2
  <1>8. pc'[Owner] \in {"reap", "gone"} =>
          ~inTable' /\ \A u \in Threads : pc'[u] \notin HoldsQueue
    BY <1>4, <1>7, KindAssumption DEF ThreadUse
  <1>9. freed' => pc'[Owner] = "gone"
    BY <1>4, KindAssumption DEF ThreadUse
  <1> QED
    BY <1>1, <1>3, <1>4, <1>5, <1>6, <1>8, <1>9 DEF ThreadUse

LEMMA ReleaseUse ==
  ASSUME Typed, Kind = "thread", ThreadUse, NEW t \in Threads, NEW o,
         NEW woken, woken \subseteq BlockedReaders \cup BlockedWriters,
         Release(t, o, woken), pc[t] \in HoldsQueue,
         lthread' = lthread \/ (lthread = t /\ lthread' = NoThread),
         UNCHANGED <<inTable, freed>>
  PROVE  ThreadUse'
  <1>1. SameOthers(t)
    BY ReleaseOthers
  <1>2. req[t].call # "property"
    BY DEF ThreadUse
  <1>3. pc'[t] \in {"handle", "idle"}
    BY <1>2 DEF Release, Goto, AfterRelease, LastUser
  <1>4. \A u \in Threads \ {t} : pc'[u] = pc[u] \/ pc'[u] = "woken"
    BY DEF Release, Goto
  <1>5. req'[t].call # "property"
    BY <1>2 DEF Release, NoReq, Typed
  <1> QED
    BY <1>1, <1>3, <1>4, <1>5, LeaveUse DEF WaitPC

LEMMA StepUse ==
  ASSUME Typed, Kind = "thread", ThreadUse, NEW t \in Threads,
         SendStep(t) \/ GetStep(t) \/ OtherStep(t)
  PROVE  ThreadUse'
  <1>1. CASE SendNow(t) \/ SendDrained(t)
    <2>1. PICK woken \in WakeReaders : Release(t, "ok", woken)
      BY <1>1 DEF SendNow, SendDrained, AppendMessage
    <2>2. woken \subseteq BlockedReaders
      BY <2>1, CondSignalSubset DEF WakeReaders
    <2>3. /\ pc[t] \in HoldsQueue
          /\ lthread' = lthread \/ (lthread = t /\ lthread' = NoThread)
          /\ UNCHANGED <<inTable, freed>>
      BY <1>1 DEF SendNow, SendDrained, Enter, UnlockThread, Writers,
                  AppendMessage, HoldsQueue
    <2> QED
      BY <2>1, <2>2, <2>3, ReleaseUse
  <1>2. CASE GetNow(t) \/ GetTake(t)
    <2>1. PICK woken \in WakeWriters : Release(t, "ok", woken)
      BY <1>2 DEF GetNow, GetTake, TakeFirst
    <2>2. woken \subseteq BlockedWriters
      BY <2>1, CondSignalSubset DEF WakeWriters
    <2>3. /\ pc[t] \in HoldsQueue
          /\ lthread' = lthread \/ (lthread = t /\ lthread' = NoThread)
          /\ UNCHANGED <<inTable, freed>>
      BY <1>2 DEF GetNow, GetTake, Enter, UnlockThread, Readers, TakeFirst,
                  HoldsQueue
    <2> QED
      BY <2>1, <2>2, <2>3, ReleaseUse
  <1>3. CASE \/ SendInterrupted(t) \/ SendTimeout(t) \/ SendDestroyed(t)
             \/ GetInterrupted(t) \/ GetTimeout(t) \/ GetDestroyed(t)
             \/ Peek(t) \/ PropertyFind(t) \/ DestroyDenied(t)
    <2>1. PICK o : Release(t, o, {})
      BY <1>3 DEF SendInterrupted, SendTimeout, SendDestroyed, GetInterrupted,
                  GetTimeout, GetDestroyed, LeaveGet, Peek, PropertyFind,
                  DestroyDenied
    <2>2. UNCHANGED <<inTable, freed>>
      BY <1>3 DEF SendInterrupted, SendTimeout, SendDestroyed, GetInterrupted,
                  GetTimeout, GetDestroyed, LeaveGet, Peek, PropertyFind,
                  DestroyDenied, shared
    <2>3. /\ pc[t] \in HoldsQueue
          /\ lthread' = lthread \/ (lthread = t /\ lthread' = NoThread)
      BY <1>3 DEF SendInterrupted, SendTimeout, SendDestroyed, GetInterrupted,
                  GetTimeout, GetDestroyed, LeaveGet, Peek, PropertyFind,
                  DestroyDenied, Enter, UnlockThread, Readers, Writers,
                  HoldsQueue
    <2> QED
      BY <2>1, <2>2, <2>3, ReleaseUse
  <1>4. CASE SendWait(t) \/ SendWaitAgain(t) \/ GetWait(t) \/ GetWaitAgain(t)
    <2>1. /\ SameOthers(t) /\ \A u \in Threads \ {t} : pc'[u] = pc[u]
          /\ pc'[t] = "wait" /\ UNCHANGED <<req, inTable, freed>>
      BY <1>4 DEF SendWait, SendWaitAgain, GetWait, GetWaitAgain, shared,
                  SameOthers, Typed
    <2>2. /\ pc[t] \in HoldsQueue
          /\ lthread' = lthread \/ (lthread = t /\ lthread' = NoThread)
      BY <1>4 DEF SendWait, SendWaitAgain, GetWait, GetWaitAgain, Enter,
                  UnlockThread, Readers, Writers, HoldsQueue
    <2>3. req'[t].call # "property"
      BY <2>1 DEF ThreadUse
    <2> QED
      BY <2>1, <2>2, <2>3, LeaveUse DEF WaitPC
  <1>5. ~(PropertyRead(t) \/ DestroyFind(t) \/ Destroy(t) \/ Delete(t))
    BY DEF PropertyRead, DestroyFind, Destroy, Delete, ThreadUse
  <1> QED
    BY <1>1, <1>2, <1>3, <1>4, <1>5 DEF SendStep, GetStep, OtherStep

LEMMA CallUse ==
  ASSUME Typed, NoInspection, Kind = "thread", ThreadUse, NEW t \in Threads,
         \/ \E r \in Request : Begin(t, r)
         \/ Lookup(t) \/ EnterDestroyed(t)
         \/ HandleAndRetry(t) \/ HandleAndFail(t)
         \/ Tick(t) \/ Expire(t) \/ RaiseSignal(t)
  PROVE  ThreadUse'
  <1>1. CASE \/ Lookup(t) /\ ~inTable
             \/ EnterDestroyed(t) \/ HandleAndFail(t) \/ Tick(t) \/ Expire(t)
    <2>1. /\ SameOthers(t) /\ \A u \in Threads \ {t} : pc'[u] = pc[u]
          /\ UNCHANGED <<inTable, freed>>
          /\ req'[t] = req[t] \/ req'[t] = NoReq
          /\ lthread' = lthread \/ (lthread = t /\ lthread' = NoThread)
      BY <1>1 DEF Lookup, EnterDestroyed, HandleAndFail, Tick, Expire,
                  BlockedReaders, BlockedWriters, UnlockThread, shared,
                  SameOthers, WaitPC, Typed
    <2>2. /\ pc[t] \in HoldsQueue \cup {"handle", "idle", "lookup"}
          /\ pc'[t] \in WaitPC \cup {"handle", "idle", "lookup"}
          /\ pc'[t] \in WaitPC => pc[t] \in HoldsQueue
      BY <1>1 DEF Lookup, EnterDestroyed, HandleAndFail, Tick, Expire,
                  BlockedReaders, BlockedWriters, HoldsQueue, WaitPC, Typed
    <2>3. req'[t].call # "property"
      BY <2>1 DEF ThreadUse, NoReq
    <2> QED
      BY <2>1, <2>2, <2>3, LeaveUse
  <1>2. CASE (\E r \in Request : Begin(t, r)) \/ HandleAndRetry(t)
    <2>1. /\ SameOthers(t) /\ \A u \in Threads \ {t} : pc'[u] = pc[u]
          /\ UNCHANGED <<lthread, inTable, freed>>
          /\ pc[t] \in {"idle", "handle"}
          /\ pc'[t] = "lookup" \/ (pc'[t] = "lockq" /\ t = Owner)
      BY <1>2 DEF Begin, HandleAndRetry, EntryPC, shared, SameOthers, WaitPC,
                  Typed
    <2>2. req'[t].call # "property"
      <3>1. CASE HandleAndRetry(t)
        BY <3>1 DEF HandleAndRetry, ThreadUse
      <3>2. CASE \E r \in Request : Begin(t, r)
        BY <3>2 DEF Begin, NoInspection, Typed
      <3> QED
        BY <1>2, <3>1, <3>2
    <2>3. CASE pc'[t] = "lookup"
      BY <2>1, <2>2, <2>3, LeaveUse DEF WaitPC
    <2>4. CASE pc'[t] = "lockq" /\ t = Owner
      <3>1. \A u \in Threads : req'[u].call # "property"
        BY <2>1, <2>2 DEF ThreadUse, SameOthers
      <3>2. pc'[Owner] \notin {"exit", "reap", "gone"} /\ ~freed'
        BY <2>1, <2>4 DEF ThreadUse
      <3> QED
        BY <2>1, <2>4, <3>1, <3>2 DEF ThreadUse
    <2> QED
      BY <2>1, <2>3, <2>4
  <1>3. CASE Lookup(t) /\ inTable
    <2>1. /\ \A u \in Threads \ {t} : pc'[u] = pc[u]
          /\ UNCHANGED <<req, inTable, freed>> /\ inTable
          /\ pc[t] = "lookup" /\ pc'[t] = "lockq"
          /\ lthread = NoThread /\ lthread' = t
      BY <1>3 DEF Lookup, shared, Typed
    <2>2. pc[Owner] \notin {"exit", "reap", "gone"}
      BY <2>1, KindAssumption DEF ThreadUse
    <2>3. pc'[Owner] \notin {"exit", "reap", "gone"} /\ ~freed'
      BY <2>1, <2>2, KindAssumption DEF ThreadUse
    <2>4. \A u \in Threads : pc'[u] = "lockq" => lthread' = u \/ u = Owner
      BY <2>1, KindAssumption DEF ThreadUse
    <2> QED
      BY <2>1, <2>3, <2>4 DEF ThreadUse
  <1>4. CASE RaiseSignal(t)
    <2>1. UNCHANGED <<pc, req, lthread, inTable, freed>>
      BY <1>4 DEF RaiseSignal, shared
    <2> QED
      BY <2>1 DEF ThreadUse
  <1> QED
    BY <1>1, <1>2, <1>3, <1>4

LEMMA EndUse ==
  ASSUME Typed, Counted, Deletion, Kind = "thread", ThreadUse,
         Collect \/ ExitStart \/ ExitStep
  PROVE  ThreadUse'
  <1>0. ~Collect
    BY DEF Collect
  <1>1. CASE ExitStart
    <2>1. /\ \A u \in Threads \ {Owner} : pc'[u] = pc[u]
          /\ UNCHANGED <<req, inTable, freed>>
          /\ pc[Owner] = "idle" /\ pc'[Owner] = "exit"
          /\ lthread = NoThread /\ lthread' = Owner
      BY <1>1, KindAssumption DEF ExitStart, shared, Typed
    <2>2. \A u \in Threads : pc'[u] # "lockq"
      BY <2>1, KindAssumption DEF ThreadUse
    <2> QED
      BY <2>1, <2>2, KindAssumption DEF ThreadUse
  <1>2. CASE ExitBroadcast
    <2>1. /\ SameOthers(Owner)
          /\ \A u \in Threads \ {Owner} : pc'[u] = pc[u] \/ pc'[u] = "woken"
          /\ UNCHANGED <<req, lthread, inTable, freed>>
          /\ pc[Owner] = "exit" /\ pc'[Owner] = "exit"
      BY <1>2, KindAssumption
      DEF ExitBroadcast, Goto, BlockedReaders, BlockedWriters, SameOthers,
          WaitPC, Typed
    <2> QED
      BY <2>1, KindAssumption DEF ThreadUse
  <1>3. CASE ExitDestroy
    <2>1. /\ \A u \in Threads \ {Owner} : pc'[u] = pc[u]
          /\ UNCHANGED <<req, freed>> /\ ~inTable'
          /\ pc[Owner] = "exit" /\ pc'[Owner] = "reap"
          /\ waiting = 0 /\ wait_for_drain = 0 /\ lthread' = NoThread
      BY <1>3, KindAssumption DEF ExitDestroy, Typed
    <2>2. Readers = {} /\ Writers = {}
      <3>1. Cardinality(Readers) = 0 /\ Cardinality(Writers) = 0
        BY <2>1, FiniteWaiters, FS_CardinalityType DEF Counted
      <3> QED
        BY <3>1, FiniteWaiters, FS_EmptySet
    <2>3. \A u \in Threads : pc[u] \notin WaitPC
      BY <2>2 DEF Deletion, Readers, Writers
    <2>4. \A u \in Threads : pc[u] # "lockq"
      BY <2>1, KindAssumption DEF ThreadUse
    <2>5. \A u \in Threads : pc'[u] \notin HoldsQueue
      BY <2>1, <2>3, <2>4 DEF ThreadUse, HoldsQueue, WaitPC
    <2> QED
      BY <2>1, <2>5, KindAssumption DEF ThreadUse, HoldsQueue
  <1>4. CASE ExitFree
    <2>1. /\ \A u \in Threads \ {Owner} : pc'[u] = pc[u]
          /\ UNCHANGED <<req, lthread, inTable>>
          /\ pc[Owner] = "reap" /\ pc'[Owner] = "gone"
      BY <1>4, KindAssumption DEF ExitFree, Typed
    <2>2. ~inTable' /\ \A u \in Threads : pc'[u] \notin HoldsQueue
      BY <2>1 DEF ThreadUse, HoldsQueue, WaitPC
    <2> QED
      BY <2>1, <2>2, KindAssumption DEF ThreadUse, HoldsQueue
  <1> QED
    BY <1>0, <1>1, <1>2, <1>3, <1>4 DEF ExitStep

LEMMA UseInvariant ==
  ASSUME Kind = "thread", NoInspection
  PROVE  Spec => []ThreadUse
  <1>1. Init => ThreadUse
    BY KindAssumption DEF Init, ThreadUse, NoReq
  <1>2. Typed /\ Counted /\ Deletion /\ ThreadUse /\ [Next]_vars => ThreadUse'
    <2> SUFFICES ASSUME Typed, Counted, Deletion, ThreadUse, [Next]_vars
                 PROVE  ThreadUse'
      OBVIOUS
    <2>1. ASSUME NEW t \in Threads, Step(t) PROVE ThreadUse'
      BY <2>1, StepUse, CallUse DEF Step
    <2>2. ASSUME NEW t \in Threads,
                 \/ \E r \in Request : Begin(t, r)
                 \/ Tick(t) \/ Expire(t) \/ RaiseSignal(t)
          PROVE  ThreadUse'
      BY <2>2, CallUse
    <2>3. CASE UNCHANGED vars
      BY <2>3 DEF vars, shared, ThreadUse
    <2> QED
      BY <2>1, <2>2, <2>3, EndUse DEF Next
  <1> QED
    BY <1>1, <1>2, TypedInvariant, CountedInvariant, DeletionInvariant, PTL
    DEF Spec

(* No thread uses the queue after its memory was returned: neither an      *)
(* anonymous one, collected when nobody refers to it, nor that of a thread *)
(* that exits, provided nobody asks for the properties of the latter.      *)
THEOREM FreedUnused ==
  ASSUME Kind = "anon" \/ (Kind = "thread" /\ NoInspection)
  PROVE  Spec => []NoUseAfterFree
  <1>1. CASE Kind = "anon"
    <2>1. Deletion => NoUseAfterFree
      BY <1>1 DEF Deletion, NoUseAfterFree, HoldsQueue, WaitPC
    <2> QED
      BY <2>1, DeletionInvariant, PTL
  <1>2. CASE Kind = "thread" /\ NoInspection
    <2>1. ThreadUse => NoUseAfterFree
      BY DEF ThreadUse, NoUseAfterFree
    <2>2. Spec => []ThreadUse
      BY <1>2, UseInvariant
    <2> QED
      BY <2>1, <2>2, PTL
  <1> QED
    BY <1>1, <1>2

-----------------------------------------------------------------------------
(* No wakeup is lost: neither by the choice between one reader and all of  *)
(* them in queue_message(), nor by the one signal to the writers in        *)
(* get_message(), for any number of threads and any patterns; and, with    *)
(* what a reader has seen, the queue implements MessageChannel.            *)

(* The readers and writers that will look at the queue again. *)
WokenVar == {u \in VarReaders : pc[u] = "woken"}
WokenWriters == {u \in Writers : pc[u] = "woken"}

(* sequence_id increases along the queue and was handed out before. *)
Ordered ==
  /\ \A i, j \in DOMAIN queue : i < j => queue[i].id < queue[j].id
  /\ \A i \in DOMAIN queue : queue[i].id <= sequence_next
  /\ \A t \in Threads : seen[t] <= sequence_next

(* What get_message() skips as seen does not unify with its pattern. *)
SeenSound ==
  \A t \in Threads : req[t].call = "get" =>
    \A i \in DOMAIN queue :
      queue[i].id <= seen[t] => queue[i].msg \notin req[t].pat

(* Nobody is blocked on a destroyed queue. *)
DestroyedAwake == destroyed => \A t \in Threads : pc[t] # "wait" \/
                                  t \notin Readers \cup Writers

(* A blocked reader with a pattern has nothing to find, and there is a     *)
(* woken reader for each message that waits for a variable.                *)
PatternBlocked ==
  \A t \in BlockedReaders : req[t].pat # AnyMsg =>
    \A i \in DOMAIN queue : queue[i].msg \notin req[t].pat
VarBlocked ==
  \A t \in BlockedReaders : req[t].pat = AnyMsg =>
    Len(queue) <= Cardinality(WokenVar)

WriterBlocked ==
  BlockedWriters # {} => Len(queue) + Cardinality(WokenWriters) >= MaxSize

WakeInv == /\ Ordered /\ SeenSound /\ DestroyedAwake
           /\ PatternBlocked /\ VarBlocked /\ WriterBlocked

(* Of the threads other than t, those in woken are woken and nothing else  *)
(* happens to any.                                                         *)
Frame(t, woken) ==
  \A u \in Threads \ {t} :
    /\ req'[u] = req[u] /\ seen'[u] = seen[u]
    /\ pc'[u] = IF u \in woken THEN "woken" ELSE pc[u]

LEMMA FiniteWoken == IsFiniteSet(WokenVar) /\ IsFiniteSet(WokenWriters)
  <1>1. WokenVar \subseteq Threads /\ WokenWriters \subseteq Threads
    BY DEF WokenVar, WokenWriters, VarReaders, Readers, Writers
  <1> QED
    BY <1>1, FS_Subset, DataAssumption

(* The size of a set with one more element. *)
LEMMA OneMore ==
  ASSUME NEW S, NEW x, IsFiniteSet(S)
  PROVE  /\ IsFiniteSet(S \cup {x})
         /\ Cardinality(S) \in Nat /\ Cardinality(S \cup {x}) \in Nat
         /\ Cardinality(S \cup {x}) <= Cardinality(S) + 1
         /\ x \notin S => Cardinality(S \cup {x}) = Cardinality(S) + 1
  <1>1. /\ IsFiniteSet(S \cup {x})
        /\ Cardinality(S \cup {x}) =
             IF x \in S THEN Cardinality(S) ELSE Cardinality(S) + 1
    BY FS_AddElement
  <1>2. Cardinality(S) \in Nat /\ Cardinality(S \cup {x}) \in Nat
    BY <1>1, FS_CardinalityType
  <1> QED
    BY <1>1, <1>2

LEMMA ElementTypes ==
  ASSUME Typed
  PROVE  /\ Len(queue) \in Nat /\ DOMAIN queue = 1 .. Len(queue)
         /\ \A i \in DOMAIN queue :
              queue[i].id \in Nat /\ queue[i].id > 0 /\ queue[i].msg \in Msgs
  <1>1. queue \in Seq(Message)
    BY DEF Typed
  <1>2. \A i \in DOMAIN queue : queue[i] \in Message
    BY <1>1
  <1> QED
    BY <1>1, <1>2 DEF Message

(* A step of t that leaves the queue alone, does not block t, and is not   *)
(* the step of a woken thread.                                             *)
LEMMA QuietStep ==
  ASSUME Typed, WakeInv, NEW t \in Threads, Frame(t, {}),
         UNCHANGED <<queue, sequence_next, destroyed>>,
         seen' \in [Threads -> Nat],
         pc'[t] # "wait", pc[t] # "woken",
         \/ req'[t] = req[t] /\ seen'[t] = seen[t]
         \/ seen'[t] = 0
         \/ req'[t].call # "get" /\ seen'[t] = seen[t]
  PROVE  WakeInv'
  <1>1. Ordered'
    <2>1. \A u \in Threads : seen'[u] <= sequence_next'
      <3>1. sequence_next' = sequence_next /\ sequence_next \in Nat
        BY DEF Typed
      <3>2. \A u \in Threads : seen[u] <= sequence_next
        BY DEF WakeInv, Ordered
      <3>3. \A u \in Threads : seen'[u] = seen[u] \/ seen'[u] = 0
        BY DEF Frame
      <3> QED
        BY <3>1, <3>2, <3>3
    <2> QED
      BY <2>1 DEF WakeInv, Ordered
  <1>2. SeenSound'
    <2> SUFFICES ASSUME NEW u \in Threads, req'[u].call = "get",
                        NEW i \in DOMAIN queue, queue[i].id <= seen'[u]
                 PROVE  queue[i].msg \notin req'[u].pat
      BY DEF SeenSound
    <2>1. queue[i].id \in Nat /\ queue[i].id > 0
      BY ElementTypes
    <2>2. seen'[u] # 0
      BY <2>1
    <2>3. req'[u] = req[u] /\ seen'[u] = seen[u]
      BY <2>2 DEF Frame
    <2> QED
      BY <2>3 DEF WakeInv, SeenSound
  <1>3. \A u \in Threads : pc'[u] = "wait" =>
          u # t /\ pc[u] = "wait" /\ req'[u] = req[u]
    BY DEF Frame
  <1>4. DestroyedAwake'
    BY <1>3 DEF WakeInv, DestroyedAwake, Readers, Writers, WaitPC
  <1>5. BlockedReaders' \subseteq BlockedReaders
        /\ BlockedWriters' \subseteq BlockedWriters
    BY <1>3 DEF BlockedReaders, BlockedWriters, Readers, Writers, WaitPC
  <1>6. WokenVar \subseteq WokenVar' /\ WokenWriters \subseteq WokenWriters'
    BY DEF Frame, WokenVar, WokenWriters, VarReaders, Readers, Writers
  <1>6a. IsFiniteSet(WokenVar') /\ IsFiniteSet(WokenWriters')
    <2>1. WokenVar' \subseteq Threads /\ WokenWriters' \subseteq Threads
      BY DEF WokenVar, WokenWriters, VarReaders, Readers, Writers
    <2> QED
      BY <2>1, FS_Subset, DataAssumption
  <1>7. /\ Cardinality(WokenVar) <= Cardinality(WokenVar')
        /\ Cardinality(WokenWriters) <= Cardinality(WokenWriters')
        /\ Cardinality(WokenVar) \in Nat /\ Cardinality(WokenVar') \in Nat
        /\ Cardinality(WokenWriters) \in Nat
        /\ Cardinality(WokenWriters') \in Nat
    BY <1>6, <1>6a, FS_Subset, FS_CardinalityType
  <1>8. PatternBlocked' /\ VarBlocked'
    <2>1. \A u \in BlockedReaders' : u \in BlockedReaders /\ req'[u] = req[u]
      BY <1>3, <1>5 DEF BlockedReaders, Readers
    <2>2. PatternBlocked'
      BY <2>1 DEF WakeInv, PatternBlocked
    <2>3. VarBlocked'
      BY <1>7, <2>1, ElementTypes DEF WakeInv, VarBlocked
    <2> QED
      BY <2>2, <2>3
  <1>9. WriterBlocked'
    BY <1>5, <1>7, ElementTypes, DataAssumption DEF WakeInv, WriterBlocked
  <1> QED
    BY <1>1, <1>2, <1>4, <1>8, <1>9 DEF WakeInv

LEMMA FiniteWokenNext ==
  /\ IsFiniteSet(WokenVar') /\ IsFiniteSet(WokenWriters')
  /\ Cardinality(WokenVar') \in Nat /\ Cardinality(WokenWriters') \in Nat
  /\ Cardinality(WokenVar) \in Nat /\ Cardinality(WokenWriters) \in Nat
  <1>1. WokenVar' \subseteq Threads /\ WokenWriters' \subseteq Threads
    BY DEF WokenVar, WokenWriters, VarReaders, Readers, Writers
  <1> QED
    BY <1>1, FiniteWoken, FS_Subset, FS_CardinalityType, DataAssumption

(* The conjuncts that look at the identities of the messages, for a queue  *)
(* that lost messages or stayed as it was.                                 *)
LEMMA SeenStep ==
  ASSUME Typed, WakeInv, NEW t \in Threads,
         \A u \in Threads \ {t} : req'[u] = req[u] /\ seen'[u] = seen[u],
         \/ req'[t] = req[t] /\ seen'[t] = seen[t]
         \/ req'[t].call # "get" /\ seen'[t] = seen[t],
         queue' = queue \/ queue' = <<>>, UNCHANGED sequence_next
  PROVE  Ordered' /\ SeenSound'
  <1>1. \A u \in Threads : seen'[u] = seen[u]
    OBVIOUS
  <1>2. DOMAIN queue' = {} \/ queue' = queue
    OBVIOUS
  <1>3. Ordered'
    BY <1>1, <1>2 DEF WakeInv, Ordered
  <1>4. \A u \in Threads : req'[u].call = "get" => req'[u] = req[u]
    OBVIOUS
  <1>5. SeenSound'
    BY <1>1, <1>2, <1>4 DEF WakeInv, SeenSound
  <1> QED
    BY <1>3, <1>5

(* A step after which nobody is blocked. *)
LEMMA AwakeStep ==
  ASSUME Ordered', SeenSound',
         \A u \in Threads : pc'[u] # "wait" \/ u \notin (Readers \cup Writers)'
  PROVE  WakeInv'
  <1>1. BlockedReaders' = {} /\ BlockedWriters' = {}
    BY DEF BlockedReaders, BlockedWriters, Readers, Writers
  <1> QED
    BY <1>1 DEF WakeInv, DestroyedAwake, PatternBlocked, VarBlocked,
                WriterBlocked

(* A step of t that empties the queue. *)
LEMMA EmptyStep ==
  ASSUME Typed, WakeInv, MaxSize = 0 \/ BlockedWriters' = {},
         NEW t \in Threads, Frame(t, {}),
         queue' = <<>>, UNCHANGED <<sequence_next, destroyed, seen>>,
         pc'[t] # "wait", req'[t] = req[t] \/ req'[t].call # "get"
  PROVE  WakeInv'
  <1>1. Ordered' /\ SeenSound'
    BY SeenStep DEF Frame
  <1>2. \A u \in Threads : pc'[u] = "wait" =>
          u # t /\ pc[u] = "wait" /\ req'[u] = req[u]
    BY DEF Frame
  <1>3. DestroyedAwake'
    BY <1>2 DEF WakeInv, DestroyedAwake, Readers, Writers, WaitPC
  <1>4. PatternBlocked'
    BY DEF PatternBlocked
  <1>5. VarBlocked'
    BY FiniteWokenNext DEF VarBlocked
  <1>6. WriterBlocked'
    BY FiniteWokenNext DEF WriterBlocked
  <1> QED
    BY <1>1, <1>3, <1>4, <1>5, <1>6 DEF WakeInv

(* Thread t blocks: a reader that found nothing, or a writer that found no *)
(* room.                                                                   *)
LEMMA BlockStep ==
  ASSUME Typed, WakeInv, NEW t \in Threads, Frame(t, {}), ~destroyed,
         UNCHANGED <<queue, sequence_next, destroyed>>,
         req'[t] = req[t], pc'[t] = "wait",
         seen'[t] \in Nat, seen'[t] <= sequence_next,
         \/ /\ req[t].call = "get"
            /\ \A i \in DOMAIN queue : queue[i].msg \notin req[t].pat
         \/ /\ req[t].call = "send" /\ seen'[t] = seen[t]
            /\ Len(queue) >= MaxSize
  PROVE  WakeInv'
  <1>1. Ordered'
    <2>1. \A u \in Threads : seen'[u] <= sequence_next
      BY DEF Frame, WakeInv, Ordered
    <2> QED
      BY <2>1 DEF WakeInv, Ordered
  <1>2. SeenSound'
    BY DEF Frame, WakeInv, SeenSound
  <1>3. DestroyedAwake'
    BY DEF DestroyedAwake
  <1>4. \A u \in Threads \ {t} : pc'[u] = pc[u] /\ req'[u] = req[u]
    BY DEF Frame
  <1>5. PatternBlocked'
    <2> SUFFICES ASSUME NEW u \in BlockedReaders', req'[u].pat # AnyMsg,
                        NEW i \in DOMAIN queue
                 PROVE  queue[i].msg \notin req'[u].pat
      BY DEF PatternBlocked
    <2>1. CASE u = t
      BY <2>1 DEF BlockedReaders, Readers
    <2>2. CASE u # t
      BY <1>4, <2>2 DEF WakeInv, PatternBlocked, BlockedReaders, Readers
    <2> QED
      BY <2>1, <2>2
  <1>6. VarBlocked'
    <2> SUFFICES ASSUME NEW u \in BlockedReaders', req'[u].pat = AnyMsg
                 PROVE  Len(queue) <= Cardinality(WokenVar')
      BY DEF VarBlocked
    <2>1. CASE req[t].call = "get" /\ req[t].pat = AnyMsg
      <3>1. \A i \in DOMAIN queue : queue[i].msg \notin AnyMsg
        BY <2>1
      <3>2. Len(queue) = 0
        <4>1. Len(queue) > 0 => 1 \in DOMAIN queue /\ queue[1].msg \in AnyMsg
          BY ElementTypes DEF AnyMsg
        <4> QED
          BY <3>1, <4>1, ElementTypes
      <3> QED
        BY <3>2, FiniteWokenNext
    <2>2. CASE ~(req[t].call = "get" /\ req[t].pat = AnyMsg)
      <3>1. u # t
        BY <2>2 DEF BlockedReaders, Readers
      <3>2. u \in BlockedReaders /\ req[u].pat = AnyMsg
        BY <1>4, <3>1 DEF BlockedReaders, Readers
      <3>3. WokenVar = WokenVar'
        BY <1>4, <2>2 DEF WokenVar, VarReaders, Readers
      <3> QED
        BY <3>2, <3>3 DEF WakeInv, VarBlocked
    <2> QED
      BY <2>1, <2>2
  <1>7. WriterBlocked'
    <2>1. CASE req[t].call = "send"
      BY <2>1, FiniteWokenNext, ElementTypes, DataAssumption DEF WriterBlocked
    <2>2. CASE req[t].call = "get"
      <3>1. WokenWriters = WokenWriters' /\ BlockedWriters = BlockedWriters'
        BY <1>4, <2>2 DEF WokenWriters, BlockedWriters, Writers
      <3> QED
        BY <3>1 DEF WakeInv, WriterBlocked
    <2> QED
      BY <2>1, <2>2
  <1> QED
    BY <1>1, <1>2, <1>3, <1>5, <1>6, <1>7 DEF WakeInv

(* release_message_queue() seen from the other threads. *)
LEMMA ReleaseFrame ==
  ASSUME Typed, NEW t \in Threads, NEW o, NEW woken, Release(t, o, woken),
         UNCHANGED seen
  PROVE  /\ Frame(t, woken)
         /\ pc'[t] \notin WaitPC
         /\ req'[t] = req[t] \/ req'[t] = NoReq
  BY DEF Frame, Release, Goto, AfterRelease, WaitPC, Typed

(* queue_message() puts the message in and wakes readers. *)
LEMMA AppendStep ==
  ASSUME Typed, Counted, WakeInv, NEW t \in Threads, AppendMessage(t),
         req[t].call = "send", UNCHANGED seen, ~destroyed
  PROVE  WakeInv'
  <1>1. PICK woken \in WakeReaders : Release(t, "ok", woken)
    BY DEF AppendMessage
  <1>2. woken \subseteq BlockedReaders
    BY <1>1, CondSignalSubset DEF WakeReaders
  <1>3. /\ Frame(t, woken) /\ pc'[t] \notin WaitPC
        /\ req'[t] = req[t] \/ req'[t] = NoReq
    BY <1>1, ReleaseFrame
  <1>4. ~destroyed' /\ sequence_next' = sequence_next + 1
        /\ sequence_next \in Nat
    BY DEF AppendMessage, Typed
  <1>5. /\ Len(queue') = Len(queue) + 1 /\ Len(queue) \in Nat
        /\ DOMAIN queue' = 1 .. (Len(queue) + 1)
        /\ DOMAIN queue = 1 .. Len(queue)
        /\ \A i \in DOMAIN queue : queue'[i] = queue[i]
        /\ queue'[Len(queue) + 1].id = sequence_next + 1
    <2> DEFINE e == [id |-> sequence_next', msg |-> req[t].msg]
    <2>1. queue \in Seq(Message) /\ queue' = Append(queue, e)
          /\ e.id = sequence_next + 1
      BY <1>4 DEF AppendMessage, Typed
    <2> HIDE DEF e
    <2> QED
      BY <2>1
  <1>6. \A i \in DOMAIN queue : queue[i].id \in Nat
    BY ElementTypes
  <1>7. Ordered'
    <2>1. \A i, j \in DOMAIN queue' : i < j => queue'[i].id < queue'[j].id
      <3> SUFFICES ASSUME NEW i \in DOMAIN queue', NEW j \in DOMAIN queue', i < j
                   PROVE  queue'[i].id < queue'[j].id
        OBVIOUS
      <3>1. i \in DOMAIN queue /\ queue'[i] = queue[i]
            /\ queue[i].id <= sequence_next
        BY <1>5 DEF WakeInv, Ordered
      <3>2. CASE j \in DOMAIN queue
        BY <1>5, <3>1, <3>2 DEF WakeInv, Ordered
      <3>3. CASE j = Len(queue) + 1
        BY <1>4, <1>5, <1>6, <3>1, <3>3
      <3> QED
        BY <1>5, <3>2, <3>3
    <2>2. \A i \in DOMAIN queue' : queue'[i].id <= sequence_next'
      <3> SUFFICES ASSUME NEW i \in DOMAIN queue'
                   PROVE  queue'[i].id <= sequence_next'
        OBVIOUS
      <3>1. CASE i \in DOMAIN queue
        BY <1>4, <1>5, <1>6, <3>1 DEF WakeInv, Ordered
      <3>2. CASE i = Len(queue) + 1
        BY <1>4, <1>5, <3>2
      <3> QED
        BY <1>5, <3>1, <3>2
    <2>3. \A u \in Threads : seen'[u] <= sequence_next'
      BY <1>4 DEF WakeInv, Ordered, Typed
    <2> QED
      BY <2>1, <2>2, <2>3 DEF Ordered
  <1>8. SeenSound'
    <2> SUFFICES ASSUME NEW u \in Threads, req'[u].call = "get",
                        NEW i \in DOMAIN queue', queue'[i].id <= seen'[u]
                 PROVE  queue'[i].msg \notin req'[u].pat
      BY DEF SeenSound
    <2>1. u # t /\ req'[u] = req[u] /\ seen'[u] = seen[u]
      BY <1>3 DEF Frame, NoReq
    <2>2. seen[u] <= sequence_next /\ seen[u] \in Nat
      BY DEF WakeInv, Ordered, Typed
    <2>3. i # Len(queue) + 1
      BY <1>4, <1>5, <2>1, <2>2
    <2>4. i \in DOMAIN queue /\ queue'[i] = queue[i]
      BY <1>5, <2>3
    <2> QED
      BY <2>1, <2>4 DEF WakeInv, SeenSound
  <1>9. DestroyedAwake'
    BY <1>4 DEF DestroyedAwake
  <1>10. \A u \in Threads : pc'[u] \in WaitPC => u # t /\ req'[u] = req[u]
    BY <1>3 DEF Frame
  <1>11. BlockedReaders' = BlockedReaders \ woken
    BY <1>2, <1>3 DEF Frame, BlockedReaders, Readers, WaitPC
  <1>12. PatternBlocked' /\ VarBlocked'
    <2>1. CASE BlockedReaders' = {}
      BY <2>1 DEF PatternBlocked, VarBlocked
    <2>2. CASE BlockedReaders' # {}
      <3>1. /\ Readers # {} /\ waiting = Cardinality(Readers)
            /\ IsFiniteSet(Readers) /\ VarReaders \subseteq Readers
            /\ waiting_var = Cardinality(VarReaders)
        BY <1>11, <2>2, FiniteWaiters
        DEF BlockedReaders, VarReaders, Counted
      <3>2. /\ waiting # 0 /\ waiting \in Nat /\ waiting_var \in Nat
            /\ waiting_var <= waiting
            /\ waiting_var = waiting => VarReaders = Readers
        BY <3>1, FS_EmptySet, FS_CardinalityType, FS_Subset
      <3>3. /\ woken \in CondSignal(BlockedReaders)
            /\ waiting = waiting_var \/ waiting = 1
        BY <1>1, <1>11, <2>2, <3>2 DEF WakeReaders
      <3>4. PICK w \in BlockedReaders : woken = {w}
        BY <1>11, <2>2, <3>3 DEF CondSignal
      <3>5. PICK v \in BlockedReaders : v # w
        BY <1>11, <2>2, <3>4
      <3>6. waiting # 1
        <4>1. {v, w} \subseteq Readers
          BY <3>4, <3>5 DEF BlockedReaders
        <4>2. Cardinality({v, w}) = 2
          <5>1. {v, w} = {v} \cup {w} /\ w \notin {v}
            BY <3>5
          <5>2. IsFiniteSet({v}) /\ Cardinality({v}) = 1
            BY FS_Singleton
          <5>3. Cardinality({v} \cup {w}) = Cardinality({v}) + 1
            BY <5>1, <5>2, OneMore
          <5> QED
            BY <5>1, <5>2, <5>3
        <4> QED
          BY <3>1, <4>1, <4>2, FS_Subset
      <3>7. VarReaders = Readers
        BY <3>2, <3>3, <3>6
      <3>8. \A u \in BlockedReaders' : req'[u].pat = AnyMsg
        BY <1>10, <1>11, <3>7 DEF BlockedReaders, VarReaders, Readers
      <3>9. PatternBlocked'
        BY <3>8 DEF PatternBlocked
      <3>10. w \notin WokenVar /\ w \in VarReaders
        BY <3>4, <3>7 DEF WokenVar, BlockedReaders
      <3>11. WokenVar \cup {w} \subseteq WokenVar'
        <4> SUFFICES ASSUME NEW u \in WokenVar \cup {w} PROVE u \in WokenVar'
          OBVIOUS
        <4>1. u \in Readers /\ u \in Threads /\ req[u].call = "get"
              /\ req[u].pat = AnyMsg
          BY <3>10 DEF WokenVar, VarReaders, Readers
        <4>2. u # t
          BY <4>1
        <4>3. pc'[u] = "woken" /\ req'[u] = req[u]
          BY <1>3, <3>4, <4>1, <4>2 DEF Frame, WokenVar
        <4> QED
          BY <4>1, <4>3 DEF WokenVar, VarReaders, Readers, WaitPC
      <3>12. Cardinality(WokenVar') >= Cardinality(WokenVar) + 1
        <4>1. Cardinality(WokenVar \cup {w}) = Cardinality(WokenVar) + 1
          BY <3>10, FiniteWoken, OneMore
        <4>2. Cardinality(WokenVar \cup {w}) <= Cardinality(WokenVar')
          BY <3>11, FiniteWokenNext, FS_Subset
        <4> QED
          BY <4>1, <4>2
      <3>13. Len(queue) <= Cardinality(WokenVar)
        BY <3>4, <3>10 DEF WakeInv, VarBlocked, VarReaders
      <3>14. VarBlocked'
        BY <1>5, <3>12, <3>13, FiniteWokenNext DEF VarBlocked
      <3> QED
        BY <3>9, <3>14
    <2> QED
      BY <2>1, <2>2
  <1>13. WriterBlocked'
    <2> SUFFICES ASSUME BlockedWriters' # {}
                 PROVE  Len(queue') + Cardinality(WokenWriters') >= MaxSize
      BY DEF WriterBlocked
    <2>1. BlockedWriters # {}
      BY <1>3 DEF Frame, BlockedWriters, Writers, WaitPC
    <2>2. WokenWriters \subseteq WokenWriters' \cup {t}
      BY <1>3 DEF Frame, WokenWriters, Writers
    <2>3. Cardinality(WokenWriters) <= Cardinality(WokenWriters') + 1
      <3>1. IsFiniteSet(WokenWriters' \cup {t})
            /\ Cardinality(WokenWriters' \cup {t})
                 <= Cardinality(WokenWriters') + 1
        BY FiniteWokenNext, OneMore
      <3>2. Cardinality(WokenWriters) <= Cardinality(WokenWriters' \cup {t})
        BY <2>2, <3>1, FS_Subset
      <3> QED
        BY <3>1, <3>2, FiniteWokenNext, FS_CardinalityType
    <2> QED
      BY <1>5, <2>1, <2>3, FiniteWokenNext, DataAssumption
      DEF WakeInv, WriterBlocked
  <1> QED
    BY <1>7, <1>8, <1>9, <1>12, <1>13 DEF WakeInv

(* get_message() takes a message and signals one writer. *)
LEMMA TakeStep ==
  ASSUME Typed, Counted, WakeInv, NEW t \in Threads, TakeFirst(t),
         req[t].call = "get", UNCHANGED seen, ~destroyed
  PROVE  WakeInv'
  <1>1. PICK i \in Candidates(t) :
          /\ queue' = RemoveAt(queue, i)
          /\ \E woken \in WakeWriters : Release(t, "ok", woken)
    BY DEF TakeFirst
  <1>2. PICK woken \in WakeWriters : Release(t, "ok", woken)
    BY <1>1
  <1>3. woken \subseteq BlockedWriters
    BY <1>2, CondSignalSubset DEF WakeWriters
  <1>4. /\ Frame(t, woken) /\ pc'[t] \notin WaitPC
        /\ req'[t] = req[t] \/ req'[t] = NoReq
    BY <1>2, ReleaseFrame
  <1>5. UNCHANGED <<sequence_next, destroyed>>
    BY DEF TakeFirst
  <1>6. i \in DOMAIN queue /\ queue \in Seq(Message)
    BY DEF Candidates, Unseen, Typed
  <1>7. /\ Len(queue') = Len(queue) - 1 /\ Len(queue) \in Nat
        /\ DOMAIN queue' = 1 .. (Len(queue) - 1)
        /\ DOMAIN queue = 1 .. Len(queue) /\ i \in 1 .. Len(queue)
        /\ \A j \in 1 .. (i - 1) : queue'[j] = queue[j]
        /\ \A j \in i .. (Len(queue) - 1) : queue'[j] = queue[j + 1]
    <2>1. queue' \in Seq(Message) /\ Len(queue') = Len(queue) - 1
      BY <1>1, <1>6, RemoveAtType
    <2>2. /\ \A j \in 1 .. (i - 1) : queue'[j] = queue[j]
          /\ \A j \in i .. (Len(queue) - 1) : queue'[j] = queue[j + 1]
      BY <1>1, <1>6, RemoveAtType
    <2> QED
      BY <1>6, <2>1, <2>2
  <1> DEFINE from(j) == IF j < i THEN j ELSE j + 1
  <1>8. \A j \in DOMAIN queue' :
          from(j) \in DOMAIN queue /\ queue'[j] = queue[from(j)]
    BY <1>7
  <1>9. \A j, k \in DOMAIN queue' : j < k => from(j) < from(k)
    BY <1>7
  <1> HIDE DEF from
  <1>10. Ordered'
    BY <1>4, <1>5, <1>8, <1>9 DEF WakeInv, Ordered
  <1>11. SeenSound'
    <2> SUFFICES ASSUME NEW u \in Threads, req'[u].call = "get",
                        NEW j \in DOMAIN queue', queue'[j].id <= seen'[u]
                 PROVE  queue'[j].msg \notin req'[u].pat
      BY DEF SeenSound
    <2>1. req'[u] = req[u] /\ seen'[u] = seen[u]
      BY <1>4 DEF Frame, NoReq
    <2> QED
      BY <1>8, <2>1 DEF WakeInv, SeenSound
  <1>12. DestroyedAwake'
    BY <1>5 DEF DestroyedAwake
  <1>13. /\ \A u \in BlockedReaders' : u \in BlockedReaders /\ req'[u] = req[u]
         /\ BlockedWriters' = BlockedWriters \ woken
    BY <1>3, <1>4
    DEF Frame, BlockedReaders, BlockedWriters, Readers, Writers, WaitPC
  <1>14. PatternBlocked'
    BY <1>8, <1>13 DEF WakeInv, PatternBlocked
  <1>15. VarBlocked'
    <2> SUFFICES ASSUME NEW u \in BlockedReaders', req'[u].pat = AnyMsg
                 PROVE  Len(queue') <= Cardinality(WokenVar')
      BY DEF VarBlocked
    <2>1. Len(queue) <= Cardinality(WokenVar)
      BY <1>13 DEF WakeInv, VarBlocked
    <2>2. WokenVar \subseteq WokenVar' \cup {t}
      BY <1>3, <1>4
      DEF Frame, WokenVar, VarReaders, Readers, BlockedWriters, Writers
    <2>3. IsFiniteSet(WokenVar' \cup {t})
          /\ Cardinality(WokenVar' \cup {t}) <= Cardinality(WokenVar') + 1
          /\ Cardinality(WokenVar' \cup {t}) \in Nat
      BY FiniteWokenNext, OneMore
    <2>4. Cardinality(WokenVar) <= Cardinality(WokenVar' \cup {t})
      BY <2>2, <2>3, FS_Subset
    <2> QED
      BY <1>7, <2>1, <2>3, <2>4, FiniteWokenNext
  <1>16. WriterBlocked'
    <2> SUFFICES ASSUME BlockedWriters' # {}
                 PROVE  Len(queue') + Cardinality(WokenWriters') >= MaxSize
      BY DEF WriterBlocked
    <2>1. BlockedWriters # {} /\ Writers # {}
      BY <1>13 DEF BlockedWriters
    <2>2. wait_for_drain # 0
      <3>1. Cardinality(Writers) # 0 /\ Cardinality(Writers) \in Nat
        BY <2>1, FiniteWaiters, FS_EmptySet, FS_CardinalityType
      <3> QED
        BY <3>1 DEF Counted, Typed
    <2>3. PICK w \in BlockedWriters : woken = {w}
      BY <1>2, <2>1, <2>2 DEF WakeWriters, CondSignal
    <2>4. w \notin WokenWriters /\ t \notin Writers
      BY <2>3 DEF WokenWriters, BlockedWriters, Writers
    <2>5. WokenWriters \cup {w} \subseteq WokenWriters'
      <3> SUFFICES ASSUME NEW u \in WokenWriters \cup {w}
                   PROVE  u \in WokenWriters'
        OBVIOUS
      <3>1. u \in Writers /\ u # t /\ u \in Threads
        BY <2>4 DEF WokenWriters, BlockedWriters, Writers
      <3>2. pc'[u] = "woken" /\ req'[u] = req[u]
        BY <1>4, <2>3, <3>1 DEF Frame, WokenWriters
      <3> QED
        BY <3>1, <3>2 DEF WokenWriters, Writers, WaitPC
    <2>6. Cardinality(WokenWriters \cup {w}) = Cardinality(WokenWriters) + 1
      BY <2>4, FiniteWoken, OneMore
    <2>7. Cardinality(WokenWriters \cup {w}) <= Cardinality(WokenWriters')
      BY <2>5, FiniteWokenNext, FS_Subset
    <2>8. Len(queue) + Cardinality(WokenWriters) >= MaxSize
      BY <2>1 DEF WakeInv, WriterBlocked
    <2> QED
      BY <1>7, <2>6, <2>7, <2>8, FiniteWokenNext, DataAssumption
  <1> QED
    BY <1>10, <1>11, <1>12, <1>14, <1>15, <1>16 DEF WakeInv

-----------------------------------------------------------------------------
(* What get_message() scanned before it waits does not unify. *)
LEMMA NothingFound ==
  ASSUME Typed, WakeInv, NEW t \in Threads, req[t].call = "get",
         Candidates(t) = {}
  PROVE  /\ \A i \in DOMAIN queue : queue[i].msg \notin req[t].pat
         /\ ScannedTo(t) <= sequence_next
  <1>1. ASSUME NEW i \in DOMAIN queue PROVE queue[i].msg \notin req[t].pat
    <2>1. CASE queue[i].id >= seen[t]
      BY <2>1 DEF Candidates, Unseen
    <2>2. CASE queue[i].id <= seen[t]
      BY <2>2 DEF WakeInv, SeenSound
    <2> QED
      BY <2>1, <2>2, ElementTypes DEF Typed
  <1>2. ScannedTo(t) <= sequence_next
    <2>1. CASE Unseen(t) = {}
      BY <2>1 DEF ScannedTo, WakeInv, Ordered
    <2>2. CASE Unseen(t) # {}
      <3>1. Len(queue) \in DOMAIN queue
        BY <2>2, ElementTypes DEF Unseen
      <3> QED
        BY <2>2, <3>1 DEF ScannedTo, WakeInv, Ordered
    <2> QED
      BY <2>1, <2>2
  <1> QED
    BY <1>1, <1>2

-----------------------------------------------------------------------------
(* WakeInv is kept by every step. *)

(* A thread that is not blocked and leaves through release_message_queue() *)
(* with the queue unchanged.                                               *)
LEMMA ReleaseWake ==
  ASSUME Typed, WakeInv, NEW t \in Threads, NEW o, Release(t, o, {}),
         UNCHANGED <<queue, sequence_next, destroyed, seen>>,
         pc[t] # "woken"
  PROVE  WakeInv'
  <1>1. /\ Frame(t, {}) /\ pc'[t] # "wait"
        /\ req'[t] = req[t] \/ req'[t] = NoReq
    BY ReleaseFrame DEF WaitPC
  <1>2. seen' \in [Threads -> Nat]
    BY DEF Typed
  <1>3. NoReq.call # "get"
    BY DEF NoReq
  <1> QED
    BY <1>1, <1>2, <1>3, QuietStep

(* A thread that leaves a destroyed queue. *)
LEMMA LeaveDestroyedWake ==
  ASSUME Typed, WakeInv, NEW t \in Threads, NEW o, Release(t, o, {}),
         UNCHANGED <<queue, sequence_next, destroyed, seen>>, destroyed
  PROVE  WakeInv'
  <1>1. /\ Frame(t, {}) /\ pc'[t] \notin WaitPC
        /\ req'[t] = req[t] \/ req'[t] = NoReq
    BY ReleaseFrame
  <1>2. Ordered' /\ SeenSound'
    <2>1. NoReq.call # "get"
      BY DEF NoReq
    <2> QED
      BY <1>1, <2>1, SeenStep DEF Frame
  <1>3. \A u \in Threads : pc'[u] # "wait" \/ u \notin (Readers \cup Writers)'
    BY <1>1 DEF Frame, WakeInv, DestroyedAwake, Readers, Writers, WaitPC
  <1> QED
    BY <1>2, <1>3, AwakeStep

LEMMA SendWake ==
  ASSUME Typed, Counted, WakeInv, NEW t \in Threads, SendStep(t)
  PROVE  WakeInv'
  <1>1. CASE SendNow(t) \/ SendDrained(t)
    BY <1>1, AppendStep DEF SendNow, SendDrained, Enter, Writers
  <1>2. CASE SendWait(t) \/ SendWaitAgain(t)
    <2>1. /\ Frame(t, {}) /\ ~destroyed /\ req'[t] = req[t] /\ pc'[t] = "wait"
          /\ UNCHANGED <<queue, sequence_next, destroyed, seen>>
          /\ req[t].call = "send" /\ Len(queue) >= MaxSize
      BY <1>2 DEF SendWait, SendWaitAgain, Enter, Writers, Full, shared, Frame,
                  Typed
    <2>2. seen'[t] \in Nat /\ seen'[t] <= sequence_next
      BY <2>1 DEF WakeInv, Ordered, Typed
    <2> QED
      BY <2>1, <2>2, BlockStep
  <1>3. CASE SendInterrupted(t) \/ SendTimeout(t)
    <2>1. /\ UNCHANGED <<queue, sequence_next, destroyed, seen>>
          /\ \E o : Release(t, o, {})
          /\ pc[t] # "woken"
      BY <1>3 DEF SendInterrupted, SendTimeout, Interrupted, TimedOut, shared
    <2> QED
      BY <2>1, ReleaseWake
  <1>4. CASE SendDestroyed(t)
    BY <1>4, LeaveDestroyedWake DEF SendDestroyed, shared
  <1> QED
    BY <1>1, <1>2, <1>3, <1>4 DEF SendStep

LEMMA GetWake ==
  ASSUME Typed, Counted, WakeInv, NEW t \in Threads, GetStep(t)
  PROVE  WakeInv'
  <1>1. CASE GetNow(t) \/ GetTake(t)
    BY <1>1, TakeStep DEF GetNow, GetTake, Enter, Readers
  <1>2. CASE GetWait(t) \/ GetWaitAgain(t)
    <2>1. /\ Frame(t, {}) /\ ~destroyed /\ req'[t] = req[t] /\ pc'[t] = "wait"
          /\ UNCHANGED <<queue, sequence_next, destroyed>>
          /\ seen'[t] = ScannedTo(t)
          /\ req[t].call = "get" /\ Candidates(t) = {}
      BY <1>2 DEF GetWait, GetWaitAgain, Enter, Readers, shared, Frame, Typed
    <2>2. ScannedTo(t) \in Nat
      BY ScannedToTyped
    <2>3. /\ \A i \in DOMAIN queue : queue[i].msg \notin req[t].pat
          /\ ScannedTo(t) <= sequence_next
      BY <2>1, NothingFound
    <2> QED
      BY <2>1, <2>2, <2>3, BlockStep
  <1>3. CASE GetInterrupted(t) \/ GetTimeout(t)
    <2>1. /\ UNCHANGED <<queue, sequence_next, destroyed, seen>>
          /\ \E o : Release(t, o, {})
          /\ pc[t] # "woken"
      BY <1>3 DEF GetInterrupted, GetTimeout, LeaveGet, Interrupted, TimedOut
    <2> QED
      BY <2>1, ReleaseWake
  <1>4. CASE GetDestroyed(t)
    BY <1>4, LeaveDestroyedWake DEF GetDestroyed, LeaveGet
  <1> QED
    BY <1>1, <1>2, <1>3, <1>4 DEF GetStep

(* Those who wait are woken when the queue is destroyed, because the       *)
(* counters are at least the number of threads they count.                 *)
LEMMA AllWoken ==
  ASSUME Typed, Counted
  PROVE  (IF waiting > 0 THEN BlockedReaders ELSE {}) \cup
         (IF wait_for_drain > 0 THEN BlockedWriters ELSE {})
           = BlockedReaders \cup BlockedWriters
  <1>1. Readers # {} => waiting > 0
    BY FiniteWaiters, FS_EmptySet, FS_CardinalityType DEF Counted
  <1>2. Writers # {} => wait_for_drain > 0
    BY FiniteWaiters, FS_EmptySet, FS_CardinalityType DEF Counted, Typed
  <1>3. BlockedReaders \subseteq Readers /\ BlockedWriters \subseteq Writers
    BY DEF BlockedReaders, BlockedWriters
  <1> QED
    BY <1>1, <1>2, <1>3

LEMMA OtherWake ==
  ASSUME Typed, Counted, WakeInv, Deletion, NEW t \in Threads,
         OtherStep(t)
  PROVE  WakeInv'
  <1>1. CASE Peek(t) \/ PropertyFind(t) \/ DestroyDenied(t)
    <2>1. /\ UNCHANGED <<queue, sequence_next, destroyed, seen>>
          /\ \E o : Release(t, o, {})
          /\ pc[t] # "woken"
      BY <1>1 DEF Peek, PropertyFind, DestroyDenied, Enter, shared
    <2> QED
      BY <2>1, ReleaseWake
  <1>2. CASE PropertyRead(t) \/ DestroyFind(t)
    <2>1. /\ UNCHANGED <<queue, sequence_next, destroyed, seen>>
          /\ Frame(t, {}) /\ pc'[t] # "wait" /\ pc[t] # "woken"
          /\ req'[t] = req[t] \/ req'[t].call # "get"
      BY <1>2 DEF PropertyRead, DestroyFind, Enter, shared, Frame, Typed, NoReq
    <2>2. seen' \in [Threads -> Nat] /\ seen'[t] = seen[t]
      BY <2>1 DEF Typed
    <2> QED
      BY <2>1, <2>2, QuietStep
  <1>3. CASE Destroy(t)
    <2>1. /\ Release(t, "ok", BlockedReaders \cup BlockedWriters)
          /\ UNCHANGED <<queue, sequence_next, seen>>
      BY <1>3, AllWoken DEF Destroy
    <2>2. /\ Frame(t, BlockedReaders \cup BlockedWriters)
          /\ pc'[t] \notin WaitPC
          /\ req'[t] = req[t] \/ req'[t].call # "get"
      BY <2>1, ReleaseFrame DEF NoReq
    <2>3. Ordered' /\ SeenSound'
      BY <2>1, <2>2, SeenStep DEF Frame
    <2>4. \A u \in Threads : pc'[u] # "wait" \/ u \notin (Readers \cup Writers)'
      BY <2>2 DEF Frame, BlockedReaders, BlockedWriters, Readers, Writers,
                  WaitPC
    <2> QED
      BY <2>3, <2>4, AwakeStep
  <1>4. CASE Delete(t)
    <2>1. /\ destroyed /\ queue' = <<>> /\ Frame(t, {})
          /\ UNCHANGED <<sequence_next, destroyed, seen>>
          /\ pc'[t] # "wait"
          /\ req'[t] = req[t] \/ req'[t].call # "get"
      BY <1>4 DEF Delete, AfterRelease, Deletion, Over, Frame, NoReq, Typed
    <2>2. Ordered' /\ SeenSound'
      BY <2>1, SeenStep DEF Frame
    <2>3. \A u \in Threads : pc'[u] # "wait" \/ u \notin (Readers \cup Writers)'
      BY <2>1 DEF Frame, WakeInv, DestroyedAwake, Readers, Writers, WaitPC
    <2> QED
      BY <2>2, <2>3, AwakeStep
  <1> QED
    BY <1>1, <1>2, <1>3, <1>4 DEF OtherStep

LEMMA ThreadWake ==
  ASSUME Typed, WakeInv, NEW t \in Threads,
         \/ \E r \in Request : Begin(t, r)
         \/ Lookup(t) \/ EnterDestroyed(t)
         \/ HandleAndRetry(t) \/ HandleAndFail(t)
         \/ Tick(t) \/ Expire(t) \/ RaiseSignal(t)
  PROVE  WakeInv'
  <1>1. CASE \/ \E r \in Request : Begin(t, r)
             \/ HandleAndRetry(t)
    <2>1. /\ UNCHANGED <<queue, sequence_next, destroyed>>
          /\ Frame(t, {}) /\ seen' \in [Threads -> Nat]
          /\ pc'[t] # "wait" /\ pc[t] # "woken" /\ seen'[t] = 0
      <3>1. CASE HandleAndRetry(t)
        BY <3>1 DEF HandleAndRetry, EntryPC, shared, Frame, Typed
      <3>2. ASSUME NEW r \in Request, Begin(t, r)
            PROVE  /\ UNCHANGED <<queue, sequence_next, destroyed>>
                   /\ Frame(t, {}) /\ seen' \in [Threads -> Nat]
                   /\ pc'[t] # "wait" /\ pc[t] # "woken" /\ seen'[t] = 0
        BY <3>2 DEF Begin, EntryPC, shared, Frame, Typed
      <3> QED
        BY <1>1, <3>1, <3>2
    <2> QED
      BY <2>1, QuietStep
  <1>2. CASE \/ Lookup(t) \/ EnterDestroyed(t) \/ HandleAndFail(t)
             \/ Tick(t) \/ Expire(t)
    <2>1. /\ UNCHANGED <<queue, sequence_next, destroyed, seen>>
          /\ Frame(t, {}) /\ pc'[t] # "wait" /\ pc[t] # "woken"
          /\ req'[t] = req[t] \/ req'[t].call # "get"
      BY <1>2 DEF Lookup, EnterDestroyed, HandleAndFail, Tick, Expire,
                  BlockedReaders, BlockedWriters, shared, Frame, NoReq, Typed
    <2>2. seen' \in [Threads -> Nat] /\ seen'[t] = seen[t]
      BY <2>1 DEF Typed
    <2> QED
      BY <2>1, <2>2, QuietStep
  <1>3. CASE RaiseSignal(t)
    BY <1>3 DEF RaiseSignal, shared, WakeInv, Ordered, SeenSound,
                DestroyedAwake, PatternBlocked, VarBlocked, WriterBlocked,
                BlockedReaders, BlockedWriters, WokenVar, WokenWriters,
                VarReaders, Readers, Writers
  <1> QED
    BY <1>1, <1>2, <1>3

LEMMA ExitWake ==
  ASSUME Typed, Counted, WakeInv, Collect \/ ExitStart \/ ExitStep
  PROVE  WakeInv'
  <1>1. CASE Collect
    <2>1. Ordered' /\ SeenSound'
      BY <1>1, KindAssumption, SeenStep DEF Collect
    <2>2. \A u \in Threads : pc'[u] # "wait"
      BY <1>1 DEF Collect
    <2> QED
      BY <2>1, <2>2, AwakeStep
  <1>2. CASE ExitStart \/ ExitFree
    <2>1. /\ UNCHANGED <<queue, sequence_next, destroyed, seen>>
          /\ Frame(Owner, {}) /\ pc'[Owner] # "wait" /\ pc[Owner] # "woken"
          /\ req'[Owner] = req[Owner]
      BY <1>2, KindAssumption DEF ExitStart, ExitFree, shared, Frame, Typed
    <2>2. seen' \in [Threads -> Nat] /\ seen'[Owner] = seen[Owner]
      BY <2>1 DEF Typed
    <2> QED
      BY <2>1, <2>2, KindAssumption, QuietStep
  <1>3. CASE ExitBroadcast
    <2>1. /\ Goto(Owner, "exit", BlockedReaders \cup BlockedWriters)
          /\ UNCHANGED <<queue, sequence_next, seen, req>>
      BY <1>3, AllWoken DEF ExitBroadcast
    <2>2. Ordered' /\ SeenSound'
      BY <2>1, KindAssumption, SeenStep
    <2>3. \A u \in Threads : pc'[u] # "wait" \/ u \notin (Readers \cup Writers)'
      BY <2>1 DEF Goto, BlockedReaders, BlockedWriters, Readers, Writers,
                  WaitPC
    <2> QED
      BY <2>2, <2>3, AwakeStep
  <1>4. CASE ExitDestroy
    <2>1. Readers = {} /\ Writers = {}
      <3>1. Cardinality(Readers) \in Nat /\ Cardinality(Writers) \in Nat
        BY FiniteWaiters, FS_CardinalityType
      <3>2. Cardinality(Readers) = 0 /\ Cardinality(Writers) = 0
        BY <1>4, <3>1 DEF ExitDestroy, Counted
      <3> QED
        BY <3>2, FiniteWaiters, FS_EmptySet
    <2>2. /\ queue' = <<>> /\ UNCHANGED <<sequence_next, seen, req>>
          /\ \A u \in Threads : pc'[u] = pc[u] \/ pc'[u] \notin WaitPC
      BY <1>4 DEF ExitDestroy, WaitPC, Typed
    <2>3. Ordered' /\ SeenSound'
      BY <2>2, KindAssumption, SeenStep
    <2>4. \A u \in Threads : pc'[u] # "wait" \/ u \notin (Readers \cup Writers)'
      BY <2>1, <2>2 DEF Readers, Writers
    <2> QED
      BY <2>3, <2>4, AwakeStep
  <1> QED
    BY <1>1, <1>2, <1>3, <1>4 DEF ExitStep

LEMMA WakeInvariant == Spec => []WakeInv
  <1>1. Init => WakeInv
    <2> SUFFICES ASSUME Init PROVE WakeInv
      OBVIOUS
    <2>1. BlockedReaders = {} /\ BlockedWriters = {} /\ DOMAIN queue = {}
      BY DEF Init, BlockedReaders, BlockedWriters, Readers, Writers, WaitPC
    <2> QED
      BY <2>1 DEF Init, WakeInv, Ordered, SeenSound, DestroyedAwake,
                  PatternBlocked, VarBlocked, WriterBlocked
  <1>2. Typed /\ Counted /\ Deletion /\ WakeInv /\ [Next]_vars
          => WakeInv'
    <2> SUFFICES ASSUME Typed, Counted, Deletion, WakeInv,
                        [Next]_vars
                 PROVE  WakeInv'
      OBVIOUS
    <2>1. ASSUME NEW t \in Threads, Step(t) PROVE WakeInv'
      BY <2>1, SendWake, GetWake, OtherWake, ThreadWake DEF Step
    <2>2. CASE UNCHANGED vars
      BY <2>2 DEF vars, shared, WakeInv, Ordered, SeenSound, DestroyedAwake,
                  PatternBlocked, VarBlocked, WriterBlocked, BlockedReaders,
                  BlockedWriters, WokenVar, WokenWriters, VarReaders,
                  Readers, Writers
    <2> QED
      BY <2>1, <2>2, ThreadWake, ExitWake DEF Next
  <1> QED
    BY <1>1, <1>2, TypedInvariant, CountedInvariant, DeletionInvariant, PTL
    DEF Spec

-----------------------------------------------------------------------------
(* The choice in queue_message() between pthread_cond_signal() and         *)
(* pthread_cond_broadcast() loses no wakeup, for any number of readers and *)
(* any patterns: the counters waiting and waiting_var say enough.          *)
THEOREM NoWakeupLost == Spec => []NoLostWakeup
  <1>1. Typed /\ WakeInv => NoLostWakeup
    <2> SUFFICES ASSUME Typed, WakeInv, NEW t \in BlockedReaders,
                        NEW i \in DOMAIN queue, queue[i].msg \in req[t].pat
                 PROVE  \E u \in Readers :
                          pc[u] = "woken" /\ queue[i].msg \in req[u].pat
      BY DEF NoLostWakeup
    <2>1. req[t].pat = AnyMsg
      BY DEF WakeInv, PatternBlocked
    <2>2. Len(queue) <= Cardinality(WokenVar) /\ Len(queue) > 0
      BY <2>1, ElementTypes DEF WakeInv, VarBlocked
    <2>3. WokenVar # {}
      <3>1. Cardinality(WokenVar) # 0
        BY <2>2, FiniteWokenNext, ElementTypes
      <3> QED
        BY <3>1, FS_EmptySet
    <2>4. PICK u \in WokenVar : TRUE
      BY <2>3
    <2>5. u \in Readers /\ pc[u] = "woken" /\ req[u].pat = AnyMsg
      BY <2>4 DEF WokenVar, VarReaders
    <2> QED
      BY <2>5, ElementTypes DEF AnyMsg
  <1> QED
    BY <1>1, TypedInvariant, WakeInvariant, PTL

(* One pthread_cond_signal() on drain_var for each message taken is enough *)
(* for a bounded queue: room that no running writer is about to fill never *)
(* goes unnoticed by the writers that are blocked.                         *)
THEOREM NoDrainLost == Spec => []NoLostDrain
  <1>1. WakeInv => NoLostDrain
    BY DEF WakeInv, WriterBlocked, WokenWriters, NoLostDrain
  <1> QED
    BY <1>1, WakeInvariant, PTL

(* A queue never holds more messages than its max_size.                    *)
THEOREM BoundedSize == Spec => []SizeBounded
  <1>1. Init => SizeBounded
    BY DataAssumption DEF Init, SizeBounded
  <1>2. Typed /\ SizeBounded /\ [Next]_vars => SizeBounded'
    <2> SUFFICES ASSUME Typed, SizeBounded, [Next]_vars, MaxSize > 0
                 PROVE  Len(queue') <= MaxSize
      BY DEF SizeBounded
    <2>1. Len(queue) <= MaxSize /\ Len(queue) \in Nat /\ MaxSize \in Nat
      BY ElementTypes, DataAssumption DEF SizeBounded
    <2>2. ASSUME NEW t \in Threads, AppendMessage(t), ~Full
          PROVE  Len(queue') <= MaxSize
      <3> DEFINE e == [id |-> sequence_next', msg |-> req[t].msg]
      <3>1. queue \in Seq(Message) /\ queue' = Append(queue, e)
        BY <2>2 DEF AppendMessage, Typed
      <3> HIDE DEF e
      <3>2. Len(queue') = Len(queue) + 1
        BY <3>1
      <3> QED
        BY <2>1, <2>2, <3>2 DEF Full
    <2>3. ASSUME NEW t \in Threads, TakeFirst(t)
          PROVE  Len(queue') <= MaxSize
      <3>1. PICK i \in DOMAIN queue : queue' = RemoveAt(queue, i)
        BY <2>3 DEF TakeFirst, Candidates, Unseen
      <3> QED
        BY <2>1, <3>1, RemoveAtType DEF Typed
    <2>4. ASSUME queue' = queue \/ queue' = <<>>
          PROVE  Len(queue') <= MaxSize
      BY <2>1, <2>4
    <2>5. ASSUME NEW t \in Threads, SendStep(t) PROVE Len(queue') <= MaxSize
      BY <2>2, <2>4, <2>5
      DEF SendStep, SendNow, SendWait, SendInterrupted, SendTimeout,
          SendDestroyed, SendWaitAgain, SendDrained, shared
    <2>6. ASSUME NEW t \in Threads, GetStep(t) PROVE Len(queue') <= MaxSize
      BY <2>3, <2>4, <2>6
      DEF GetStep, GetNow, GetWait, GetInterrupted, GetTimeout, GetDestroyed,
          GetTake, GetWaitAgain, LeaveGet, shared
    <2>7. ASSUME NEW t \in Threads, OtherStep(t) PROVE Len(queue') <= MaxSize
      BY <2>4, <2>7
      DEF OtherStep, Peek, PropertyFind, PropertyRead, DestroyDenied,
          DestroyFind, Destroy, Delete, shared
    <2>8. ASSUME NEW t \in Threads,
                 \/ \E r \in Request : Begin(t, r)
                 \/ Lookup(t) \/ EnterDestroyed(t)
                 \/ HandleAndRetry(t) \/ HandleAndFail(t)
                 \/ Tick(t) \/ Expire(t) \/ RaiseSignal(t)
          PROVE  Len(queue') <= MaxSize
      BY <2>4, <2>8
      DEF Begin, Lookup, EnterDestroyed, HandleAndRetry, HandleAndFail, Tick,
          Expire, RaiseSignal, shared
    <2>9. CASE Collect \/ ExitStart \/ ExitStep \/ UNCHANGED vars
      BY <2>4, <2>9
      DEF Collect, ExitStart, ExitStep, ExitBroadcast, ExitDestroy, ExitFree,
          vars, shared
    <2> QED
      BY <2>5, <2>6, <2>7, <2>8, <2>9 DEF Next, Step
  <1> QED
    BY <1>1, <1>2, TypedInvariant, PTL DEF Spec

-----------------------------------------------------------------------------
(***************************************************************************)
(* The queue implements MessageChannel.                                    *)
(***************************************************************************)

(* What the refinement maps to the variables of MessageChannel. *)
Contents(s) == [i \in DOMAIN s |-> s[i].msg]
chanBar == IF live THEN Contents(queue) ELSE <<>>
callBar == [t \in Threads |-> IF Pending(t) THEN req[t] ELSE NoReq]
replyBar == [t \in Threads |-> IF Pending(t) THEN "none" ELSE outcome[t]]

(* What is known of a thread's call r, with result o and signal s, at p. *)
CallPlace(t, p, r, o, s) ==
  /\ p \in {"idle", "exit", "reap", "gone"} <=> r = NoReq
  /\ p \in WaitPC \cup {"lookup", "lockq", "destroy"} => o = "none"
  /\ p = "handle" => o = "intr"
  /\ p = "prop" => o = "ok"
  /\ p = "del" => o # "none"
  /\ o = "intr" => /\ p \in {"handle", "del"} /\ t \in Signalled
                   /\ r.call \in {"send", "get"}
  /\ s => t \in Signalled
  /\ p = "expired" => r.deadline
  /\ p = "destroy" => r.call = "destroy"

(* A queue that is gone, or cannot be found, is closed. *)
CallInv ==
  /\ \A t \in Threads : CallPlace(t, pc[t], req[t], outcome[t], sig[t])
  /\ freed => destroyed \/ Kind = "anon"
  /\ ~inTable => destroyed \/ freed
  /\ pc[Owner] \in {"reap", "gone"} => destroyed

ChanInv == Typed /\ Counted /\ Deletion /\ WakeInv /\ CallInv

Refines == CallInv' /\ [Channel!Next]_Channel!vars

(* The other threads are at most woken. *)
Aside(t) ==
  \A u \in Threads \ {t} :
    /\ req'[u] = req[u] /\ outcome'[u] = outcome[u] /\ sig'[u] = sig[u]
    /\ pc'[u] = pc[u] \/ (pc[u] = "wait" /\ pc'[u] = "woken")

LEMMA PlaceStep ==
  ASSUME CallInv, NEW t \in Threads, Aside(t),
         CallPlace(t, pc'[t], req'[t], outcome'[t], sig'[t]),
         destroyed => destroyed', freed' = freed \/ destroyed',
         inTable' = inTable \/ destroyed',
         pc'[t] \in {"reap", "gone"} => destroyed'
  PROVE  CallInv'
  <1>1. ASSUME NEW u \in Threads \ {t}
        PROVE  CallPlace(u, pc'[u], req'[u], outcome'[u], sig'[u])
    <2>1. CallPlace(u, pc[u], req[u], outcome[u], sig[u])
      BY DEF CallInv
    <2> QED
      BY <2>1 DEF Aside, CallPlace, WaitPC
  <1>2. pc'[Owner] \in {"reap", "gone"} => destroyed'
    BY KindAssumption DEF Aside, CallInv
  <1> QED
    BY <1>1, <1>2 DEF CallInv

(* The calls of MessageChannel after a step of thread t. *)
LEMMA Bars ==
  ASSUME NEW t \in Threads, Aside(t)
  PROVE  /\ callBar' = [callBar EXCEPT ![t] =
              IF outcome'[t] \in {"none", "intr"} THEN req'[t] ELSE NoReq]
         /\ replyBar' = [replyBar EXCEPT ![t] =
              IF outcome'[t] \in {"none", "intr"} THEN "none" ELSE outcome'[t]]
         /\ callBar[t] =
              IF outcome[t] \in {"none", "intr"} THEN req[t] ELSE NoReq
         /\ replyBar[t] =
              IF outcome[t] \in {"none", "intr"} THEN "none" ELSE outcome[t]
  BY DEF Aside, callBar, replyBar, Pending

LEMMA SilentStep ==
  ASSUME NEW t \in Threads, Aside(t), UNCHANGED got,
         live' = live, chanBar' = chanBar,
         callBar'[t] = callBar[t], replyBar'[t] = replyBar[t]
  PROVE  UNCHANGED Channel!vars
  <1>1. callBar' = callBar /\ replyBar' = replyBar
    BY DEF Aside, callBar, replyBar, Pending
  <1> QED
    BY <1>1 DEF Channel!vars, chanBar, callBar, replyBar, Contents

LEMMA ChannelReturn ==
  ASSUME NEW t \in Threads, Aside(t), NEW r, r \notin {"none", "intr"},
         outcome'[t] = r
  PROVE  Channel!Return(t, r)
  BY Bars DEF Channel!Return, Channel!NoReq, NoReq, callBar, replyBar

(* The contents of a queue that is not touched, or is closed. *)
LEMMA ChanKept ==
  ASSUME UNCHANGED <<destroyed, freed>>, queue' = queue \/ ~live
  PROVE  live' = live /\ chanBar' = chanBar
  BY DEF live, chanBar, Contents

(* A thread that is in a call on a queue that is not destroyed. *)
LEMMA CallOpen ==
  ASSUME ChanInv, NEW t \in Threads, pc[t] # "idle", ~destroyed
  PROVE  live /\ chanBar = Contents(queue)
  BY DEF ChanInv, CallInv, Deletion, live, chanBar

(* A call that has not returned is the one that MessageChannel sees. *)
LEMMA CallPending ==
  ASSUME ChanInv, NEW t \in Threads,
         pc[t] \in WaitPC \cup {"lookup", "lockq", "destroy", "handle"}
  PROVE  /\ callBar[t] = req[t] /\ replyBar[t] = "none"
         /\ req[t] \in Request /\ req[t] # NoReq
  <1>1. CallPlace(t, pc[t], req[t], outcome[t], sig[t])
    BY DEF ChanInv, CallInv
  <1>2. outcome[t] \in {"none", "intr"} /\ req[t] # NoReq
    BY <1>1 DEF CallPlace, WaitPC
  <1>3. req[t] \in Request \cup {NoReq}
    BY DEF ChanInv, Typed
  <1> QED
    BY <1>2, <1>3 DEF callBar, replyBar, Pending

LEMMA RequestIsCall == NoReq \notin Request
  BY DEF NoReq, Request, SendReq, GetReq, PeekReq, OtherReq

-----------------------------------------------------------------------------
(* Calls that end, and calls that are interrupted. *)

(* release_message_queue() with result o. *)
LEMMA ReleaseStep ==
  ASSUME ChanInv, NEW t \in Threads, NEW o \in Outcomes \ {"none"}, NEW woken,
         woken \subseteq BlockedReaders \cup BlockedWriters,
         Release(t, o, woken), UNCHANGED sig,
         pc[t] \in WaitPC \cup {"lockq", "destroy"},
         o = "intr" => t \in Signalled /\ req[t].call \in {"send", "get"},
         destroyed => destroyed', UNCHANGED freed,
         inTable' = inTable \/ destroyed'
  PROVE  /\ Aside(t) /\ CallInv' /\ outcome'[t] = o
         /\ o = "intr" => req'[t] = req[t]
  <1>0. Typed
    BY DEF ChanInv
  <1>1. SameOthers(t)
    BY <1>0, ReleaseOthers
  <1>2. /\ outcome'[t] = o
        /\ \A u \in Threads \ {t} :
             /\ outcome'[u] = outcome[u]
             /\ pc'[u] = IF u \in woken THEN "woken" ELSE pc[u]
    BY <1>0 DEF Release, Goto, Typed
  <1>3. Aside(t)
    BY <1>1, <1>2 DEF Aside, SameOthers, BlockedReaders, BlockedWriters
  <1>4. CallPlace(t, pc[t], req[t], outcome[t], sig[t])
    BY DEF ChanInv, CallInv
  <1>5. req[t] # NoReq /\ NoReq.call = "none"
    BY <1>4 DEF CallPlace, WaitPC, NoReq
  <1>6. \/ pc'[t] = "del" /\ req'[t] = req[t]
        \/ /\ pc'[t] = AfterRelease(o, req[t].call)
           /\ req'[t] = IF pc'[t] = "idle" THEN NoReq ELSE req[t]
    BY <1>0 DEF Release, Goto, AfterRelease, Typed
  <1>7. CallPlace(t, pc'[t], req'[t], o, sig'[t])
    BY <1>4, <1>5, <1>6 DEF CallPlace, AfterRelease, WaitPC
  <1>8. pc'[t] \notin {"reap", "gone"}
    BY <1>6 DEF AfterRelease
  <1>9. CallInv'
    BY <1>2, <1>3, <1>7, <1>8, PlaceStep DEF ChanInv
  <1>10. o = "intr" => req'[t] = req[t]
    BY <1>6 DEF AfterRelease
  <1> QED
    BY <1>2, <1>3, <1>9, <1>10

(* A call ends without a message, or is interrupted, and leaves the queue  *)
(* alone.                                                                  *)
LEMMA LeaveStep ==
  ASSUME ChanInv, NEW t \in Threads, NEW o \in Outcomes \ {"none"},
         Release(t, o, {}), UNCHANGED <<queue, destroyed, inTable, freed, sig, got>>,
         pc[t] \in WaitPC \cup {"lockq"},
         \/ o = "intr" /\ t \in Signalled /\ req[t].call \in {"send", "get"}
         \/ o = "fail" /\ req[t].call \in {"send", "get"} /\ req[t].deadline
         \/ o = "existence" /\ destroyed
         \/ o = "ok" /\ req[t].call = "property" /\ ~destroyed
         \/ o = "permission" /\ req[t].call = "destroy" /\ ~destroyed
            /\ Kind = "thread"
         \/ o = "fail" /\ req[t].call = "peek" /\ ~destroyed
            /\ \A i \in DOMAIN queue : queue[i].msg \notin req[t].pat
  PROVE  Refines
  <1>1. /\ Aside(t) /\ CallInv' /\ outcome'[t] = o
        /\ o = "intr" => req'[t] = req[t]
    BY ReleaseStep
  <1>2. live' = live /\ chanBar' = chanBar
    BY ChanKept
  <1>3. callBar[t] = req[t] /\ replyBar[t] = "none" /\ req[t] # NoReq
    BY CallPending
  <1>4. CASE o = "intr"
    <2>1. callBar'[t] = callBar[t] /\ replyBar'[t] = replyBar[t]
      <3>1. t \in DOMAIN callBar /\ t \in DOMAIN replyBar
        BY DEF callBar, replyBar
      <3> QED
        BY <1>1, <1>3, <1>4, <3>1, Bars
    <2> QED
      BY <1>1, <1>2, <2>1, SilentStep DEF Refines
  <1>5. CASE o # "intr"
    <2>1. Channel!Return(t, o)
      BY <1>1, <1>5, ChannelReturn
    <2>2. ~destroyed => live /\ chanBar = Contents(queue)
      BY CallOpen DEF WaitPC
    <2>3. CASE o = "fail" /\ req[t].call \in {"send", "get"} /\ req[t].deadline
      <3>1. Channel!Timeout(t)
        BY <1>2, <1>3, <2>1, <2>3
        DEF Channel!Timeout, callBar, chanBar, Contents
      <3> QED
        BY <1>1, <3>1 DEF Refines, Channel!Next
    <2>4. CASE o = "existence" /\ destroyed
      <3>1. Channel!NoSuchQueue(t)
        BY <1>2, <1>3, <2>1, <2>4
        DEF Channel!NoSuchQueue, Channel!NoReq, NoReq, callBar, chanBar,
            Contents, live
      <3> QED
        BY <1>1, <3>1 DEF Refines, Channel!Next
    <2>5. CASE o = "ok" /\ req[t].call = "property" /\ ~destroyed
      <3>1. Channel!Property(t)
        BY <1>2, <1>3, <2>1, <2>2, <2>5
        DEF Channel!Property, callBar, chanBar, Contents
      <3> QED
        BY <1>1, <3>1 DEF Refines, Channel!Next
    <2>6. CASE o = "permission" /\ req[t].call = "destroy" /\ ~destroyed
               /\ Kind = "thread"
      <3>1. Channel!Destroy(t)
        BY <1>2, <1>3, <2>1, <2>2, <2>6
        DEF Channel!Destroy, callBar, chanBar, Contents
      <3> QED
        BY <1>1, <3>1 DEF Refines, Channel!Next
    <2>7. CASE o = "fail" /\ req[t].call = "peek" /\ ~destroyed
               /\ \A i \in DOMAIN queue : queue[i].msg \notin req[t].pat
      <3>1. \A i \in DOMAIN chanBar : chanBar[i] \notin callBar[t].pat
        BY <1>3, <2>2, <2>7 DEF Contents
      <3>2. Channel!Matching(t) = {}
        BY <3>1 DEF Channel!Matching, chanBar, callBar, Contents
      <3>3. Channel!Peek(t)
        BY <1>2, <1>3, <2>1, <2>2, <2>7, <3>2
        DEF Channel!Peek, callBar, chanBar, Contents
      <3> QED
        BY <1>1, <3>3 DEF Refines, Channel!Next
    <2> QED
      BY <1>5, <2>3, <2>4, <2>5, <2>6, <2>7
  <1> QED
    BY <1>4, <1>5

(* A step within a call that MessageChannel does not see. *)
LEMMA WithinStep ==
  ASSUME ChanInv, NEW t \in Threads, Aside(t),
         UNCHANGED <<queue, destroyed, freed, inTable, got>>,
         req'[t] = req[t],
         pc[t] \in WaitPC \cup {"lookup", "lockq", "handle"},
         pc'[t] \in WaitPC \cup {"lookup", "lockq", "destroy"},
         outcome'[t] = "none", sig'[t] => t \in Signalled,
         pc'[t] = "expired" => req[t].deadline,
         pc'[t] = "destroy" => req[t].call = "destroy"
  PROVE  Refines
  <1>1. callBar[t] = req[t] /\ replyBar[t] = "none" /\ req[t] # NoReq
    BY CallPending
  <1>2. CallPlace(t, pc'[t], req'[t], outcome'[t], sig'[t])
    BY <1>1 DEF CallPlace, WaitPC
  <1>3. CallInv'
    BY <1>2, PlaceStep DEF ChanInv, WaitPC
  <1>4. live' = live /\ chanBar' = chanBar
    BY ChanKept
  <1>5. callBar'[t] = callBar[t] /\ replyBar'[t] = replyBar[t]
    <2>1. t \in DOMAIN callBar /\ t \in DOMAIN replyBar
      BY DEF callBar, replyBar
    <2> QED
      BY <1>1, <2>1, Bars
  <1> QED
    BY <1>3, <1>4, <1>5, SilentStep DEF Refines

-----------------------------------------------------------------------------
(* Messages that come and go. *)

LEMMA ContentsType ==
  ASSUME NEW s \in Seq(Message)
  PROVE  /\ Contents(s) \in Seq(Msgs) /\ Len(Contents(s)) = Len(s)
         /\ DOMAIN Contents(s) = 1 .. Len(s) /\ DOMAIN s = 1 .. Len(s)
         /\ \A i \in 1 .. Len(s) : Contents(s)[i] = s[i].msg
  <1>1. DOMAIN s = 1 .. Len(s) /\ Len(s) \in Nat
    OBVIOUS
  <1>2. \A i \in 1 .. Len(s) : s[i].msg \in Msgs
    <2>1. \A i \in 1 .. Len(s) : s[i] \in Message
      BY <1>1
    <2> QED
      BY <2>1 DEF Message
  <1>3. Contents(s) \in [1 .. Len(s) -> Msgs]
    BY <1>1, <1>2 DEF Contents
  <1>4. Contents(s) \in Seq(Msgs)
    BY <1>1, <1>3
  <1>5. DOMAIN Contents(s) = 1 .. Len(s)
    BY <1>3
  <1>6. Len(Contents(s)) = Len(s)
    BY <1>1, <1>4, <1>5
  <1> QED
    BY <1>1, <1>4, <1>5, <1>6 DEF Contents

(* Two sequences of messages are the same if they agree everywhere. *)
LEMMA SameSequence ==
  ASSUME NEW S, NEW a \in Seq(S), NEW b \in Seq(S), Len(a) = Len(b),
         \A i \in 1 .. Len(a) : a[i] = b[i]
  PROVE  a = b
  OBVIOUS

LEMMA ContentsAppend ==
  ASSUME NEW s \in Seq(Message), NEW e \in Message
  PROVE  Contents(Append(s, e)) = Append(Contents(s), e.msg)
  <1> DEFINE c == Contents(Append(s, e))
             d == Append(Contents(s), e.msg)
  <1>1. e.msg \in Msgs
    BY DEF Message
  <1>2. /\ Append(s, e) \in Seq(Message) /\ Len(Append(s, e)) = Len(s) + 1
        /\ Len(s) \in Nat
        /\ \A i \in 1 .. Len(s) : Append(s, e)[i] = s[i]
        /\ Append(s, e)[Len(s) + 1] = e
    OBVIOUS
  <1>3. /\ c \in Seq(Msgs) /\ Len(c) = Len(s) + 1
        /\ \A i \in 1 .. (Len(s) + 1) : c[i] = Append(s, e)[i].msg
    BY <1>2, ContentsType
  <1>4. /\ Contents(s) \in Seq(Msgs) /\ Len(Contents(s)) = Len(s)
        /\ \A i \in 1 .. Len(s) : Contents(s)[i] = s[i].msg
    BY ContentsType
  <1>5. /\ d \in Seq(Msgs) /\ Len(d) = Len(s) + 1
        /\ \A i \in 1 .. Len(s) : d[i] = Contents(s)[i]
        /\ d[Len(s) + 1] = e.msg
    BY <1>1, <1>4
  <1> HIDE DEF c, d
  <1>6. \A i \in 1 .. (Len(s) + 1) : c[i] = d[i]
    <2>1. \A i \in 1 .. Len(s) : c[i] = d[i]
      BY <1>2, <1>3, <1>4, <1>5
    <2>2. c[Len(s) + 1] = d[Len(s) + 1]
      BY <1>2, <1>3, <1>5
    <2> QED
      BY <1>2, <2>1, <2>2
  <1>7. c = d
    BY <1>3, <1>5, <1>6, SameSequence
  <1> QED
    BY <1>7 DEF c, d

LEMMA ContentsRemove ==
  ASSUME NEW s \in Seq(Message), NEW i \in DOMAIN s
  PROVE  Contents(RemoveAt(s, i)) = RemoveAt(Contents(s), i)
  <1> DEFINE c == Contents(RemoveAt(s, i))
             d == RemoveAt(Contents(s), i)
  <1>1. /\ RemoveAt(s, i) \in Seq(Message)
        /\ Len(RemoveAt(s, i)) = Len(s) - 1
        /\ \A j \in 1 .. (i - 1) : RemoveAt(s, i)[j] = s[j]
        /\ \A j \in i .. (Len(s) - 1) : RemoveAt(s, i)[j] = s[j + 1]
    BY RemoveAtType
  <1>2. /\ c \in Seq(Msgs) /\ Len(c) = Len(s) - 1
        /\ \A j \in 1 .. (Len(s) - 1) : c[j] = RemoveAt(s, i)[j].msg
    BY <1>1, ContentsType
  <1>3. /\ Contents(s) \in Seq(Msgs) /\ Len(Contents(s)) = Len(s)
        /\ i \in DOMAIN Contents(s) /\ i \in 1 .. Len(s) /\ Len(s) \in Nat
        /\ \A j \in 1 .. Len(s) : Contents(s)[j] = s[j].msg
    BY ContentsType
  <1>4. /\ d \in Seq(Msgs) /\ Len(d) = Len(s) - 1
        /\ \A j \in 1 .. (i - 1) : d[j] = Contents(s)[j]
        /\ \A j \in i .. (Len(s) - 1) : d[j] = Contents(s)[j + 1]
    BY <1>3, RemoveAtType
  <1> HIDE DEF c, d
  <1>5. ASSUME NEW j \in 1 .. (i - 1) PROVE c[j] = d[j]
    <2>1. j \in 1 .. (Len(s) - 1) /\ j \in 1 .. Len(s)
      BY <1>3
    <2>2. c[j] = RemoveAt(s, i)[j].msg /\ RemoveAt(s, i)[j] = s[j]
      BY <1>1, <1>2, <2>1
    <2>3. d[j] = Contents(s)[j] /\ Contents(s)[j] = s[j].msg
      BY <1>3, <1>4, <2>1
    <2> QED
      BY <2>2, <2>3
  <1>6. ASSUME NEW j \in i .. (Len(s) - 1) PROVE c[j] = d[j]
    <2>1. j \in 1 .. (Len(s) - 1) /\ j + 1 \in 1 .. Len(s)
      BY <1>3
    <2>2. c[j] = RemoveAt(s, i)[j].msg /\ RemoveAt(s, i)[j] = s[j + 1]
      BY <1>1, <1>2, <2>1
    <2>3. d[j] = Contents(s)[j + 1] /\ Contents(s)[j + 1] = s[j + 1].msg
      BY <1>3, <1>4, <2>1
    <2> QED
      BY <2>2, <2>3
  <1>7. \A j \in 1 .. (Len(s) - 1) : c[j] = d[j]
    BY <1>3, <1>5, <1>6
  <1>8. c = d
    BY <1>2, <1>4, <1>7, SameSequence
  <1> QED
    BY <1>8 DEF c, d

(* queue_message() puts its message at the end of a queue with room. *)
LEMMA PutStep ==
  ASSUME ChanInv, NEW t \in Threads, AppendMessage(t), req[t].call = "send",
         pc[t] \in WaitPC \cup {"lockq"}, ~destroyed, ~Full,
         UNCHANGED <<sig, got>>
  PROVE  Refines
  <1>1. PICK woken \in WakeReaders : Release(t, "ok", woken)
    BY DEF AppendMessage
  <1>2. woken \subseteq BlockedReaders \cup BlockedWriters
    BY <1>1, CondSignalSubset DEF WakeReaders
  <1>3. "ok" \in Outcomes \ {"none"}
    BY DEF Outcomes
  <1>4. UNCHANGED <<destroyed, inTable, freed>>
    BY DEF AppendMessage
  <1>5. Aside(t) /\ CallInv' /\ outcome'[t] = "ok"
    BY <1>1, <1>2, <1>3, <1>4, ReleaseStep
  <1>6. Channel!Return(t, "ok")
    BY <1>5, ChannelReturn
  <1>7. live /\ live' /\ chanBar = Contents(queue) /\ chanBar' = Contents(queue')
    BY <1>4, CallOpen DEF chanBar, live, WaitPC, Contents
  <1>8. callBar[t] = req[t] /\ req[t] \in Request
    BY CallPending
  <1>9. req[t].msg \in Msgs
    BY <1>8, RequestFields
  <1>10. /\ queue \in Seq(Message) /\ sequence_next \in Nat
         /\ sequence_next' = sequence_next + 1
         /\ queue' = Append(queue, [id |-> sequence_next', msg |-> req[t].msg])
    BY DEF ChanInv, Typed, AppendMessage
  <1>11. [id |-> sequence_next', msg |-> req[t].msg] \in Message
    BY <1>9, <1>10 DEF Message
  <1>12. chanBar' = Append(chanBar, callBar[t].msg)
    BY <1>7, <1>8, <1>10, <1>11, ContentsAppend
  <1>13. MaxSize > 0 => Len(chanBar) < MaxSize
    <2>1. Len(chanBar) = Len(queue) /\ Len(queue) \in Nat
      BY <1>7, <1>10, ContentsType
    <2> QED
      BY <2>1, DataAssumption DEF Full
  <1>14. Channel!Put(t)
    BY <1>6, <1>7, <1>8, <1>12, <1>13
    DEF Channel!Put, callBar, chanBar, Contents
  <1> QED
    BY <1>5, <1>14 DEF Refines, Channel!Next

(* What get_message() stops at is what MessageChannel finds first. *)
LEMMA CandidatesMatch ==
  ASSUME ChanInv, NEW t \in Threads, req[t].call = "get",
         pc[t] \in WaitPC \cup {"lockq"}, ~destroyed
  PROVE  Candidates(t) = Channel!Matching(t)
  <1>1. chanBar = Contents(queue) /\ callBar[t] = req[t]
    BY CallOpen, CallPending DEF WaitPC
  <1>2. queue \in Seq(Message) /\ seen[t] \in Nat
    BY DEF ChanInv, Typed
  <1>3. /\ DOMAIN chanBar = DOMAIN queue
        /\ \A i \in DOMAIN queue : chanBar[i] = queue[i].msg
    BY <1>1, <1>2, ContentsType
  <1>4. Channel!Matching(t) = {i \in DOMAIN queue : queue[i].msg \in req[t].pat}
    <2>1. Channel!Matching(t) =
            {i \in DOMAIN chanBar : chanBar[i] \in callBar[t].pat}
      BY DEF Channel!Matching, chanBar, callBar, Contents
    <2> QED
      BY <1>1, <1>3, <2>1
  <1>5. \A i \in DOMAIN queue : queue[i].id \in Nat
    BY ElementTypes DEF ChanInv
  <1>6. \A i \in DOMAIN queue :
          queue[i].msg \in req[t].pat => queue[i].id >= seen[t]
    BY <1>2, <1>5 DEF ChanInv, WakeInv, SeenSound
  <1> QED
    BY <1>4, <1>6 DEF Candidates, Unseen

LEMMA ChannelTake ==
  ASSUME ChanInv, NEW t \in Threads, TakeFirst(t), req[t].call = "get",
         pc[t] \in WaitPC \cup {"lockq"}, ~destroyed, UNCHANGED sig
  PROVE  Refines
  <1>1. PICK i \in Candidates(t) :
          /\ \A j \in Candidates(t) : i <= j
          /\ queue' = RemoveAt(queue, i)
          /\ got' = [got EXCEPT ![t] = queue[i].msg]
          /\ UNCHANGED <<destroyed, inTable, freed>>
          /\ \E woken \in WakeWriters : Release(t, "ok", woken)
    BY DEF TakeFirst
  <1>2. PICK woken \in WakeWriters : Release(t, "ok", woken)
    BY <1>1
  <1>3. woken \subseteq BlockedReaders \cup BlockedWriters
    BY <1>2, CondSignalSubset DEF WakeWriters
  <1>4. "ok" \in Outcomes \ {"none"}
    BY DEF Outcomes
  <1>5. Aside(t) /\ CallInv' /\ outcome'[t] = "ok"
    BY <1>1, <1>2, <1>3, <1>4, ReleaseStep
  <1>6. Channel!Return(t, "ok")
    BY <1>5, ChannelReturn
  <1>7. live /\ live' /\ chanBar = Contents(queue) /\ chanBar' = Contents(queue')
    BY <1>1, CallOpen DEF chanBar, live, WaitPC, Contents
  <1>8. callBar[t] = req[t]
    BY CallPending
  <1>9. i \in DOMAIN queue /\ queue \in Seq(Message)
    BY DEF Candidates, Unseen, ChanInv, Typed
  <1>10. i \in DOMAIN chanBar /\ chanBar[i] = queue[i].msg
    BY <1>7, <1>9, ContentsType
  <1>11. Channel!First(Channel!Matching(t), i)
    BY <1>1, CandidatesMatch DEF Channel!First
  <1>12. chanBar' = Channel!Without(chanBar, i)
    BY <1>1, <1>7, <1>9, ContentsRemove DEF Channel!Without, RemoveAt
  <1>13. Channel!Take(t)
    BY <1>1, <1>6, <1>7, <1>8, <1>10, <1>11, <1>12
    DEF Channel!Take, callBar, chanBar, Contents
  <1> QED
    BY <1>5, <1>13 DEF Refines, Channel!Next

(* peek_message() *)
LEMMA ChannelPeek ==
  ASSUME ChanInv, NEW t \in Threads, Peek(t)
  PROVE  Refines
  <1> DEFINE found == {i \in DOMAIN queue : queue[i].msg \in req[t].pat}
  <1>1. /\ pc[t] = "lockq" /\ ~destroyed /\ req[t].call = "peek"
        /\ UNCHANGED <<queue, destroyed, inTable, freed, sig>>
    BY DEF Peek, Enter, shared
  <1>2. CASE found = {}
    <2>1. Release(t, "fail", {}) /\ UNCHANGED got
      BY <1>2 DEF Peek
    <2>2. \A i \in DOMAIN queue : queue[i].msg \notin req[t].pat
      BY <1>2
    <2>3. "fail" \in Outcomes \ {"none"}
      BY DEF Outcomes
    <2> QED
      BY <1>1, <2>1, <2>2, <2>3, LeaveStep
  <1>3. CASE found # {}
    <2>1. PICK i \in found :
            /\ \A j \in found : i <= j
            /\ got' = [got EXCEPT ![t] = queue[i].msg]
            /\ Release(t, "ok", {})
      BY <1>3 DEF Peek
    <2>2. "ok" \in Outcomes \ {"none"}
      BY DEF Outcomes
    <2>3. Aside(t) /\ CallInv' /\ outcome'[t] = "ok"
      BY <1>1, <2>1, <2>2, ReleaseStep
    <2>4. Channel!Return(t, "ok")
      BY <2>3, ChannelReturn
    <2>5. live /\ chanBar = Contents(queue) /\ live' = live /\ chanBar' = chanBar
      BY <1>1, CallOpen, ChanKept
    <2>6. callBar[t] = req[t]
      BY <1>1, CallPending
    <2>7. queue \in Seq(Message)
      BY DEF ChanInv, Typed
    <2>8. /\ DOMAIN chanBar = DOMAIN queue
          /\ \A j \in DOMAIN queue : chanBar[j] = queue[j].msg
      BY <2>5, <2>7, ContentsType
    <2>9. Channel!Matching(t) = found
      <3>1. Channel!Matching(t) =
              {j \in DOMAIN chanBar : chanBar[j] \in callBar[t].pat}
        BY DEF Channel!Matching, chanBar, callBar, Contents
      <3> QED
        BY <2>6, <2>8, <3>1
    <2>10. i \in DOMAIN chanBar /\ Channel!First(Channel!Matching(t), i)
      BY <2>1, <2>8, <2>9 DEF Channel!First
    <2>11. Channel!Peek(t)
      BY <1>1, <2>1, <2>4, <2>5, <2>6, <2>8, <2>10
      DEF Channel!Peek, callBar, chanBar, Contents
    <2> QED
      BY <2>3, <2>11 DEF Refines, Channel!Next
  <1> QED
    BY <1>2, <1>3

-----------------------------------------------------------------------------
(* The calls, step by step. *)

LEMMA ChannelSend ==
  ASSUME ChanInv, NEW t \in Threads, SendStep(t)
  PROVE  Refines
  <1>1. CallPlace(t, pc[t], req[t], outcome[t], sig[t]) /\ Typed
    BY DEF ChanInv, CallInv
  <1>2. CASE SendNow(t) \/ SendDrained(t)
    <2>1. /\ AppendMessage(t) /\ req[t].call = "send" /\ ~destroyed /\ ~Full
          /\ pc[t] \in WaitPC \cup {"lockq"} /\ UNCHANGED <<sig, got>>
      BY <1>2 DEF SendNow, SendDrained, Enter, Writers
    <2> QED
      BY <2>1, PutStep
  <1>3. CASE SendWait(t) \/ SendWaitAgain(t)
    <2>1. /\ Aside(t) /\ UNCHANGED <<queue, destroyed, freed, inTable, got>>
          /\ req'[t] = req[t] /\ outcome'[t] = outcome[t] /\ sig'[t] = sig[t]
          /\ pc[t] \in WaitPC \cup {"lockq"} /\ pc'[t] = "wait"
      BY <1>1, <1>3 DEF SendWait, SendWaitAgain, Enter, Writers, shared, Aside,
                        Typed
    <2> QED
      BY <1>1, <2>1, WithinStep DEF CallPlace, WaitPC
  <1>4. CASE SendInterrupted(t)
    <2>1. /\ Release(t, "intr", {}) /\ pc[t] \in WaitPC
          /\ UNCHANGED <<queue, destroyed, inTable, freed, sig, got>>
          /\ sig[t] /\ req[t].call = "send"
      BY <1>4 DEF SendInterrupted, Interrupted, Writers
    <2> QED
      BY <1>1, <2>1, LeaveStep DEF CallPlace, Outcomes
  <1>5. CASE SendTimeout(t)
    <2>1. /\ Release(t, "fail", {}) /\ pc[t] = "expired"
          /\ UNCHANGED <<queue, destroyed, inTable, freed, sig, got>>
          /\ req[t].call = "send"
      BY <1>5 DEF SendTimeout, TimedOut, Writers, shared
    <2> QED
      BY <1>1, <2>1, LeaveStep DEF CallPlace, Outcomes, WaitPC
  <1>6. CASE SendDestroyed(t)
    <2>1. /\ Release(t, "existence", {}) /\ pc[t] \in WaitPC /\ destroyed
          /\ UNCHANGED <<queue, destroyed, inTable, freed, sig, got>>
      BY <1>6 DEF SendDestroyed, Writers, shared
    <2> QED
      BY <2>1, LeaveStep DEF Outcomes
  <1> QED
    BY <1>2, <1>3, <1>4, <1>5, <1>6 DEF SendStep

LEMMA ChannelGet ==
  ASSUME ChanInv, NEW t \in Threads, GetStep(t)
  PROVE  Refines
  <1>1. CallPlace(t, pc[t], req[t], outcome[t], sig[t]) /\ Typed
    BY DEF ChanInv, CallInv
  <1>2. CASE GetNow(t) \/ GetTake(t)
    <2>1. /\ TakeFirst(t) /\ req[t].call = "get" /\ ~destroyed
          /\ pc[t] \in WaitPC \cup {"lockq"} /\ UNCHANGED sig
      BY <1>2 DEF GetNow, GetTake, Enter, Readers
    <2> QED
      BY <2>1, ChannelTake
  <1>3. CASE GetWait(t) \/ GetWaitAgain(t)
    <2>1. /\ Aside(t) /\ UNCHANGED <<queue, destroyed, freed, inTable, got>>
          /\ req'[t] = req[t] /\ outcome'[t] = outcome[t] /\ sig'[t] = sig[t]
          /\ pc[t] \in WaitPC \cup {"lockq"} /\ pc'[t] = "wait"
      BY <1>1, <1>3 DEF GetWait, GetWaitAgain, Enter, Readers, shared, Aside,
                        Typed
    <2> QED
      BY <1>1, <2>1, WithinStep DEF CallPlace, WaitPC
  <1>4. CASE GetInterrupted(t)
    <2>1. /\ Release(t, "intr", {}) /\ pc[t] \in WaitPC
          /\ UNCHANGED <<queue, destroyed, inTable, freed, sig, got>>
          /\ sig[t] /\ req[t].call = "get"
      BY <1>4 DEF GetInterrupted, LeaveGet, Interrupted, Readers
    <2> QED
      BY <1>1, <2>1, LeaveStep DEF CallPlace, Outcomes
  <1>5. CASE GetTimeout(t)
    <2>1. /\ Release(t, "fail", {}) /\ pc[t] = "expired"
          /\ UNCHANGED <<queue, destroyed, inTable, freed, sig, got>>
          /\ req[t].call = "get"
      BY <1>5 DEF GetTimeout, LeaveGet, TimedOut, Readers
    <2> QED
      BY <1>1, <2>1, LeaveStep DEF CallPlace, Outcomes, WaitPC
  <1>6. CASE GetDestroyed(t)
    <2>1. /\ Release(t, "existence", {}) /\ pc[t] \in WaitPC /\ destroyed
          /\ UNCHANGED <<queue, destroyed, inTable, freed, sig, got>>
      BY <1>6 DEF GetDestroyed, LeaveGet, Readers
    <2> QED
      BY <2>1, LeaveStep DEF Outcomes
  <1> QED
    BY <1>2, <1>3, <1>4, <1>5, <1>6 DEF GetStep

LEMMA ChannelOther ==
  ASSUME ChanInv, NEW t \in Threads, OtherStep(t)
  PROVE  Refines
  <1>1. CallPlace(t, pc[t], req[t], outcome[t], sig[t]) /\ Typed
    BY DEF ChanInv, CallInv
  <1>2. CASE PropertyFind(t)
    <2>1. /\ Release(t, "ok", {}) /\ pc[t] = "lockq" /\ ~destroyed
          /\ req[t].call = "property"
          /\ UNCHANGED <<queue, destroyed, inTable, freed, sig, got>>
      BY <1>2 DEF PropertyFind, Enter, shared
    <2> QED
      BY <2>1, LeaveStep DEF Outcomes
  <1>3. CASE DestroyDenied(t)
    <2>1. /\ Release(t, "permission", {}) /\ pc[t] = "lockq" /\ ~destroyed
          /\ req[t].call = "destroy" /\ Kind = "thread"
          /\ UNCHANGED <<queue, destroyed, inTable, freed, sig, got>>
      BY <1>3 DEF DestroyDenied, Enter, shared
    <2> QED
      BY <2>1, LeaveStep DEF Outcomes
  <1>4. CASE PropertyRead(t)
    <2>1. /\ Aside(t) /\ UNCHANGED <<queue, destroyed, freed, inTable, got>>
          /\ pc[t] = "prop" /\ pc'[t] = "idle" /\ req'[t] = NoReq
          /\ outcome'[t] = outcome[t] /\ sig'[t] = sig[t]
      BY <1>1, <1>4 DEF PropertyRead, shared, Aside, Typed
    <2>2. outcome[t] = "ok"
      BY <1>1, <2>1 DEF CallPlace
    <2>3. CallInv'
      <3>1. CallPlace(t, pc'[t], req'[t], outcome'[t], sig'[t])
        BY <1>1, <2>1, <2>2 DEF CallPlace, WaitPC
      <3> QED
        BY <2>1, <3>1, PlaceStep DEF ChanInv
    <2>4. callBar'[t] = callBar[t] /\ replyBar'[t] = replyBar[t]
      BY <2>1, <2>2 DEF callBar, replyBar, Pending
    <2>5. live' = live /\ chanBar' = chanBar
      BY <2>1, ChanKept
    <2> QED
      BY <2>1, <2>3, <2>4, <2>5, SilentStep DEF Refines
  <1>5. CASE DestroyFind(t)
    <2>1. /\ Aside(t) /\ UNCHANGED <<queue, destroyed, freed, inTable, got>>
          /\ req'[t] = req[t] /\ outcome'[t] = outcome[t] /\ sig'[t] = sig[t]
          /\ pc[t] = "lockq" /\ pc'[t] = "destroy" /\ req[t].call = "destroy"
      BY <1>1, <1>5 DEF DestroyFind, Enter, shared, Aside, Typed
    <2> QED
      BY <1>1, <2>1, WithinStep DEF CallPlace, WaitPC
  <1>6. CASE Destroy(t)
    <2>1. PICK woken : woken \subseteq BlockedReaders \cup BlockedWriters
                       /\ Release(t, "ok", woken)
      BY <1>6 DEF Destroy
    <2>2. /\ pc[t] = "destroy" /\ destroyed' /\ UNCHANGED <<freed, sig, got>>
      BY <1>6 DEF Destroy
    <2>3. "ok" \in Outcomes \ {"none"}
      BY DEF Outcomes
    <2>4. Aside(t) /\ CallInv' /\ outcome'[t] = "ok"
      BY <2>1, <2>2, <2>3, ReleaseStep
    <2>5. Channel!Return(t, "ok")
      BY <2>4, ChannelReturn
    <2>6. ~destroyed /\ Kind # "thread"
      BY <2>2 DEF ChanInv, Deletion
    <2>7. live /\ ~live' /\ chanBar' = <<>>
      BY <2>2, <2>6, CallOpen DEF live, chanBar
    <2>8. callBar[t].call = "destroy"
      BY <1>1, <2>2, CallPending DEF CallPlace
    <2>9. Channel!Destroy(t)
      BY <2>2, <2>5, <2>6, <2>7, <2>8
      DEF Channel!Destroy, callBar, chanBar, Contents
    <2> QED
      BY <2>4, <2>9 DEF Refines, Channel!Next
  <1>7. CASE Delete(t)
    <2>1. /\ Aside(t) /\ UNCHANGED <<destroyed, inTable, got>>
          /\ pc[t] = "del" /\ pc'[t] = AfterRelease(outcome[t], req[t].call)
          /\ req'[t] = IF pc'[t] = "idle" THEN NoReq ELSE req[t]
          /\ outcome'[t] = outcome[t] /\ sig'[t] = sig[t]
      BY <1>1, <1>7 DEF Delete, Aside, Typed
    <2>2. destroyed /\ destroyed'
      BY <2>1 DEF ChanInv, Deletion, Over
    <2>3. outcome[t] # "none" /\ req[t] # NoReq
      BY <1>1, <2>1 DEF CallPlace
    <2>4. CallPlace(t, pc'[t], req'[t], outcome'[t], sig'[t])
      BY <1>1, <2>1, <2>3 DEF CallPlace, AfterRelease, WaitPC, NoReq
    <2>5. pc'[t] \notin {"reap", "gone"}
      BY <2>1 DEF AfterRelease
    <2>6. CallInv'
      BY <2>1, <2>2, <2>4, <2>5, PlaceStep DEF ChanInv
    <2>7. callBar'[t] = callBar[t] /\ replyBar'[t] = replyBar[t]
      BY <2>1, <2>3 DEF callBar, replyBar, Pending, AfterRelease
    <2>8. live' = live /\ chanBar' = chanBar
      BY <2>2 DEF live, chanBar
    <2> QED
      BY <2>1, <2>6, <2>7, <2>8, SilentStep DEF Refines
  <1> QED
    BY <1>2, <1>3, <1>4, <1>5, <1>6, <1>7, ChannelPeek DEF OtherStep

(* A call ends before it gets into the queue, or after an interrupt. *)
LEMMA FailStep ==
  ASSUME ChanInv, NEW t \in Threads, Aside(t),
         UNCHANGED <<queue, destroyed, freed, inTable, got>>,
         pc[t] \in {"lookup", "lockq", "handle"},
         pc'[t] = "idle", req'[t] = NoReq, sig'[t] => sig[t],
         \/ outcome'[t] = "existence" /\ (destroyed \/ freed)
         \/ outcome'[t] = "exception" /\ pc[t] = "handle"
  PROVE  Refines
  <1>1. CallPlace(t, pc[t], req[t], outcome[t], sig[t])
    BY DEF ChanInv, CallInv
  <1>2. CallPlace(t, pc'[t], req'[t], outcome'[t], sig'[t])
    BY <1>1 DEF CallPlace, WaitPC
  <1>3. CallInv'
    BY <1>2, PlaceStep DEF ChanInv
  <1>4. live' = live /\ chanBar' = chanBar
    BY ChanKept
  <1>5. callBar[t] = req[t] /\ req[t] # NoReq
    BY CallPending
  <1>6. CASE outcome'[t] = "existence" /\ (destroyed \/ freed)
    <2>1. Channel!Return(t, "existence")
      BY <1>6, ChannelReturn
    <2>2. Channel!NoSuchQueue(t)
      BY <1>4, <1>5, <1>6, <2>1
      DEF Channel!NoSuchQueue, Channel!NoReq, NoReq, callBar, chanBar,
          Contents, live
    <2> QED
      BY <1>3, <2>2 DEF Refines, Channel!Next
  <1>7. CASE outcome'[t] = "exception" /\ pc[t] = "handle"
    <2>1. Channel!Return(t, "exception")
      BY <1>7, ChannelReturn
    <2>2. t \in Signalled /\ req[t].call \in {"send", "get"}
      BY <1>1, <1>7 DEF CallPlace
    <2>3. Channel!Raise(t)
      BY <1>4, <1>5, <2>1, <2>2 DEF Channel!Raise, callBar, chanBar, Contents
    <2> QED
      BY <1>3, <2>3 DEF Refines, Channel!Next
  <1> QED
    BY <1>6, <1>7

LEMMA ChannelInvoke ==
  ASSUME ChanInv, NEW t \in Threads, NEW r \in Request, Begin(t, r)
  PROVE  Refines
  <1>1. CallPlace(t, pc[t], req[t], outcome[t], sig[t]) /\ Typed
    BY DEF ChanInv, CallInv
  <1>2. /\ Aside(t) /\ UNCHANGED <<queue, destroyed, freed, inTable>>
        /\ pc[t] = "idle" /\ pc'[t] \in {"lookup", "lockq"} /\ req'[t] = r
        /\ outcome'[t] = "none" /\ sig'[t] = FALSE
        /\ got' = [got EXCEPT ![t] = NoMsg]
    BY <1>1 DEF Begin, EntryPC, shared, Aside, Typed
  <1>3. r # NoReq
    BY RequestIsCall
  <1>4. CallPlace(t, pc'[t], req'[t], outcome'[t], sig'[t])
    BY <1>2, <1>3 DEF CallPlace, WaitPC
  <1>5. CallInv'
    BY <1>2, <1>4, PlaceStep DEF ChanInv
  <1>6. live' = live /\ chanBar' = chanBar
    BY <1>2, ChanKept
  <1>7. callBar[t] = NoReq
    BY <1>1, <1>2, Bars DEF CallPlace
  <1>8. /\ callBar' = [callBar EXCEPT ![t] = r]
        /\ replyBar' = [replyBar EXCEPT ![t] = "none"]
    BY <1>2, Bars
  <1>9. Channel!Invoke(t, r)
    BY <1>2, <1>6, <1>7, <1>8
    DEF Channel!Invoke, Channel!NoReq, Channel!NoMsg, NoReq, NoMsg, callBar,
        replyBar, chanBar, Contents
  <1>10. r \in Channel!Request
    BY DEF Request, SendReq, GetReq, PeekReq, OtherReq, Channel!Request,
           Channel!SendReq, Channel!GetReq, Channel!PeekReq, Channel!OtherReq
  <1> QED
    BY <1>5, <1>9, <1>10 DEF Refines, Channel!Next

LEMMA ChannelThread ==
  ASSUME ChanInv, NEW t \in Threads,
         \/ Lookup(t) \/ EnterDestroyed(t)
         \/ HandleAndRetry(t) \/ HandleAndFail(t)
         \/ Tick(t) \/ Expire(t) \/ RaiseSignal(t)
  PROVE  Refines
  <1>1. CallPlace(t, pc[t], req[t], outcome[t], sig[t]) /\ Typed
    BY DEF ChanInv, CallInv
  <1>2. CASE (Lookup(t) /\ ~inTable) \/ EnterDestroyed(t) \/ HandleAndFail(t)
    <2>1. /\ Aside(t) /\ UNCHANGED <<queue, destroyed, freed, inTable, got>>
          /\ pc'[t] = "idle" /\ req'[t] = NoReq /\ (sig'[t] => sig[t])
      BY <1>1, <1>2
      DEF Lookup, EnterDestroyed, HandleAndFail, shared, Aside, Typed
    <2>2. /\ pc[t] \in {"lookup", "lockq", "handle"}
          /\ \/ outcome'[t] = "existence" /\ (destroyed \/ ~inTable)
             \/ outcome'[t] = "exception" /\ pc[t] = "handle"
      BY <1>1, <1>2 DEF Lookup, EnterDestroyed, HandleAndFail, Typed
    <2>3. ~inTable => destroyed \/ freed
      BY DEF ChanInv, CallInv
    <2> QED
      BY <2>1, <2>2, <2>3, FailStep
  <1>3. CASE (Lookup(t) /\ inTable) \/ HandleAndRetry(t) \/ Tick(t) \/ Expire(t)
    <2>1. /\ Aside(t) /\ UNCHANGED <<queue, destroyed, freed, inTable, got>>
          /\ req'[t] = req[t] /\ (sig'[t] => sig[t])
      BY <1>1, <1>3
      DEF Lookup, HandleAndRetry, Tick, Expire, shared, Aside, Typed
    <2>2. /\ pc[t] \in WaitPC \cup {"lookup", "lockq", "handle"}
          /\ pc'[t] \in WaitPC \cup {"lookup", "lockq"}
          /\ pc'[t] = "expired" => req[t].deadline
      BY <1>1, <1>3 DEF Lookup, HandleAndRetry, EntryPC, Tick, Expire,
                        BlockedReaders, BlockedWriters, WaitPC, Typed
    <2>3. outcome'[t] = "none"
      BY <1>1, <1>3 DEF Lookup, HandleAndRetry, Tick, Expire, BlockedReaders,
                        BlockedWriters, CallPlace, WaitPC, Typed
    <2>4. sig'[t] => t \in Signalled
      BY <1>1, <2>1 DEF CallPlace
    <2>5. pc'[t] # "destroy"
      BY <2>2 DEF WaitPC
    <2> QED
      BY <2>1, <2>2, <2>3, <2>4, <2>5, WithinStep
  <1>4. CASE RaiseSignal(t)
    <2>1. /\ Aside(t) /\ UNCHANGED <<queue, destroyed, freed, inTable, got>>
          /\ pc'[t] = pc[t] /\ req'[t] = req[t] /\ outcome'[t] = outcome[t]
          /\ t \in Signalled /\ pc[t] \notin {"reap", "gone"}
      BY <1>1, <1>4 DEF RaiseSignal, shared, Aside, Typed
    <2>2. CallPlace(t, pc'[t], req'[t], outcome'[t], sig'[t])
      BY <1>1, <2>1 DEF CallPlace
    <2>3. CallInv'
      BY <2>1, <2>2, PlaceStep DEF ChanInv
    <2>4. callBar'[t] = callBar[t] /\ replyBar'[t] = replyBar[t]
      BY <2>1 DEF callBar, replyBar, Pending
    <2>5. live' = live /\ chanBar' = chanBar
      BY <2>1, ChanKept
    <2> QED
      BY <2>1, <2>3, <2>4, <2>5, SilentStep DEF Refines
  <1> QED
    BY <1>2, <1>3, <1>4

(* A step that closes the queue, or finds it closed, and ends no call. *)
LEMMA CloseStep ==
  ASSUME UNCHANGED <<req, outcome, got>>, destroyed' \/ freed'
  PROVE  [Channel!Next]_Channel!vars
  <1>1. ~live' /\ chanBar' = <<>>
    BY DEF live, chanBar
  <1>2. callBar' = callBar /\ replyBar' = replyBar
    BY DEF callBar, replyBar, Pending
  <1>3. CASE live
    <2>1. Channel!Close
      BY <1>1, <1>2, <1>3
      DEF Channel!Close, callBar, replyBar, chanBar, Contents
    <2> QED
      BY <2>1 DEF Channel!Next
  <1>4. CASE ~live
    <2>1. chanBar' = chanBar
      BY <1>1, <1>4 DEF chanBar
    <2>2. live' = live
      BY <1>1, <1>4 DEF live
    <2> QED
      BY <1>2, <2>1, <2>2
      DEF Channel!vars, callBar, replyBar, chanBar, Contents
  <1> QED
    BY <1>3, <1>4

LEMMA ChannelEnd ==
  ASSUME ChanInv, Collect \/ ExitStart \/ ExitStep
  PROVE  Refines
  <1>0. Typed /\ CallPlace(Owner, pc[Owner], req[Owner], outcome[Owner],
                           sig[Owner])
    BY KindAssumption DEF ChanInv, CallInv
  <1>1. CASE Collect
    <2>1. /\ UNCHANGED <<pc, req, outcome, sig, got>> /\ freed'
          /\ Kind = "anon" /\ pc[Owner] = "idle"
      BY <1>1, KindAssumption DEF Collect
    <2>2. CallInv'
      BY <2>1 DEF ChanInv, CallInv
    <2> QED
      BY <2>1, <2>2, CloseStep DEF Refines
  <1>2. CASE ExitStart
    <2>1. /\ Aside(Owner) /\ UNCHANGED <<queue, destroyed, freed, inTable, got>>
          /\ pc[Owner] = "idle" /\ pc'[Owner] = "exit"
          /\ UNCHANGED <<req, outcome, sig>>
      BY <1>0, <1>2, KindAssumption DEF ExitStart, shared, Aside, Typed
    <2>2. CallPlace(Owner, pc'[Owner], req'[Owner], outcome'[Owner], sig'[Owner])
      BY <1>0, <2>1 DEF CallPlace, WaitPC
    <2>3. CallInv'
      BY <2>1, <2>2, PlaceStep, KindAssumption DEF ChanInv
    <2>4. callBar' = callBar /\ replyBar' = replyBar
      BY <2>1 DEF callBar, replyBar, Pending
    <2>5. live' = live /\ chanBar' = chanBar
      BY <2>1, ChanKept
    <2> QED
      BY <2>1, <2>3, <2>4, <2>5, SilentStep, KindAssumption DEF Refines
  <1>3. CASE ExitBroadcast
    <2>1. /\ Aside(Owner) /\ destroyed' /\ UNCHANGED <<freed, inTable>>
          /\ pc'[Owner] = pc[Owner] /\ pc[Owner] = "exit"
          /\ UNCHANGED <<req, outcome, sig, got>>
      BY <1>0, <1>3, KindAssumption
      DEF ExitBroadcast, Goto, BlockedReaders, BlockedWriters, Aside, Typed
    <2>2. CallPlace(Owner, pc'[Owner], req'[Owner], outcome'[Owner], sig'[Owner])
      BY <1>0, <2>1
    <2>3. CallInv'
      BY <2>1, <2>2, PlaceStep, KindAssumption DEF ChanInv
    <2> QED
      BY <2>1, <2>3, CloseStep DEF Refines
  <1>4. CASE ExitDestroy \/ ExitFree
    <2>1. /\ Aside(Owner) /\ destroyed'
          /\ pc[Owner] \in {"exit", "reap"} /\ pc'[Owner] \in {"reap", "gone"}
          /\ UNCHANGED <<req, outcome, sig, got>>
      BY <1>0, <1>4, KindAssumption
      DEF ExitDestroy, ExitFree, Aside, Typed, ChanInv, CallInv
    <2>2. CallPlace(Owner, pc'[Owner], req'[Owner], outcome'[Owner], sig'[Owner])
      BY <1>0, <2>1 DEF CallPlace, WaitPC
    <2>3. CallInv'
      BY <2>1, <2>2, PlaceStep, KindAssumption DEF ChanInv
    <2> QED
      BY <2>1, <2>3, CloseStep DEF Refines
  <1> QED
    BY <1>1, <1>2, <1>3, <1>4 DEF ExitStep

LEMMA ChannelNext ==
  ASSUME ChanInv, [Next]_vars
  PROVE  Refines
  <1>1. ASSUME NEW t \in Threads, Step(t) PROVE Refines
    BY <1>1, ChannelSend, ChannelGet, ChannelOther, ChannelThread DEF Step
  <1>2. CASE UNCHANGED vars
    <2>1. UNCHANGED Channel!vars
      BY <1>2 DEF vars, shared, Channel!vars, live, Pending
    <2>2. CallInv'
      BY <1>2 DEF vars, shared, ChanInv, CallInv
    <2> QED
      BY <2>1, <2>2 DEF Refines
  <1> QED
    BY <1>1, <1>2, ChannelInvoke, ChannelThread, ChannelEnd DEF Next

LEMMA ChannelInit ==
  ASSUME Init
  PROVE  CallInv /\ Channel!Init
  <1>1. CallInv
    BY KindAssumption DEF Init, CallInv, CallPlace, WaitPC
  <1>2. live /\ chanBar = <<>>
    BY DEF Init, live, chanBar, Contents
  <1>3. /\ callBar = [t \in Threads |-> NoReq]
        /\ replyBar = [t \in Threads |-> "none"]
    BY DEF Init, callBar, replyBar, Pending
  <1> QED
    BY <1>1, <1>2, <1>3
    DEF Init, Channel!Init, Channel!NoReq, Channel!NoMsg, NoReq, NoMsg, callBar,
        replyBar, chanBar, Contents

(* A message queue of any kind is a channel: every step of the calls on it *)
(* by any number of threads, with their waits, time-outs and interrupts,   *)
(* takes effect as one step of MessageChannel or changes nothing there.    *)
THEOREM ChannelImplemented == Spec => ImplementsChannel
  <1>1. Init => CallInv /\ Channel!Init
    BY ChannelInit
  <1>2. Typed /\ Counted /\ Deletion /\ WakeInv /\ CallInv /\ [Next]_vars =>
          CallInv' /\ [Channel!Next]_Channel!vars
    BY ChannelNext DEF ChanInv, Refines
  <1> QED
    BY <1>1, <1>2, TypedInvariant, CountedInvariant, DeletionInvariant,
       WakeInvariant, PTL
    DEF Spec, ImplementsChannel, Channel!Spec
=============================================================================
