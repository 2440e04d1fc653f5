---------------------------- MODULE MessageQueue ----------------------------
(***************************************************************************)
(* One Prolog message queue (struct message_queue, src/src/pl-thread.h)    *)
(* and the threads that call thread_send_message/2,3,                      *)
(* thread_get_message/1,2,3, thread_peek_message/1,2,                      *)
(* message_queue_property/2 and message_queue_destroy/1 on it              *)
(* (src/src/pl-thread.c).                                                  *)
(*                                                                         *)
(* q->mutex is held from the step that enters the queue until the thread   *)
(* either releases it or waits on a condition variable, and nothing else   *)
(* blocks in between: every such critical section is one step here, except *)
(* that of message_queue_destroy/1, which changes the table of queues      *)
(* after it gave L_THREAD back.  The lock L_THREAD, under which a name or  *)
(* a thread id is turned into a queue pointer, is held across steps and is *)
(* the variable lthread.  What runs after q->mutex is released             *)
(* (destroy_message_queue(), PL_free(), signal handling, reading a         *)
(* property) is a step of its own.                                         *)
(*                                                                         *)
(* A term is abstracted to a message, an element of Msgs; the pattern of a *)
(* reader is the set of the messages it unifies with, an unbound variable  *)
(* being the set of all of them.                                           *)
(***************************************************************************)
EXTENDS Integers, Sequences, FiniteSets

CONSTANTS
  Threads,      \* the Prolog threads
  Owner,        \* the thread whose own queue this is, when Kind = "thread"
  Msgs,         \* the terms that are sent
  Patterns,     \* the patterns read with: sets of messages
  Calls,        \* the predicates that each thread calls
  Deadlines,    \* {FALSE}: no call has a deadline; BOOLEAN: some have
  Signalled,    \* the threads that receive thread_signal/2
  Kind,         \* "thread": thread queue; "named": alias; "anon": blob
  MaxSize,      \* max_size of the queue, 0 for a queue without a limit
  SendBound,    \* bound on the number of messages sent, for model checking
  DrainBound,   \* bound on wait_for_drain, which a timeout does not reset
  NoThread      \* L_THREAD is free

AnyMsg == Msgs          \* the pattern that is an unbound variable

ASSUME KindAssumption ==
  /\ Kind \in {"thread", "named", "anon"}
  /\ Owner \in Threads
  /\ NoThread \notin Threads
  /\ Kind = "thread" => MaxSize = 0   \* init_message_queue(..., -1)
ASSUME DataAssumption ==
  /\ IsFiniteSet(Threads)
  /\ Patterns \subseteq SUBSET Msgs
  /\ Signalled \subseteq Threads
  /\ Calls \in [Threads -> SUBSET {"send", "get", "peek", "property",
                                   "destroy"}]
  /\ Deadlines \subseteq BOOLEAN
  /\ MaxSize \in Nat
  /\ SendBound \in Nat /\ DrainBound \in Nat

VARIABLES
  queue,        \* the messages from head to tail, each with its sequence_id
  sequence_next,
  waiting, waiting_var, wait_for_drain,   \* the counters of the struct
  initialized, destroyed,                 \* its flags
  inTable,      \* a name or id leads to it: queueTable, info->thread_data
  freed,        \* its memory was returned
  lthread,      \* who holds L_THREAD
  pc,           \* where each thread is in the call it makes
  req,          \* the call and its arguments
  seen,         \* get_message(): sequence_id of the last message scanned
  sig,          \* is_signalled(LD)
  outcome,      \* how the call ended
  got           \* the message the call unified with

shared == <<queue, sequence_next, waiting, waiting_var, wait_for_drain,
            initialized, destroyed, inTable, freed>>
vars == <<shared, lthread, pc, req, seen, sig, outcome, got>>

-----------------------------------------------------------------------------
(* The calls. *)

NoReq == [call |-> "none"]
SendReq == [call : {"send"}, msg : Msgs, deadline : Deadlines]
GetReq == [call : {"get"}, pat : Patterns, deadline : Deadlines]
PeekReq == [call : {"peek"}, pat : Patterns]
OtherReq == [call : {"property", "destroy"}]
Request == SendReq \cup GetReq \cup PeekReq \cup OtherReq

NoMsg == "no message"

(* Inside pthread_cond_timedwait(): blocked in it, made runnable by a      *)
(* signal or broadcast, by the 250 ms tick, or by the caller's deadline.   *)
WaitPC == {"wait", "woken", "tick", "expired"}
PCs == WaitPC \cup
       {"idle", "lookup", "lockq", "destroy", "del", "handle", "prop",
        "exit", "reap", "gone"}
Outcomes == {"none", "ok", "fail", "existence", "intr", "exception",
             "permission"}

Readers == {t \in Threads : req[t].call = "get" /\ pc[t] \in WaitPC}
VarReaders == {t \in Readers : req[t].pat = AnyMsg}
Writers == {t \in Threads : req[t].call = "send" /\ pc[t] \in WaitPC}

(* The threads that a signal on cond_var, or on drain_var, can unblock. *)
BlockedReaders == {t \in Readers : pc[t] = "wait"}
BlockedWriters == {t \in Writers : pc[t] = "wait"}

Full == MaxSize > 0 /\ Len(queue) >= MaxSize

(* Who is unblocked by pthread_cond_signal(): one of the blocked threads. *)
CondSignal(blocked) == IF blocked = {} THEN {{}} ELSE {{t} : t \in blocked}

(* Thread t goes to next, the threads in woken leave the condition variable. *)
Goto(t, next, woken) ==
  pc' = [u \in Threads |->
           IF u = t THEN next ELSE IF u \in woken THEN "woken" ELSE pc[u]]

-----------------------------------------------------------------------------
Init ==
  /\ queue = <<>>
  /\ sequence_next = 0
  /\ waiting = 0 /\ waiting_var = 0 /\ wait_for_drain = 0
  /\ initialized = TRUE /\ destroyed = FALSE
  /\ inTable = TRUE /\ freed = FALSE
  /\ lthread = NoThread
  /\ pc = [t \in Threads |-> "idle"]
  /\ req = [t \in Threads |-> NoReq]
  /\ seen = [t \in Threads |-> 0]
  /\ sig = [t \in Threads |-> FALSE]
  /\ outcome = [t \in Threads |-> "none"]
  /\ got = [t \in Threads |-> NoMsg]

(* Where get_message_queue() starts for thread t: an anonymous queue is    *)
(* reached through its blob, and thread_get_message/1 and                  *)
(* thread_peek_message/1 use the queue of the thread itself; anything else *)
(* is looked up under L_THREAD.                                            *)
EntryPC(t, r) ==
  IF \/ Kind = "anon"
     \/ Kind = "thread" /\ t = Owner /\ r.call \in {"get", "peek"}
  THEN "lockq" ELSE "lookup"

(* A thread calls one of the predicates, the signals that came before the  *)
(* call being handled.  An anonymous queue can only be named by a program  *)
(* that still holds the blob, i.e. before it is freed.                     *)
Begin(t, r) ==
  /\ pc[t] = "idle"
  /\ r.call \in Calls[t]
  /\ Kind = "anon" => ~freed
  /\ r.call = "send" =>
       sequence_next + Cardinality({u \in Threads : req[u].call = "send"})
         < SendBound
  /\ r.call = "send" => wait_for_drain < DrainBound
  /\ pc' = [pc EXCEPT ![t] = EntryPC(t, r)]
  /\ req' = [req EXCEPT ![t] = r]
  /\ seen' = [seen EXCEPT ![t] = 0]
  /\ outcome' = [outcome EXCEPT ![t] = "none"]
  /\ got' = [got EXCEPT ![t] = NoMsg]
  /\ sig' = [sig EXCEPT ![t] = FALSE]
  /\ UNCHANGED <<shared, lthread>>

(* get_message_queue__LD(): LOCK() and find the queue.  If it is there the *)
(* thread goes for q->mutex with L_THREAD still held.                      *)
Lookup(t) ==
  /\ pc[t] = "lookup"
  /\ lthread = NoThread
  /\ IF inTable
     THEN /\ lthread' = t
          /\ pc' = [pc EXCEPT ![t] = "lockq"]
          /\ UNCHANGED <<req, outcome>>
     ELSE /\ pc' = [pc EXCEPT ![t] = "idle"]
          /\ req' = [req EXCEPT ![t] = NoReq]
          /\ outcome' = [outcome EXCEPT ![t] = "existence"]
          /\ UNCHANGED lthread
  /\ UNCHANGED <<shared, seen, sig, got>>

-----------------------------------------------------------------------------
(* release_message_queue(): thread t unlocks q->mutex with result o.  If   *)
(* the queue is destroyed and the counters say that nobody is waiting, the *)
(* thread goes on to delete it.                                            *)

AfterRelease(o, call) ==
  IF o = "intr" THEN "handle"
  ELSE IF o = "ok" /\ call = "property" THEN "prop" ELSE "idle"

(* Mutant: the counters are not asked. *)
LastUserUncounted == destroyed' /\ Kind # "thread"

LastUser == destroyed' /\ waiting' = 0 /\ wait_for_drain' = 0
            /\ Kind # "thread"

Release(t, o, woken) ==
  LET next == AfterRelease(o, req[t].call)
  IN  /\ outcome' = [outcome EXCEPT ![t] = o]
      /\ Goto(t, IF LastUser THEN "del" ELSE next, woken)
      /\ req' = [req EXCEPT ![t] =
                   IF ~LastUser /\ next = "idle" THEN NoReq ELSE req[t]]

(* The end of get_message_queue__LD(): with q->mutex locked, L_THREAD is   *)
(* given back.                                                             *)
UnlockThread(t) == lthread' = IF lthread = t THEN NoThread ELSE lthread

(* q->mutex is held by a thread that is between two steps. *)
QueueLocked == \E t \in Threads : pc[t] = "destroy"

(* Call c enters the queue, which is not destroyed. *)
Enter(t, c) ==
  /\ pc[t] = "lockq" /\ ~QueueLocked /\ ~destroyed
  /\ req[t].call = c
  /\ UnlockThread(t)

(* A call finds the queue already destroyed: existence error. *)
EnterDestroyed(t) ==
  /\ pc[t] = "lockq" /\ ~QueueLocked /\ destroyed
  /\ UnlockThread(t)
  /\ pc' = [pc EXCEPT ![t] = "idle"]
  /\ req' = [req EXCEPT ![t] = NoReq]
  /\ outcome' = [outcome EXCEPT ![t] = "existence"]
  /\ UNCHANGED <<shared, seen, sig, got>>

-----------------------------------------------------------------------------
(* queue_message() *)

(* Append the message and wake readers: all of them if there are several   *)
(* and one waits with a pattern, else one.                                 *)
(* Mutant: one reader is woken whatever the readers wait for. *)
WakeOneReader == IF waiting = 0 THEN {{}} ELSE CondSignal(BlockedReaders)

WakeReaders ==
  IF waiting = 0 THEN {{}}
  ELSE IF waiting > waiting_var /\ waiting > 1
  THEN {BlockedReaders}
  ELSE CondSignal(BlockedReaders)

AppendMessage(t) ==
  /\ sequence_next' = sequence_next + 1
  /\ queue' = Append(queue, [id |-> sequence_next', msg |-> req[t].msg])
  /\ UNCHANGED <<waiting, waiting_var, initialized, destroyed, inTable, freed>>
  /\ \E woken \in WakeReaders : Release(t, "ok", woken)

(* The queue has room: the message goes in at once. *)
SendNow(t) ==
  /\ Enter(t, "send")
  /\ ~Full
  /\ UNCHANGED wait_for_drain
  /\ AppendMessage(t)
  /\ UNCHANGED <<seen, sig, got>>

(* The queue is full: wait on drain_var. *)
SendWait(t) ==
  /\ Enter(t, "send")
  /\ Full
  /\ wait_for_drain' = wait_for_drain + 1
  /\ pc' = [pc EXCEPT ![t] = "wait"]
  /\ UNCHANGED <<queue, sequence_next, waiting, waiting_var, initialized,
                 destroyed, inTable, freed, req, seen, sig, outcome, got>>

(* The wait ended on a tick and a thread signal is pending: MSG_WAIT_INTR. *)
Interrupted(t) == ~QueueLocked /\ pc[t] \in {"tick", "expired"} /\ sig[t]

SendInterrupted(t) ==
  /\ t \in Writers /\ Interrupted(t)
  /\ wait_for_drain' = wait_for_drain - 1
  /\ UNCHANGED <<queue, sequence_next, waiting, waiting_var, initialized,
                 destroyed, inTable, freed>>
  /\ Release(t, "intr", {})
  /\ UNCHANGED <<lthread, seen, sig, got>>

(* The deadline passed. *)
TimedOut(t) == ~QueueLocked /\ pc[t] = "expired" /\ ~sig[t]

(* MSG_WAIT_TIMEOUT.  The counter stays as it is. *)
SendTimeout(t) ==
  /\ t \in Writers /\ TimedOut(t)
  /\ UNCHANGED shared
  /\ Release(t, "fail", {})
  /\ UNCHANGED <<lthread, seen, sig, got>>

(* dispatch_cond_wait() returned 0. *)
WaitOver(t) ==
  ~QueueLocked /\ (pc[t] = "woken" \/ (pc[t] = "tick" /\ ~sig[t]))

(* MSG_WAIT_DESTROYED: existence error.  The counter stays as it is. *)
SendDestroyed(t) ==
  /\ t \in Writers /\ WaitOver(t) /\ destroyed
  /\ UNCHANGED shared
  /\ Release(t, "existence", {})
  /\ UNCHANGED <<lthread, seen, sig, got>>

SendWaitAgain(t) ==
  /\ t \in Writers /\ WaitOver(t) /\ ~destroyed /\ Full
  /\ pc' = [pc EXCEPT ![t] = "wait"]
  /\ UNCHANGED <<shared, lthread, req, seen, sig, outcome, got>>

(* Mutant: a writer that was woken does not look whether there is room. *)
SendDrainedUnchecked(t) ==
  /\ t \in Writers /\ WaitOver(t) /\ ~destroyed
  /\ wait_for_drain' = wait_for_drain - 1
  /\ AppendMessage(t)
  /\ UNCHANGED <<lthread, seen, sig, got>>

SendDrained(t) ==
  /\ t \in Writers /\ WaitOver(t) /\ ~destroyed /\ ~Full
  /\ wait_for_drain' = wait_for_drain - 1
  /\ AppendMessage(t)
  /\ UNCHANGED <<lthread, seen, sig, got>>

-----------------------------------------------------------------------------
(* get_message() *)

(* The positions that the scan of thread t stops at: not skipped as seen,  *)
(* and unifying with its pattern.                                          *)
Unseen(t) == {i \in DOMAIN queue : queue[i].id >= seen[t]}
(* Mutant: the scan stops at the first message that does not unify. *)
CandidatesHead(t) ==
  {i \in Unseen(t) : i = 1 /\ queue[i].msg \in req[t].pat}

Candidates(t) == {i \in Unseen(t) : queue[i].msg \in req[t].pat}

RemoveAt(s, i) == SubSeq(s, 1, i - 1) \o SubSeq(s, i + 1, Len(s))

(* Mutant: taking a message does not signal the writers. *)
WakeNoWriter == {{}}

WakeWriters ==
  IF wait_for_drain = 0 THEN {{}} ELSE CondSignal(BlockedWriters)

(* The first candidate is unlinked and a writer that waits for room is     *)
(* signalled.                                                              *)
TakeFirst(t) ==
  \E i \in Candidates(t) :
    /\ \A j \in Candidates(t) : i <= j
    /\ queue' = RemoveAt(queue, i)
    /\ got' = [got EXCEPT ![t] = queue[i].msg]
    /\ UNCHANGED <<sequence_next, wait_for_drain, initialized, destroyed,
                   inTable, freed>>
    /\ \E woken \in WakeWriters : Release(t, "ok", woken)

IsVar(t) == IF req[t].pat = AnyMsg THEN 1 ELSE 0

(* What the scan leaves in the local variable seen. *)
ScannedTo(t) ==
  IF Unseen(t) = {} THEN seen[t] ELSE queue[Len(queue)].id

GetNow(t) ==
  /\ Enter(t, "get")
  /\ UNCHANGED <<waiting, waiting_var>>
  /\ TakeFirst(t)
  /\ UNCHANGED <<seen, sig>>

GetWait(t) ==
  /\ Enter(t, "get")
  /\ Candidates(t) = {}
  /\ waiting' = waiting + 1
  /\ waiting_var' = waiting_var + IsVar(t)
  /\ seen' = [seen EXCEPT ![t] = ScannedTo(t)]
  /\ pc' = [pc EXCEPT ![t] = "wait"]
  /\ UNCHANGED <<queue, sequence_next, wait_for_drain, initialized, destroyed,
                 inTable, freed, req, sig, outcome, got>>

(* Mutant: waiting_var is not decremented. *)
StopWaitingKeepVar(t) ==
  waiting' = waiting - 1 /\ UNCHANGED waiting_var

(* The wait is over, for whatever reason: the reader stops being counted. *)
StopWaiting(t) ==
  /\ waiting' = waiting - 1
  /\ waiting_var' = waiting_var - IsVar(t)

(* The reader leaves get_message() without a message and with result o. *)
LeaveGet(t, o) ==
  /\ StopWaiting(t)
  /\ UNCHANGED <<queue, sequence_next, wait_for_drain, initialized, destroyed,
                 inTable, freed>>
  /\ Release(t, o, {})
  /\ UNCHANGED <<lthread, seen, sig, got>>

GetInterrupted(t) == t \in Readers /\ Interrupted(t) /\ LeaveGet(t, "intr")

GetTimeout(t) == t \in Readers /\ TimedOut(t) /\ LeaveGet(t, "fail")

(* Mutants: a reader that finds the queue destroyed leaves without being   *)
(* discounted, or goes back to wait.                                       *)
GetDestroyedCounted(t) ==
  /\ t \in Readers /\ WaitOver(t) /\ destroyed
  /\ UNCHANGED shared
  /\ Release(t, "existence", {})
  /\ UNCHANGED <<lthread, seen, sig, got>>
GetDestroyedIgnored(t) ==
  /\ t \in Readers /\ WaitOver(t) /\ destroyed
  /\ pc' = [pc EXCEPT ![t] = "wait"]
  /\ UNCHANGED <<shared, lthread, req, seen, sig, outcome, got>>

GetDestroyed(t) ==
  t \in Readers /\ WaitOver(t) /\ destroyed /\ LeaveGet(t, "existence")

GetTake(t) ==
  /\ t \in Readers /\ WaitOver(t) /\ ~destroyed
  /\ StopWaiting(t)
  /\ TakeFirst(t)
  /\ UNCHANGED <<lthread, seen, sig>>

(* Nothing for this reader: waiting goes down and up again. *)
GetWaitAgain(t) ==
  /\ t \in Readers /\ WaitOver(t) /\ ~destroyed
  /\ Candidates(t) = {}
  /\ seen' = [seen EXCEPT ![t] = ScannedTo(t)]
  /\ pc' = [pc EXCEPT ![t] = "wait"]
  /\ UNCHANGED <<shared, lthread, req, sig, outcome, got>>

(* peek_message(): the whole queue is scanned and left alone. *)
Peek(t) ==
  /\ Enter(t, "peek")
  /\ UNCHANGED shared
  /\ LET found == {i \in DOMAIN queue : queue[i].msg \in req[t].pat}
     IN  IF found = {}
         THEN Release(t, "fail", {}) /\ UNCHANGED got
         ELSE \E i \in found :
                /\ \A j \in found : i <= j
                /\ got' = [got EXCEPT ![t] = queue[i].msg]
                /\ Release(t, "ok", {})
  /\ UNCHANGED <<seen, sig>>

-----------------------------------------------------------------------------
(* pthread_cond_timedwait() returns ETIMEDOUT to a blocked thread: after   *)
(* 250 ms, or at the deadline if the call has one.                         *)
Tick(t) ==
  /\ pc[t] = "wait"
  /\ pc' = [pc EXCEPT ![t] = "tick"]
  /\ UNCHANGED <<shared, lthread, req, seen, sig, outcome, got>>

Expire(t) ==
  /\ t \in BlockedReaders \cup BlockedWriters
  /\ req[t].deadline
  /\ pc' = [pc EXCEPT ![t] = "expired"]
  /\ UNCHANGED <<shared, lthread, req, seen, sig, outcome, got>>

(* pl_thread_signal(): a thread signal becomes pending. *)
RaiseSignal(t) ==
  /\ t \in Signalled /\ ~sig[t]
  /\ pc[t] \notin {"idle", "exit", "reap", "gone"}
  /\ sig' = [sig EXCEPT ![t] = TRUE]
  /\ UNCHANGED <<shared, lthread, pc, req, seen, outcome, got>>

(* PL_handle_signals() after MSG_WAIT_INTR: the call is made again...      *)
HandleAndRetry(t) ==
  /\ pc[t] = "handle"
  /\ sig' = [sig EXCEPT ![t] = FALSE]
  /\ pc' = [pc EXCEPT ![t] = EntryPC(t, req[t])]
  /\ seen' = [seen EXCEPT ![t] = 0]
  /\ outcome' = [outcome EXCEPT ![t] = "none"]
  /\ UNCHANGED <<shared, lthread, req, got>>

(* ... or the signal handler raised an exception. *)
HandleAndFail(t) ==
  /\ pc[t] = "handle"
  /\ sig' = [sig EXCEPT ![t] = FALSE]
  /\ pc' = [pc EXCEPT ![t] = "idle"]
  /\ req' = [req EXCEPT ![t] = NoReq]
  /\ outcome' = [outcome EXCEPT ![t] = "exception"]
  /\ UNCHANGED <<shared, lthread, seen, got>>

-----------------------------------------------------------------------------
(* message_queue_property/2 with a given queue: found and released, then   *)
(* its fields are read without any lock.                                   *)
PropertyFind(t) ==
  /\ Enter(t, "property")
  /\ UNCHANGED shared
  /\ Release(t, "ok", {})
  /\ UNCHANGED <<seen, sig, got>>

PropertyRead(t) ==
  /\ pc[t] = "prop"
  /\ pc' = [pc EXCEPT ![t] = "idle"]
  /\ req' = [req EXCEPT ![t] = NoReq]
  /\ UNCHANGED <<shared, lthread, seen, sig, outcome, got>>

(* message_queue_destroy/1 on the queue of a thread. *)
DestroyDenied(t) ==
  /\ Enter(t, "destroy")
  /\ Kind = "thread"
  /\ UNCHANGED shared
  /\ Release(t, "permission", {})
  /\ UNCHANGED <<seen, sig, got>>

(* message_queue_destroy/1 found the queue: it holds q->mutex and has      *)
(* given L_THREAD back.                                                    *)
DestroyFind(t) ==
  /\ Enter(t, "destroy")
  /\ Kind # "thread"
  /\ pc' = [pc EXCEPT ![t] = "destroy"]
  /\ UNCHANGED <<shared, req, seen, sig, outcome, got>>

(* Out of the table, marked, everyone woken. *)
Destroy(t) ==
  /\ pc[t] = "destroy"
  /\ inTable' = FALSE
  /\ destroyed' = TRUE
  /\ UNCHANGED <<queue, sequence_next, waiting, waiting_var, wait_for_drain,
                 initialized, freed>>
  /\ Release(t, "ok", (IF waiting > 0 THEN BlockedReaders ELSE {}) \cup
                      (IF wait_for_drain > 0 THEN BlockedWriters ELSE {}))
  /\ UNCHANGED <<lthread, seen, sig, got>>

(* The tail of release_message_queue(): destroy_message_queue() drops the  *)
(* messages, and the queue is freed unless a blob refers to it.            *)
Delete(t) ==
  LET next == AfterRelease(outcome[t], req[t].call)
  IN  /\ pc[t] = "del"
      /\ initialized' = FALSE
      /\ queue' = <<>>
      /\ freed' = (Kind # "anon")
      /\ pc' = [pc EXCEPT ![t] = next]
      /\ req' = [req EXCEPT ![t] = IF next = "idle" THEN NoReq ELSE req[t]]
      /\ UNCHANGED <<sequence_next, waiting, waiting_var, wait_for_drain,
                     destroyed, inTable, lthread, seen, sig, outcome, got>>

(* release_message_queue_ref(): the atom garbage collector finds that      *)
(* nobody holds the blob of an anonymous queue.                            *)
Collect ==
  /\ Kind = "anon" /\ ~freed
  /\ \A t \in Threads : pc[t] = "idle"
  /\ initialized' = FALSE
  /\ queue' = IF initialized THEN <<>> ELSE queue
  /\ inTable' = FALSE
  /\ freed' = TRUE
  /\ UNCHANGED <<sequence_next, waiting, waiting_var, wait_for_drain,
                 destroyed, lthread, pc, req, seen, sig, outcome, got>>

(* The owner of a thread queue exits.  freePrologThread() takes L_THREAD   *)
(* and keeps it while destroy_thread_message_queue() loops.                *)
ExitStart ==
  /\ Kind = "thread" /\ pc[Owner] = "idle"
  /\ lthread = NoThread
  /\ lthread' = Owner
  /\ pc' = [pc EXCEPT ![Owner] = "exit"]
  /\ UNCHANGED <<shared, req, seen, sig, outcome, got>>

(* One round of the loop with threads still waiting: wake them. *)
ExitBroadcast ==
  /\ pc[Owner] = "exit"
  /\ waiting > 0 \/ wait_for_drain > 0
  /\ destroyed' = TRUE
  /\ Goto(Owner, "exit",
          (IF waiting > 0 THEN BlockedReaders ELSE {}) \cup
          (IF wait_for_drain > 0 THEN BlockedWriters ELSE {}))
  /\ UNCHANGED <<queue, sequence_next, waiting, waiting_var, wait_for_drain,
                 initialized, inTable, freed, lthread, req, seen, sig,
                 outcome, got>>

(* Mutant: the queue is destroyed without waiting for the readers. *)
ExitDestroyAtOnce ==
  /\ pc[Owner] = "exit"
  /\ destroyed' = TRUE
  /\ initialized' = FALSE
  /\ queue' = <<>>
  /\ inTable' = FALSE
  /\ lthread' = NoThread
  /\ pc' = [pc EXCEPT ![Owner] = "reap"]
  /\ UNCHANGED <<sequence_next, waiting, waiting_var, wait_for_drain, freed,
                 req, seen, sig, outcome, got>>

(* The last round: the queue is emptied, thread_data is cleared and        *)
(* L_THREAD is released.                                                   *)
ExitDestroy ==
  /\ pc[Owner] = "exit"
  /\ waiting = 0 /\ wait_for_drain = 0
  /\ destroyed' = TRUE
  /\ initialized' = FALSE
  /\ queue' = <<>>
  /\ inTable' = FALSE
  /\ lthread' = NoThread
  /\ pc' = [pc EXCEPT ![Owner] = "reap"]
  /\ UNCHANGED <<sequence_next, waiting, waiting_var, wait_for_drain, freed,
                 req, seen, sig, outcome, got>>

(* freeHeap(ld): the queue is a field of the thread's local data. *)
ExitFree ==
  /\ pc[Owner] = "reap"
  /\ freed' = TRUE
  /\ pc' = [pc EXCEPT ![Owner] = "gone"]
  /\ UNCHANGED <<queue, sequence_next, waiting, waiting_var, wait_for_drain,
                 initialized, destroyed, inTable, lthread, req, seen, sig,
                 outcome, got>>

-----------------------------------------------------------------------------
SendStep(t) ==
  \/ SendNow(t) \/ SendWait(t) \/ SendInterrupted(t) \/ SendTimeout(t)
  \/ SendDestroyed(t) \/ SendWaitAgain(t) \/ SendDrained(t)

GetStep(t) ==
  \/ GetNow(t) \/ GetWait(t) \/ GetInterrupted(t) \/ GetTimeout(t)
  \/ GetDestroyed(t) \/ GetTake(t) \/ GetWaitAgain(t)

OtherStep(t) ==
  \/ Peek(t) \/ PropertyFind(t) \/ PropertyRead(t)
  \/ DestroyDenied(t) \/ DestroyFind(t) \/ Destroy(t) \/ Delete(t)

(* What the thread does by itself once it made the call. *)
Step(t) ==
  \/ Lookup(t) \/ EnterDestroyed(t)
  \/ SendStep(t) \/ GetStep(t) \/ OtherStep(t)
  \/ HandleAndRetry(t) \/ HandleAndFail(t)

ExitStep == ExitBroadcast \/ ExitDestroy \/ ExitFree

Next ==
  \/ \E t \in Threads :
       \/ \E r \in Request : Begin(t, r)
       \/ Step(t) \/ Tick(t) \/ Expire(t) \/ RaiseSignal(t)
  \/ Collect
  \/ ExitStart \/ ExitStep

Spec == Init /\ [][Next]_vars

(* A thread that can run is scheduled, and a timed wait times out. *)
Fairness ==
  /\ \A t \in Threads : WF_vars(Step(t)) /\ WF_vars(Tick(t))
  /\ WF_vars(ExitStep)

FairSpec == Spec /\ Fairness

-----------------------------------------------------------------------------
(* The type of every variable.  struct message_queue and the locals of     *)
(* queue_message() and get_message().                                      *)
Message == [id : Nat \ {0}, msg : Msgs]
TypeOK ==
  /\ queue \in Seq(Message)
  /\ sequence_next \in Nat
  /\ waiting \in Nat /\ waiting_var \in Nat /\ wait_for_drain \in Nat
  /\ initialized \in BOOLEAN /\ destroyed \in BOOLEAN
  /\ inTable \in BOOLEAN /\ freed \in BOOLEAN
  /\ lthread \in Threads \cup {NoThread}
  /\ pc \in [Threads -> PCs]
  /\ req \in [Threads -> Request \cup {NoReq}]
  /\ seen \in [Threads -> Nat]
  /\ sig \in [Threads -> BOOLEAN]
  /\ outcome \in [Threads -> Outcomes]
  /\ got \in [Threads -> Msgs \cup {NoMsg}]

(* waiting and waiting_var, which decide between pthread_cond_signal() and *)
(* pthread_cond_broadcast() and whether the queue may be deleted, are      *)
(* exactly the numbers of readers inside dispatch_cond_wait(), whichever   *)
(* way each of them leaves it.                                             *)
WaitersCounted ==
  /\ waiting = Cardinality(Readers)
  /\ waiting_var = Cardinality(VarReaders)

(* The choice between signal and broadcast never loses a wakeup: if a      *)
(* message unifies with the pattern of a blocked reader, some reader that  *)
(* unifies with it too was woken and has yet to scan the queue.  Holds     *)
(* without the help of the 250 ms tick.                                    *)
NoLostWakeup ==
  \A t \in BlockedReaders : \A i \in DOMAIN queue :
    queue[i].msg \in req[t].pat =>
      \E u \in Readers : pc[u] = "woken" /\ queue[i].msg \in req[u].pat

(* get_message() signals one writer per message it takes: room in the      *)
(* queue that a blocked writer does not know of is always covered by       *)
(* writers that were woken and have yet to use it.                         *)
NoLostDrain ==
  BlockedWriters # {} =>
    Len(queue) + Cardinality({t \in Writers : pc[t] = "woken"}) >= MaxSize

(* A queue never grows beyond its max_size, whatever the order in which    *)
(* writers that waited and writers that did not reach it.                  *)
SizeBounded == MaxSize > 0 => Len(queue) <= MaxSize

(* The states in which a thread is about to use its pointer to the queue.  *)
HoldsQueue == WaitPC \cup {"lockq", "destroy", "del", "prop"}

(* The memory of the queue is returned only after every thread that has a  *)
(* pointer to it is done with it.                                          *)
NoUseAfterFree == freed => \A t \in Threads : pc[t] \notin HoldsQueue

(* assert(!queue->waiting && !queue->wait_for_drain) in                    *)
(* destroy_message_queue(), whoever calls it: the last user of a destroyed *)
(* queue, or the atom garbage collector when nobody refers to the queue.   *)
DestroyAssertion ==
  initialized =>
    \/ waiting = 0 /\ wait_for_drain = 0
    \/ ~(\E t \in Threads : pc[t] = "del")
       /\ ~(Kind = "anon" /\ \A t \in Threads : pc[t] = "idle")

(* Of the threads that leave a destroyed queue exactly one deletes it: two *)
(* never do, and it is not deleted twice.                                  *)
DeletedOnce ==
  \A t \in Threads : pc[t] = "del" =>
    /\ initialized /\ destroyed
    /\ \A u \in Threads : pc[u] = "del" => u = t

(* What the queue promises: its calls take effect atomically, in the order *)
(* of the abstract channel, although they wait, are interrupted and run    *)
(* again, and skip what they scanned before.                               *)
live == ~destroyed /\ ~freed
Pending(t) == outcome[t] \in {"none", "intr"}
Channel == INSTANCE MessageChannel WITH
  chan <- IF live THEN [i \in DOMAIN queue |-> queue[i].msg] ELSE <<>>,
  open <- live,
  call <- [t \in Threads |-> IF Pending(t) THEN req[t] ELSE NoReq],
  reply <- [t \in Threads |-> IF Pending(t) THEN "none" ELSE outcome[t]],
  msg <- got,
  Closable <- Kind # "thread"
ImplementsChannel == Channel!Spec

(* A reader does not stay in its wait while the queue holds a message for  *)
(* it: it gets one, or the messages go to others.                          *)
MatchedReaderServed ==
  \A t \in Threads :
    (t \in Readers /\ \E i \in DOMAIN queue : queue[i].msg \in req[t].pat)
      ~> ~(t \in Readers /\ \E i \in DOMAIN queue : queue[i].msg \in req[t].pat)

(* Everybody who waits on a queue when it is destroyed leaves it.          *)
DestroyedQueueLeft ==
  \A t \in Threads : (destroyed /\ pc[t] \in WaitPC) ~> pc[t] \notin WaitPC

(* A thread that exits gets through destroy_thread_message_queue(), which  *)
(* loops with L_THREAD held until the last reader left.                    *)
ExitCompletes == pc[Owner] = "exit" ~> pc[Owner] = "gone"

(* release_message_queue(): "Release a message queue, deleting it if it is *)
(* no longer needed".  A destroyed queue is deleted in the end.            *)
DestroyedQueueDeleted == destroyed ~> ~initialized

=============================================================================
