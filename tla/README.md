# TLA+ models of SWI-Prolog

These modules specify the core of SWI-Prolog 7.2.3 as it is in `src/src/*.c`
and `src/library`: what threads share and how they talk to each other (message
queues, mutexes, the life of threads, thread pools, atoms and their collector,
the clauses of dynamic predicates and their index), and two sequential parts
on which everything rests (the virtual machine on control structures with its
compiler, and the garbage collector of the stacks). TLC checks them on small
instances, TLAPS proves the most important of their properties for every value
of the constants. The models are translated from the source; line numbers
below, and those in `PROJECT.json`, refer to it.

1. [The system](#1-the-system)
2. [The modules](#2-the-modules)
3. [What is checked](#3-what-is-checked)
4. [What is proved](#4-what-is-proved)
5. [What was found](#5-what-was-found)
6. [What is not modelled](#6-what-is-not-modelled)
7. [Plan](#7-plan)

To repeat a check: `tlc -config MXLock.cfg MCPrologMutex.tla`; a proof:
`tlapm PrologMutex_proofs.tla`.

## 1. The system

SWI-Prolog runs each Prolog thread on a POSIX thread of its own with its own
stacks. Threads share the program (modules, predicates, clauses), the atoms,
the flags, and the objects by which they talk to each other: message queues and
mutexes. Nearly all of this sharing is in `pl-thread.c`; most of what makes it
hard is that the code gives a lock up, or never takes one, between two uses of
the same pointer.

### Message queues (`pl-thread.c` 2550-3860)

*State.* `struct message_queue`: a list of messages, each a recorded term with
a `sequence_id`; `size` and `max_size`; the counters `waiting`,
`waiting_var` and `wait_for_drain` of the threads in a wait; the flags
`initialized` and `destroyed`; two condition variables; `mutex` and
`gc_mutex`. There are three kinds: the queue inside each thread's local data,
a queue with an alias in `queueTable`, and an anonymous one that is reached
through an atom (a blob) and dies with it.

*Operations.* `thread_send_message/2,3`, `thread_get_message/1,2,3`,
`thread_peek_message/1,2`, `message_queue_property/2`,
`message_queue_destroy/1`; the destruction of a thread's own queue as the
thread exits; the collection of the blob. A call looks the queue up with
L_THREAD held, locks it, and may then wait, with a deadline or without, be
interrupted by a thread signal, and start again.

*What is hard.* The choice between waking one reader and all of them; the
writers that wait for room; who deletes a queue that is destroyed while
others wait on it; the pointer held by a thread that is not counted yet.

*What makes it correct.* The counters tell the truth; nobody sleeps beside a
message that is for it, or room it waits for; a queue is deleted once, when
its last user leaves, and every waiter does leave; each call takes effect at
one instant.

### Mutexes (`pl-thread.c` 4030-4560, 6060-6100)

*State.* `struct pl_mutex`: a `pthread_mutex_t`, `owner`, `count`, the flags
`initialized`, `destroyed` and `auto_destroy`. A named mutex is in
`GD->thread.mutexTable`, an anonymous one is a blob.

*Operations.* `mutex_create/1,2`, `mutex_lock/1`, `mutex_trylock/1`,
`mutex_unlock/1`, `mutex_unlock_all/0`, `mutex_destroy/1`, `with_mutex/2`, and
the collection of the blob. `mutex_lock/1` of a name that does not exist
creates it.

*What is hard.* `owner` and `count` are read without the lock; destruction may
meet a lock, an unlock or another destruction at any point.

*What makes it correct.* Mutual exclusion; `owner` and `count` agree with what
threads were granted; a mutex is destroyed only while it is free, and is
destroyed once its holder lets it go.

### Threads (`pl-thread.c` 520-1090, 1300-1380, 1430-1850)

*State.* An array of slots (`PL_thread_info_t`) whose index is the thread's
identifier, `thread_highest_id`, the table of aliases, the counters of threads
created and finished; and what the operating system knows of the thread.

*Operations.* `thread_create/3` (allocate, scan options, take an alias, record
the goal, start), `start_thread()`, the end of a thread
(`freePrologThread()`), `thread_join/2`, `thread_detach/1`.

*What is hard.* Each of these uses the slot outside of the lock; a slot is
given to the next thread as soon as it is marked unused; every step of a
creation may fail.

*What makes it correct.* A slot has one user at a time; a joiner gets the
status of the thread it asked for; an alias leads to its thread; what is
created detached, or detached later, is reclaimed.

### Atoms and their collector (`pl-atom.c`, `pl-gc.c` 5000-5086)

*State.* The array of atoms, each with a reference count and a mark bit in it;
`gc_active`; per thread the stacks and `LD->atoms.unregistering`.

*Operations.* `lookupBlob()`, `PL_register_atom()`, `PL_unregister_atom()`;
`pl_garbage_collect_atoms()`: unmark, mark from the stacks and queues of all
threads, sweep. Structures such as clauses register their atoms; stacks,
messages and findall bags do not and are scanned.

*What is hard.* This version scans the stacks of running threads
(`forThreadLocalDataUnsuspended()`), so that every way an atom can travel
while the collector is half done matters.

*What makes it correct.* No atom that can be reached is reclaimed; reference
counts are exact; garbage goes; the stacks of a thread in stack GC are left
alone.

### Predicates and clauses (`pl-proc.c`, `pl-index.c`, `pl-wam.c`, `pl-vmi.c`)

*State.* `GD->generation`; a definition with its chain of clauses, the counters
`number_of_clauses`, `erased_clauses` and `references`, the flag
NEEDSCLAUSEGC, a mutex, its hash tables and the old ones; a clause with the
generations `created` and `erased`; a frame with the generation of its call
and a `ClauseChoice`.

*Operations.* Call, redo and leave of a dynamic predicate; `assertProcedure()`,
`retractClauseDefinition()` from `retract/1`, `retractall/1` and `erase/1`,
`leaveDefinition()` with `cleanDefinition()`; `firstClause()` and
`nextClause()` by chain or by hash, `hashDefinition()`, `addClauseToIndex()`,
`delClauseFromIndex()`, `gcClauseIndexes()` and the replacement of a table.

*What is hard.* The chain and the tables are walked without a lock while others
add and take out clauses; a clause is linked before it has its generation; what
is erased stays until the last frame leaves, which has to find all of it by
counters that are kept apart in the definition, the table and each bucket.

*What makes it correct.* No frame walks freed memory; a goal is served by the
logical update view, by the table as by the chain; the counters are exact, and
so nothing erased stays for ever unless it is little.

### The virtual machine on control structures (`pl-comp.c`, `pl-wam.c`, `pl-vmi.c`, `pl-pro.c`)

*State.* Frames and choice points on the local stack, addressed by registers
and by variables of the clause that remember a choice point; flags on frames.

*Operations.* The compilation of `,` `;` `->` `*->` `\+` `!`, meta-calls, and the
decompiler; call, last call, exit, backtracking, the four cuts, `catch/3`,
`throw/1`, `setup_call_cleanup/3`, and a query that is opened, asked and closed.

*What is hard.* Each cut finds what it discards by comparing addresses, and a
soft-cut takes a choice point out of the middle that others refer to; last
calls reuse a frame when no choice point is newer; cleanup handlers run from
all the ways by which a frame is left.

*What makes it correct.* The solutions and the end of a query are those the
manual gives its body; each frame is left once; each handler runs once.

### Stack garbage collection (`pl-gc.c`)

*State.* The words of the global stack, the trail, the slots of frames, the
marks of choice points, with two bits in each word that the collector owns.

*Operations.* Marking with pointer reversal, choice point by choice point with
early reset of trailed bindings and assignments and the merging of
assignments; compaction of the trail; the sweeps that thread relocation
chains through the words; compaction of the global stack, downward and upward.

*What is hard.* The structures are inconsistent at every moment in between, and
what a word is depends on two bits and its neighbours; an alternative sees the
terms of an earlier time, through the trail.

*What makes it correct.* Invisible to the program, forward and on backtracking;
everything needed is marked, and garbage is not; the internal counters agree.

### Thread pools (`library/thread_pool.pl`)

*State.* A manager thread with a message queue; for each pool the free places,
the backlog and the members; clients that wait for a reply.

*Operations.* `thread_pool_create/3`, `thread_pool_destroy/1`,
`current_thread_pool/1`, `thread_create_in_pool/4` with lazy creation of the
pool and of the manager, the exit message of a worker.

*What is hard.* Requests, replies and exits are messages that may be for a pool,
a manager or a client which is not there any more, a reply says nothing of the
request it is for, and any step of the manager may raise.

*What makes it correct.* The places of a pool are accounted for; each request
has one answer, and gets it.

### The rest

`PROJECT.json` lists all other components. Those with state that several
threads change are thread signals and the suspension of all threads, halt,
streams, and the hash tables. Arithmetic, the reader and writer and most
libraries are sequential.

*Interactions.* A thread owns a message queue, created and destroyed with its
slot; thread identifiers and aliases lead to that queue under L_THREAD, which
also serialises names, slots and the collector. An anonymous queue or mutex is
reclaimed by the atom collector, whose release function is the `Collect`
action of the queue and mutex modules. The collector marks the messages of all
queues. A thread signal interrupts a wait in a queue. The manager of the
thread pools and its clients are threads that use queues and `with_mutex/2`.
`references` of a predicate counts what the virtual machine enters and leaves:
that it leaves each frame once (`FramesLeftOnce` in `ControlMachine`) is what
`LogicalUpdate` and `ClauseIndex` take for granted.

## 2. The modules

| Module | Models | Extends / uses |
|---|---|---|
| `MessageChannel` | abstract: what a queue promises to its users | |
| `MessageQueue` | one queue, of any of the three kinds, and its users | refines `MessageChannel` |
| `MessageQueue_proofs` | types, counters and deletion; wakeups, bounds and the refinement | `MessageQueue`, TLAPS |
| `RecursiveLock` | abstract: a recursive lock | |
| `PrologMutex` | one mutex (by name: one object after the other) and its users | refines `RecursiveLock` |
| `PrologMutex_proofs` | the invariants, the memory, the refinement | `PrologMutex`, TLAPS |
| `PrologThread` | slots, identifiers, aliases, creation, end, join, detach | |
| `PrologThread_proofs` | who owns a slot, what a join returns, aliases | `PrologThread`, TLAPS |
| `AtomGC` | atoms, registrations, one queue, and the collector | |
| `AtomGC_proofs` | references, what is kept and what is collected | `AtomGC`, TLAPS |
| `LogicalUpdate` | one dynamic predicate under calls, asserts and retracts of several threads | |
| `LogicalUpdate_proofs` | counters and memory, the view of a search | `LogicalUpdate`, TLAPS |
| `ClauseIndex` | the hash table on the first argument of such a predicate | |
| `ClauseIndex_proofs` | the counters, the buckets, and what frames are given | `ClauseIndex`, TLAPS |
| `BodyCompiler` | the compiler and decompiler of clause bodies, as functions | |
| `ControlMeaning` | what a body means, by the manual, as functions | |
| `ControlMachine` | the virtual machine on control structures, running any code | |
| `ControlMachine_proofs` | the shape of the stack, frames left once, cleanups run once, and code that needs no trust | `ControlMachine`, TLAPS |
| `ControlVM` | that machine on the compiler's code, and its answers | `ControlMachine`, `BodyCompiler`; checked against `ControlMeaning` |
| `StackGC` | the collector of the stacks between the mutations | |
| `ThreadPool` | the manager, its clients and workers | |
| `ThreadPool_proofs` | the places of a pool, requests and answers | `ThreadPool`, TLAPS |
| `MC...` | constants and symmetry for TLC | each its module |

### MessageQueue

`q->mutex` is held from the step that enters the queue until the thread leaves
or waits, and nothing blocks in between, so that each critical section is one
action: `SendNow`, `SendWait`, `GetNow`, `GetWait`, `Peek`, ... A thread locks its
own queue without the lookup to read it (`thread_get_message/1`,
`thread_peek_message/1`) and with it otherwise. What is done
after the mutex is released has an action of its own: `Delete`
(`destroy_message_queue()` by the last user), `PropertyRead`, `HandleAndRetry`
(signal handling). `message_queue_destroy/1` is split at the place where it
changes `queueTable`. L_THREAD is the variable `lthread`, because it is held
from the lookup until `q->mutex` is locked, and all along the exit of the
owner, which loops until the readers are gone (`ExitBroadcast`, `ExitDestroy`).

A wait ends by a signal or broadcast (`woken`), by the 250 ms tick of
`dispatch_cond_wait()` (`Tick`), or by the deadline (`Expire`); the actions
`SendInterrupted`, `SendTimeout`, `SendDestroyed`, `SendWaitAgain`,
`SendDrained`, and the same for readers, are the cases of the code after it
returned. `pthread_cond_signal()` picks any blocked thread. A pattern is the
set of messages it unifies with; the variable is the full set, as
`waiting_var` distinguishes it. `seen` is the `sequence_id` up to which a
reader scanned the queue.

`MessageChannel` has a sequence of messages and one pending call per thread;
`Put`, `Take`, `Peek`, `Destroy` and the failures take effect at one instant.
The refinement maps the pending call to the request of a thread whose outcome
is still open; an interrupted call is pending.

### PrologMutex

Every use of the pointer `m` is a step of its own, as no lock protects it: get
the object by name or blob (`Get`), look at `destroyed` (`CheckDestroyed`),
compare the owner (`LockAgain`, `TryAgain`, `LockOther`), take the system mutex
(`LockTake`, `TryTake`, `TryBusy`), unlock (`Unlock`), look at `auto_destroy`
(`AfterUnlock`), and the four steps of a destruction (`MarkDestroyed`,
`Withdraw`, `DestroyMutex`, `Arm`). The goal of `with_mutex/2` is whatever the
thread calls until `Leave`. `depth` is a history variable: the locks each
thread was granted. A step that would use freed memory is not defined;
`NoUseAfterFree` tells whether one is reached.

### PrologThread

A region of the code under L_THREAD is one action, and so is each use of a
slot outside of it: `thread_join/2` looks up the slot (`FindToJoin`), reads
`detached` (`CheckJoin`) and waits (`Join`, `Joined`). The one exception is the
read of `detached` by a thread that ends (588): if it leaves its slot to a joiner it
touches nothing shared from there on, so that its end is part of that step; a
detach or a join that comes in between leaves what it leaves after the end.
Identifiers of POSIX threads (`Tids`) are used once;
`EndThread` and `SystemDetach` say what `pthread_join()` and
`pthread_detach()` make of them. A creator may fail at the points named by
`Faults`: bad options, no thread to inherit from, alias in use,
`pthread_create()`, no memory for the stacks. The end of a thread runs
`freePrologThread()`: `RunHooks`, `FreeData`, `FreeDetached`, then
`Unalias` and `Clear` for `free_thread_info()`, which in the code may call
itself through `freePrologThread()` (`again`).

### AtomGC

`PL_unregister_atom()` is three steps: the test of `gc_active`
(`Unregister`), and then either `Swap`, the compare-and-swap that turns the
last reference into a mark, or `Note` and `Decrement`. The collector's loops
advance one atom, or one area of one thread, per step: `Unmark`, `Mark`
(`Roots` gives the order: for each thread what it unregisters, its global
stack, its local stack, its queue; then the queue table), `Sweep`. Beside it
threads load atoms from structures (`Load`, `Write`), send, get and peek
messages, drop atoms, and copy them between stacks. Which of these
the collector's locks exclude is in the guards: L_ATOM stops `Lookup`,
L_THREAD stops `Enter` unless the queue is anonymous, L_GC stops `EnterGC`.

### LogicalUpdate

A goal is `Begin` (`setGenerationFrame()`), `Enter` (`enterDefinition()`),
`FirstClause`, then `NextClause` and `Redo`, and `Leave`, which frees in a step
of its own (`Free`) what it unlinked. Assert is split between the link
(`AssertLink`) and the stamp (`AssertStamp`), a retract between the mark CL_ERASED
(`RetractMark`, or `RetractUnlink` when the predicate is not in use) and the
stamp (`RetractStamp`): these are what an unlocked reader can see in between. A
clause in freshly allocated memory has any stamp of `Stale`; a goal that began
before may be given it, which no property forbids because the code lets it
happen. The chain is the
set `linked` with a `rank` for each clause, so that what was unlinked still
has its place and its successor. `kept` and `seen` are history: the clauses
that were there when the call began and, once it searches, not erased by then,
and those it was given.

### ClauseIndex

Here the generations are abstracted to the set `view` a frame gets as it
enters, and what the mutex of the definition protects is one step; in return
there are the table with its buckets, its dirty counts and `size`, its limits
and its replacement. `FirstClause` chooses between the chain, an existing table
and a new one (`BestHash`, `HashDefinition`, which two frames may do at once);
`NextClause` walks whatever the frame began with, also when it is old. The
`assert(0)` of `deleteClauseBucket()` (675), for a clause that is not in its bucket,
is no step: `CheckDefinition` and `BucketsFollowChain` say that each clause is in
its buckets.

### BodyCompiler, ControlMeaning, ControlMachine and ControlVM

A body is a tuple of a functor and its arguments. `compileClause` and
`Decompiled` are recursive operators over it, with jumps relative as in the
source. In `ControlMachine` an action is one instruction, a `BacktrackX` is what
`frame_failed` does with a choice point of kind X, and `Unwind`, `Recover` and
`Uncaught` are `B_THROW`'s search for a catcher. A frame with its variables, and
a choice point, take one cell of the stack each. What the parent pointers lead
to from a cell is the recursive function `Chain`; a cut, a failure, an exception
and the end of a query leave sets of frames (`Discarded`, `Leaving`).

The machine has the clauses of a program, the compiler (`compiled`) and what a
program means (`meaning`) as constants: it runs whatever code it is given, and
what is proved of it is proved for every compiler whose code fits, and `Checked`
is a check of a clause's code alone that is enough for that. `ControlVM`
adds the compiler and `ControlMeaning`, which gives the events and solutions of
a body as a sequence, with no stack at all; `Init` computes it for each program
and the machine's `log` is compared with it. The compiler has RECURSIVE
operators, which the machine must not reach to be proved about.

### StackGC

One array holds all the stacks, and one action is one step of one loop of
`collect_stack()`: `Forward...` and `Backward...` are the marking of
`mark_variable()` by pointer reversal, `Reset...` and `Assignment...` early reset
in `mark_choicepoints()`, `Sweep...` the sweeps that build relocation chains,
`Down...`, `Skip...` and `Up...` the two passes of `compact_global()`. `Scripts`
bounds the runs: for each step the kinds of mutation that may be made there,
which slot, argument or term they use being chosen freely.

### ThreadPool

One action per clause of `update_thread_pool/3` (`CreatePool`, `DestroyPool`,
`CurrentPools`, `Create` with its cases `CreateThread` and `Delay`, `Exitted`), the
steps of a client between its messages (`ClientStep`), exceptions (`GiveUp`),
and exits. Queues
are those of `MessageQueue`, here sequences; `with_mutex/2` is that of
`PrologMutex`. `pools`, `lost`, `gaveUp` and the fields `strangers` and `failed` are
history. A pool is named by the number of its creation, which the code does not
know: the exit of a thread of an earlier pool counts for the one that has its
name now.

## 3. What is checked

| Run | Instance | Properties | States |
|---|---|---|---|
| `mq_named` | named, unbounded, 3 threads: 1 sender, destroyer and inspector, 2 readers; deadlines, signals | `DeletedOnce` `DestroyedQueueLeft` `DestroyedQueueDeleted` | 82 000 |
| `mq_thread` | a thread's queue: the owner reads and exits, 2 senders, 1 more reader | `WaitersCounted` `NoLostWakeup` `NoUseAfterFree` `ExitCompletes` `MatchedReaderServed` | 46 000 |
| `mq_channel` | anonymous, size 2, 5 messages sent: 3 senders, 1 of which reads and destroys too; signals, deadlines | `NoLostDrain` `ImplementsChannel` | 508 000 |
| `mx_lock` | named, not destroyed, 3 threads, 2 calls each | `ImplementsLock` | 311 000 |
| `mx_destroy` | anonymous, 2 threads, destroyed and collected | `CountedLocks` `NoUseAfterFree` `DestroyedUnheld` `ArmedIsDestroyed` | 50 000 |
| `tl_life` | 2 callers, 2 POSIX threads, 4 slots, all faults | `SlotOwned` `JoinsItsOwn` `AliasTrue` `RunningDetachedReclaimed` | 213 000 |
| `ag_safe` | 2 threads that register, 1 atom, 2 structures, an anonymous queue of 2 messages; outside of the three windows (`OrderlySpec`) | `NoDangling` `RefsExact` `GarbageGoes` | 917 000 |
| `lu_view` | 2 threads, 2 clauses and 1 to come, any stale stamps | `NoFreedClauseWalked` `SearchedViewKept` `CountsExact` | 316 000 |
| `ci_index` | 2 frames, 3 clauses of which 1 without a key, 2 tables | `CheckDefinition` `BucketsFollowChain` `WalkedTableLives` `ViewServed` | 591 000 |
| `vm_run` | 3571 bodies of nested control structures | `AnswersAgree` `FramesLeftOnce` `CleanupOnce` `CodeFits` `RoundTrip` | 95 000 |
| `sg_collect` | 6 families of mutations with collections, 10 cells, 3 frames of 2 slots | `TermsKept` `AlternativesKept` `MarkedIsNeeded` | 515 000 |
| `tp_pool` | 3 clients, 2 workers, 1 place, 1 delayed request, 1 failure | `SlotsExact` `OneAnswer` `EveryRequestAnswered` | 142 000 |

The comment before each property in its module says what it states and about
which code. `TermsKept` includes that none of the collector's own checks
(`sysError()`, `assert()`) fails; `CodeFits` is what the theorems about the
machine need of the code it runs (section 4); with the run, TLC evaluates the
assumption `CompilerChecked`, that the code of the compiler passes `Checked`. An
`assert()` of the machine that fails stops it, which is a deadlock that `vm_run` would
report: `AnswersAgree` has nothing to compare from there on. What the runs do not
repeat, because TLC refutes it, is in [section 5](#5-what-was-found).

*Bounds and why they suffice.* Three threads are the fewest with which a
signal can go to the wrong one of two waiters; two messages and the patterns
`{a}`, `{b}` and the variable are the fewest with which a reader is passed
over. In `mq_channel` two sends fill the queue (`MaxSize` 2) and three are left
(`SendBound` 5): two writers wait at a time, the third thread takes a message,
which signals one of them, and its next send may have the room before the one that
woke up, which waits again. `SendBound`
caps the messages sent, `DrainBound` the counter that a timed out send leaves
raised (section 5). Two callers and two POSIX threads reuse a slot, an
identifier and the alias; with `TidBound` 2 at most three slots are in use and
`SlotBound` 4 is never reached. Two threads suffice for what can go wrong with
a mutex that is destroyed, three for who is granted it; `CallBound` caps the
calls of a thread other than `mutex_unlock/1`. For the collector an atom is as
good as any other, since all it asks of an atom is whether it is marked and how
often it is registered; the one atom is created, reclaimed and created again.
Two threads are the fewest of which one is marked before the other, and with two
structures they change the count of the atom at the same time; `QueueBound` 2 has a
message behind the one that is taken.

For a predicate, one thread walks while another does everything that can be
done beside it; three clauses are the fewest with one before, at and behind
the place of the walker, and `Many` (16 in the code) is 2, so that both an
immediate and a deferred unlink happen. In `ci_index` the limits 10, 16, 10 and
100 of the code are 1, 2, 1 and 1 and a table is outgrown at once, so that
tables are built, grown out of, shrunk and replaced with three clauses. The
bodies of `vm_run` put each small body into each place where it matters what it
leaves behind, and put the leaves there twice; the predicates called have one
and two clauses. The scripts of `sg_collect` have every kind of garbage below
and above what is kept, and up to three collections. One pool with one place
and one delayed request is full, delayed and refused with three creators.
Larger instances passed too: three threads that register, beside the collector,
with an anonymous queue (7 700 000 states) and with the queue of the first of
them (7 200 000), three threads on two clauses (759 000),
four clauses in the index (3 300 000), 30 008 bodies (1 040 000), longer
scripts (2 100 000), and more verbs for the clients of a pool (201 000).

*Symmetry* is used where threads, structures or callers are interchangeable,
and only in runs without liveness.

*Deadlock* is checked in all runs but `mq_channel`, `mx_lock`, `mx_destroy`,
`tl_life` and `tp_pool`. In these the system may stop: the bound on the calls is
used up, or every reference to the anonymous object is gone.

*Fairness.* `MessageQueue`: a thread that can take a step of its own does, and
a timed wait ends with a tick in the end; both are what the scheduler and
`pthread_cond_timedwait()` with 250 ms give. No fairness is assumed for new
calls, signals or deadlines. `PrologMutex`: threads run, goals of
`with_mutex/2` end, and a holder calls `mutex_unlock/1` in the end, the
hypothesis of the sentence in the manual. `PrologThread`: threads run and their
goals end. Only weak fairness is used. `AtomGC` states no liveness: that the
sweep ends is a loop over an array. `ThreadPool`: the manager and the clients
run, and the goals in a pool end; without the last a pool may stay full.

*Preconditions that matter.* `tl_life` has callers that join or detach only
the threads they created, each once. With `join_any` or `detach_any` in
`Verbs`, the rest being equal, TLC refutes `SlotOwned`, `JoinsItsOwn` and
`AliasTrue`: the slot pointer of
`thread_join/2` (1775) and `thread_detach/1` (1836) is used after another
joiner cleared the slot. In the disciplined instance the ESRCH branch of
`thread_detach/1` is not reached. `mx_lock` has no `mutex_destroy/1`;
`mx_destroy` has no names. `ag_safe` runs `OrderlySpec`, the behaviours that keep
out of three windows of the collector: no collection starts while a thread is
between the test of `gc_active` and the note in `PL_unregister_atom()` (962, 976),
no thread copies an atom to its global stack while the collector is between its
two stacks, and none sends one to a queue that was marked before its stacks were.
In the first two TLC refutes `NoDangling` in the instance of the run, in the third
with `Owner = 1` (section 5). `vm_run` has no cut in the condition of a soft-cut that can
be entered again (`CutAgain`); `sg_collect` has no assignment of a younger
unbound variable (`AssignYounger`); section 5 has what happens otherwise.
`SearchedViewKept` starts where the search does, not where the goal does.
`OneAnswer` is about clients that never stopped waiting, and
`EveryRequestAnswered` exempts what went with a pool or a manager, and pools
whose last place was lost to a failed creation: both happen in the code.

## 4. What is proved

TLAPS checks all of these to the last leaf, for all values of the constants
that satisfy the assumptions of the modules (`DataAssumption` has `Threads`
finite, for the queue's counters are compared with cardinalities;
`FiniteAssumption` of `LogicalUpdate` and of `ClauseIndex`, `AtomAssumption` and
`PoolAssumption` likewise; `StartAssumption` has no clause twice in a chain).
Some hold under a condition, which the instance that TLC checks meets too and
without any part of which TLC finds a counterexample (section 5, and
*Preconditions that matter* in section 3): the condition is a named operator,
given here in words.

| Theorem | Statement |
|---|---|
| `MessageQueue_proofs!TypeCorrect` | `Spec => []TypeOK` |
| `MessageQueue_proofs!CountedReaders` | `Spec => []WaitersCounted` |
| `MessageQueue_proofs!OneDeletes` | `Spec => []DeletedOnce` |
| `MessageQueue_proofs!FreedUnused` | `Spec => []NoUseAfterFree` for an anonymous queue, and for a thread's queue whose properties nobody asks for (`NoInspection`) |
| `MessageQueue_proofs!NoWakeupLost` | `Spec => []NoLostWakeup` |
| `MessageQueue_proofs!NoDrainLost` | `Spec => []NoLostDrain` |
| `MessageQueue_proofs!BoundedSize` | `Spec => []SizeBounded` |
| `MessageQueue_proofs!ChannelImplemented` | `Spec => ImplementsChannel` |
| `PrologMutex_proofs!MutexTypes` | `Spec => []TypeOK` |
| `PrologMutex_proofs!TrueFields` | `Spec => []CountedLocks` |
| `PrologMutex_proofs!Exclusion` | `Spec => []LiveExclusion` |
| `PrologMutex_proofs!OnlyUnheldDestroyed` | `Spec => DestroyedUnheld` |
| `PrologMutex_proofs!RecursiveLockImplemented` | `Spec => ImplementsLock` when nobody destroys the mutex (`NobodyDestroys`) |
| `PrologMutex_proofs!MemoryUsedInTime` | `Spec => []NoUseAfterFree` when nobody destroys the mutex, or for an anonymous one when nobody calls `mutex_unlock_all/0` (`NobodySweeps`) |
| `PrologThread_proofs!SlotsOwned`, `JoinedIsOwn`, `AliasesTrue` | `Spec => []SlotOwned`, `[]JoinsItsOwn`, `[]AliasTrue` for callers that join and detach what they created, once (`Disciplined`), and creations that do not fail after `detached(true)` is stored (`DetachedStarts`) |
| `AtomGC_proofs!NothingDangles` | `Spec /\ [][Orderly]_vars => []NoDangling`: in the behaviours that keep out of the three windows |
| `AtomGC_proofs!AtomTypes`, `ReferencesExact`, `GarbageGone` | `Spec /\ []NoDangling => []TypeOK`, `[]RefsExact`, `[]GarbageGoes`: in any behaviour, inside the windows or not, in which nothing dangles |
| `LogicalUpdate_proofs!Types` | `Spec => []TypeOK` |
| `LogicalUpdate_proofs!CountsTrue` | `Spec => []CountsExact` |
| `LogicalUpdate_proofs!NoFreedWalked` | `Spec => []NoFreedClauseWalked` |
| `LogicalUpdate_proofs!GarbageFew` | `Spec => []GarbageBounded` |
| `LogicalUpdate_proofs!SearchComplete` | `Spec => []SearchedViewKept` |
| `ClauseIndex_proofs!CountersExact` | `Spec => []CheckDefinition` |
| `ClauseIndex_proofs!BucketsOrdered` | `Spec => []BucketsFollowChain` |
| `ClauseIndex_proofs!WalkedLive` | `Spec => []WalkedTableLives` |
| `ClauseIndex_proofs!ViewsServed` | `Spec => []ViewServed` |
| `ControlMachine_proofs!TypeCorrect` | `Spec => []TypeOK` for code whose cuts find what they look for (`ChoicesKnown`) |
| `ControlMachine_proofs!FramesHold` | `Spec => []FramesLeftOnce` for such code |
| `ControlMachine_proofs!CleanupHappensOnce` | `Spec => []CleanupOnce` for such code that calls cleanup handlers from `setup_call_cleanup/3` only (`CodeFits`) |
| `ControlMachine_proofs!CheckedCodeFits` | `Spec => []CodeFits` for clauses whose code passes a static check (`CodeChecked`) |
| `ControlMachine_proofs!CheckedCodeRuns` | `Spec => [](TypeOK /\ FramesLeftOnce /\ CleanupOnce)` for such clauses, with no other condition |
| `ThreadPool_proofs!SlotsAccounted` | `Spec => []SlotsExact` |
| `ThreadPool_proofs!OneAnswerEach` | `Spec => []OneAnswer` |

*The queue.* `Typed` (the types without the counters) is inductive by itself.
Counting needs more than types: the counters are natural numbers only because
each reader that leaves was counted, so `Counted` (the counters are the
cardinalities of the sets of waiting readers) comes second and gives `TypeOK`
and `WaitersCounted` together. `CardinalityChange` states once how the sets
change as one thread joins, leaves or stays.

`NoLostWakeup` is not inductive: nothing in it says why the one reader that
`queue_message()` signals fits the message. The strengthening is `WakeInv`: the
queue is ordered by `sequence_id` (`Ordered`); what a reader skips as seen does
not match it (`SeenSound`); a blocked reader with a pattern has nothing to find
(`PatternBlocked`, since a send wakes everybody as soon as one such reader
waits with others); and where readers wait for a variable there are as many
woken ones as messages (`VarBlocked`). `WriterBlocked` is the same argument for
writers: the messages and the woken writers together fill the queue, so that
one signal per message taken is enough. `QuietStep`, `AppendStep`, `TakeStep`
and `BlockStep` show what each kind of step does to these conjuncts, and the
actions are instances of them.

`DeletedOnce` needs to know who may delete: `Deletion` has at most one thread
between the two halves of `message_queue_destroy/1`, and after them at most one
that deletes, which came to it as the last user of a destroyed queue
(`Over`: destroyed, and nobody waits). Why memory is used in time differs by
kind. An anonymous queue is freed when every thread is idle, which is part of
`Deletion`. For the queue of a thread, `ThreadUse` says that a thread that has
the pointer to another's queue holds L_THREAD or is counted, and that the owner
keeps L_THREAD until the counters are 0, with the queue out of the table by
then. `message_queue_property/2` is excluded (`NoInspection`) as it reads fields
after it gave its locks back; a named queue is excluded because the theorem
would be false (section 5).

`ChannelImplemented` maps the abstract channel to the messages of the queue
while it is `live`, a call to the request that has no outcome yet (or is
interrupted by a signal), and the reply to its outcome. `CallInv` adds what is
known of a call at each place (`CallPlace`: no outcome while it waits,
interrupted only if the thread may be signalled, expired only with a deadline)
and that a queue which is gone or cannot be found counts as closed. `SeenSound`
says that the messages which a reader skips do not match, so that the first one
it finds is the first one that the channel has for it (`CandidatesMatch`). Each
action is then the invocation of a call, its one effect on the channel together
with its return, the closing of the channel, or a stutter (`ChannelThread`,
`ChannelEnd`).

*The mutex.* `IInv` adds to the types and `CountedLocks` why the unlocked read
of `owner` is right: an owner was granted what `count` says, unless it took the
mutex to destroy it (`OwnerHolds`); the system mutex of a live object is held by
its owner (`SystemOwned`); whoever is about to mark an object destroyed owns it
without a lock granted (`DestroyerOwns`), and after that it is marked (`Marked`).
The refinement of `RecursiveLock` needs in addition that there is one object
which all pointers lead to (`OneObject`) and which call a thread is in at each
place (`CallAt`); each action is then a step of the abstract lock or a stutter.
That memory is not used after it was freed is `BlobReferred` for an anonymous
mutex: a thread in a call has a reference to the blob, and the collector frees
the mutex only when nobody has one. `mutex_unlock_all/0` comes to the mutex by
the table, without a reference, hence `NobodySweeps`.

*The threads.* `SlotOwned` looks like a property of slots, but what it rests on
is who may free one. `LifeInv` says it from three sides. A POSIX thread that
runs owns the slot it is at, and frees it only if it is detached (`ThreadSlots`);
a caller that creates has a slot that no thread has yet (`CreatorSlots`); one
that joins has the slot of a thread that is not going to detach itself, and
gets to free it after that thread ended (`JoinerSlots`). No two callers are at
one slot (`Exclusive`), nothing is freed twice (`FreedOnce`), and `MineLive`
carries the discipline through: whatever a caller has created and has yet to
join is there, not detached, waited for by nobody, and nobody else is about to
touch it. An alias leads to the slot that has it, but for the moment between its
removal from the table and the clearing of the slot (`AliasSlots`). Each of the
steps of a creation, of a thread's end, of a join and of a detach has a lemma
(`...Keeps`) with one step per conjunct. Both hypotheses are what the code does
not enforce: `thread_join/2` and `thread_detach/1` by several threads for one
(`Disciplined`), and a creation that fails with `detached(true)` stored
(`DetachedStarts`).

*The atoms.* Three invariants, each used by the next. `CInv`: the counts are the
registrations there are (`RefsExact`), an atom with a count is in the table
(`RefsPresent`), a hand is full exactly where a thread registers (`Hands`), and
who is inside the queue has its lock (`QueueHeld`). It is kept by every step but
the registration of an atom that was reclaimed (`Store`), hence the premise
`[]NoDangling`: no window matters to the counts by itself. `SInv` is the
argument of the collector, for any number of threads that register, any owner of
the queue and copies in both directions: while it marks, what is on a stack that it
has passed is protected (marked, registered, or in the hand of a thread that has
yet to note it), or sits in a queue that is still to be marked; while it sweeps,
everything reachable at or behind the place where it is, is protected. `GInv` is the
converse: what was garbage when the collection began stays unused, loses its mark
when the collector gets to it and is gone when the sweep has passed
(`DoomedUnused`, `DoomedUnmarked`, `DoomedSwept`). The three parts of `Orderly` are
the three windows of section 5, and each is needed: without it TLC finds an atom
that is reclaimed while it is in use.

*The predicate.* `IInv` ties the counters to sets: `references` is the number of
threads within the predicate (`Counted`), `number` and `erased` are those of
the chain (`Exact`). While somebody is within, nothing is unlinked, and what is
given back is erased and out of the chain (`Outside`); a thread that is not within
points to nothing (`Known`); so no pointer of a frame leads to freed memory.
`View` adds the order: the clauses that a search still has to give are in the
chain, at or behind the place where it looks next, and visible at its
generation, unless they are being retracted with a stamp that is going to be
above that generation. It needs that no two clauses of the chain have one place
(`Unique`), which `OldAssumption` gives for the clauses at the start.

*The clause index.* The first third is algebra: what `Only` (the members of a
sequence that are in a set, in order) makes of an append, a concatenation, a
removal and a cut. `Only` and `Filled` are recursive functions on the naturals; what
they satisfy is got from `NatLeast`, that a set of naturals has a least member.
The second third is about one table: `Sound(x, s, G)` says that its counters
are those of the chain `s` with the erased clauses `G` (`Exact`), that its
buckets have what they should (`PlacedIn`) and, for the clauses that a call with
a key may be given, the order of the chain (`Follows`); `HashedSound`,
`AddSound`, `EraseSound`, `UnlinkSound` and `GcSound` have one operation of
`pl-index.c` each. The last third is about frames: `Walking` says that what a
frame was given, followed by what is ahead of it in the sequence that it walks
(the chain, the table, or an old table), is, cut to what it must be given,
exactly `kept`. `NextServes` is the step of `nextClauseFromBucket()`: between
the clause it gives and the one where it stops there is none of `kept`, whether
it found the next one or gave up after `MaxSearch`. The proof needs no
hypotheses beyond the assumptions on the constants.

*The pool.* `Slots` adds up the free places, the threads that run, the exits in
the manager's queue and the failed creations. `HitsAppend` and `HitsTail` say
how the number of entries of a kind changes as a message is put into and taken
out of a queue; with them each step of the manager keeps the sum. The number by
which a pool is named is at most `pools` (`Named`), so that no thread that runs
or is about to exit is taken for one of a pool still to be created.
`OneAnswer` needs that a client whose request is lost waits for ever
(`LostWait`): otherwise it could send again and have two. Each step of the
manager then moves one request from the queue to an inbox or to the backlog
(`Moves`), or loses all of them with the pool or with itself.

*The virtual machine.* Nothing in the stack says which frames are in use: the
code compares addresses and follows parent pointers. `Chain` is what they lead
to; its recursion ends as each cell points to an older one (`ChainDefined`,
from `NatLeast`). `Good` is the shape: frames lead to frames and choice points
to choice points, older ones further on; what is newer and in use keeps the
frames, older than a choice point, of that choice point (`Keeps`); and a choice
point that is not in use is no older than the newest that is and was there
before it. `LiveIn` are the frames in use. A few steps make up all actions: a
frame or a choice point on top, a cut (`CutLeaves`: the frames that it
discards, choice point by choice point, are those in use before it and not
after it, none of them twice), a choice point that is unlinked, a fall back to
one. `Whole` adds the types of the cells and that the variables hold choice
points that are older than the next cut needs them. With `inside` equal to the
number of `LiveIn` this is the invariant `IInv`.

What no shape of the stack gives is that `C_CUT`, `C_LCUT`, `C_LSCUT` and
`C_SOFTCUT` find in the variable they name a choice point that the clause left
there: that is up to the code, and `ChoicesKnown` states it for the instruction
the machine is at. `vm_run` checks it, within `CodeFits`, for the code of the
compiler. It does not hold for each body: section 5 has a soft-cut whose choice
point is overwritten.

`CleanupOnce` needs in addition, for `CInv`, what a handler that is armed is
recognised by: its choice point is in use and right above its frame, and nothing
of the goal is in use once the handler ran (`Guarded`); only frames of
`setup_call_cleanup/3` have handlers, and the frame of a goal which such a frame
called returns behind the call (`Handlers`). Each action again keeps the number
of armed handlers in step with `marked - cleaned`.

`CodeFits` speaks of the run. `Checked` speaks of the code of one clause, as a
loader could verify it: jumps go forward and stay inside, the last instruction
exits, a cut names a variable that some instruction on every way to it
(`Through`) sets, and between `C_SOFTIF` and its `C_SOFTCUT` nothing is cut and
nobody else writes the variable. That this is enough is `CheckedCodeFits`, by one
more invariant, `KInv`: the program counter, and each cell that leads back into a
frame (a frame to where its goal returns, a choice point to its alternative), is
`Resumable`. That is: the variables set on every way to that place are set
(`Assigned`, which holds across jumps because a jump over an instruction that
sets a variable is not `Through` it); inside the condition of a soft-cut the
variable names a choice point of this frame below that cell (`Softened`), before
the condition nothing older leads back into it (`Unsoftened`), and what is above
the frame returns to no older one (`Above`). A cut in the condition is what breaks
`Softened`, and the counterexamples of section 5 are of that kind: the check
refuses them. `C_LSCUT` occurs in such conditions only and is refused too. So
`CheckedCodeRuns` has no premise but this one, on the clauses that are entered
(`CodeChecked`), and the code of the compiler meets it but for these bodies:
`vm_run` evaluates `CompilerChecked` on all of its programs, and TLC found `CodeChecked` and `KInv` true in all states of the 3468 of them that
have no cut, `->` or `\+` in the condition of a soft-cut with an else.

*Model-checked only.* Every safety property and both refinements that a run
checks on the queue, the mutex, the threads, the atoms, the predicate, the index
and the pool are proved, and for the virtual machine what becomes of frames and
cleanups, under the conditions above. What TLAPS cannot do here
stays with TLC:

- liveness under fairness: `DestroyedQueueLeft`, `DestroyedQueueDeleted`,
  `ExitCompletes`, `MatchedReaderServed`, `ArmedIsDestroyed`,
  `RunningDetachedReclaimed`, `EveryRequestAnswered`;
- that the code of the compiler passes the check (`CompilerChecked`), or fits
  without passing it (`CodeFits`), that clause/2 shows what was compiled
  (`RoundTrip`) and that the answers are those of the manual
  (`AnswersAgree`): `BodyCompiler` and `ControlMeaning` compile, decompile and
  evaluate terms of any depth by RECURSIVE operators, in modules with which the
  provers have no arithmetic, and what such an operator yields for every input
  is an induction over data;
- `TermsKept`, `AlternativesKept` and `MarkedIsNeeded` of `StackGC`: they compare
  terms of any depth before and after a collection, by a RECURSIVE operator too.
  (`Chain`, and `Only` and `Filled` of `ClauseIndex`, are recursive functions on
  numbers, for which one induction is enough.)

## 5. What was found

Each of these follows from a model by changing the constants named, or by
checking the property named; none is repeated by a run of the project.

Statements of the source or the manual that TLC refutes:

- `assert(!queue->waiting && !queue->wait_for_drain)` (3016), the property
  `DestroyAssertion` in the instance of `mq_channel`: a send that times out
  (2639) leaves `wait_for_drain` raised, and the assertion fails
  when the queue is collected.
- "it will be destroyed when it becomes unlocked" (`threads.doc` 684), the
  invariant `DelayedDestruction` in the instance of `mx_destroy`:
  `mutex_destroy/1` sets `auto_destroy` (4492)
  after its trylock failed; the holder unlocked and looked at the flag in
  between.
- Detached threads are reclaimed (`threads.doc` 81), the property
  `DetachedReclaimed` in the instance of `tl_life`: `thread_detach/1` (1836)
  of a thread that is ending sets a
  flag nobody reads again.
- `assert(info->goal)` (1569), the property `GoalAssertion` with
  `DetachedFaults` not empty: a detached `thread_create/3` that fails frees its
  slot twice (588, 1746). `SlotOwned` is refuted by the same instance, and by
  one with aliases for detached threads, where the alias is taken already.
- "This is fixed by putting the atom we are unregistering in
  LD->atoms.unregistered" (`pl-atom.c` 944-947), the property `NoDangling` in the
  instance of `ag_safe` with `Spec` for `OrderlySpec`: `gc_active` is tested (962)
  before the atom is noted (976), and the collector starts in between.
- The logical update view: "visible clauses are not affected by assert/retract
  after a query started on the predicate" (`threads.doc` 579-581,
  `builtin.doc` 2852-2855). A goal takes its generation (`pl-vmi.c` 1660) before it
  counts in `references` (2689); a clause it could see is erased and unlinked at
  once (`pl-proc.c` 1190-1212) in between, while one retracted before it is
  still there. The goal gets a set of clauses that the predicate had at no
  instant. In `lu_view`: `kept` without its restriction to what is not erased
  when the search begins.
- "The assignment is undone if backtracking brings the state back into a
  position before the setarg/3 call" (`builtin.doc` 5067-5069). When the value is an
  unbound variable younger than the argument, `unify_vp()` (`pl-prims.c`
  2133-2135) makes the argument a variable and binds the other to it without
  trailing that: the other one stays bound after backtracking
  (`AlternativesKept` with `Scripts <- MCSetarg`, `AssignYounger = TRUE`).
- "The maximum number of threads that can coexist in the pool"
  (`thread_pool.pl` 48-49): threads of a destroyed pool go on, and their exits
  raise the free places of the pool created with the same name. The property
  that `Busy` is at most `Size` fails with `CallBound = 3` and three workers;
  `SlotsExact` says by how much.

Other behaviour that a reader should know of:

- *A named queue freed under a thread.* A thread that blocks on `q->mutex`
  (3477) is not counted; the last user deletes the queue meanwhile
  (`NoUseAfterFree` with `Kind = "named"`). `message_queue_property/2` reads
  fields after it released the queue (3692, marked FIXME there).
- *A queue that is never deleted.* A writer that finds the queue destroyed
  (2646) leaves `wait_for_drain` raised, so that nobody is the last user
  (`DestroyedQueueDeleted` with `MaxSize` 1).
- *A freed named mutex* (4150), as for queues (`NoUseAfterFree` of
  `PrologMutex` with `Kind = "named"`).
- *A lock of a destroyed mutex.* `pthread_mutex_lock()` fails and the result
  is not looked at (4346): the thread goes on as if it held it
  (`MutualExclusion` with `destroy`). A trylock then fails with another code
  than EBUSY and `assert(rc == EBUSY)` (4377) stops the process
  (`TrylockAssertion`).
- *A freed anonymous mutex.* `mutex_unlock_all/0` walks the table of mutexes
  (4449) and reads `owner` (4452) of one that the atom collector frees in
  between (4093), since the walk has no reference to its blob (`NoUseAfterFree`
  in the instance of `mx_destroy` with `"unlock_all"` in `Verbs`).
- *`auto_destroy` ignored* by the exit of `with_mutex/2` (6095) and by
  `mutex_unlock_all/0` (4455).
- *The order of marking.* A thread's own queue is marked right after that
  thread's stacks (`pl-gc.c` 5084). A thread with a higher identifier may then
  send its atom to it and drop the atom before its own stack is marked
  (`NoDangling` with `Spec`, `Owner = 1`, `Anonymous = FALSE`, and a collection that
  does not start in the window of `PL_unregister_atom()`).
- *A soft-cut whose condition is entered again after a cut in it.* After the
  first solution `C_SOFTCUT` (`pl-vmi.c` 2403) has taken the choice point of the
  soft-cut out of the chain; `C_LSCUT` (2239) then takes for it the oldest one
  that the condition has created since, and leaves that one uncut: the
  condition goes on behind its cut (`AnswersAgree` with `Programs <-
  MCCutAgain`).
- *A soft-cut whose choice point is overwritten.* When the condition of a soft-cut
  is entered again by backtracking, its choice point is out of the chain and
  nothing protects it: the cut of an if-then-else in the condition sets `lTop`
  below it (2358-2366) and what is pushed next may have its address, which
  `C_SOFTCUT` then unlinks. `p :- ( m, (a -> a ; a), (a ; m) *-> true ; a ).` loses
  alternatives that way, `m` being a predicate with two clauses (`AnswersAgree`
  with this body in `Programs`): the choice point at the address is the next one of
  the same size. With `p :- (m *-> true ; a), (m, (a -> a ; a), m *-> true ; a).`
  it is one of another frame in the model (`CodeFits`, `FramesLeftOnce`), where a
  frame and a choice point have one size; in the code that needs sizes that
  coincide. `MCPrograms` has neither body.
- *Thread pools.* A creation that fails keeps its place (366). A reply to a
  client that has exited raises in the manager (430), which ends it and all
  pools. A client whose wait ended with an exception takes the late reply for
  that of its next request (436). Two callers that find the manager dead both
  go to join it (252); one starts the next manager before the other, whose
  `thread_join/2` then waits for a thread that does not end.
- *Stacks that are not suspended* (`pl-atom.c` 827). An atom copied from the
  local to the global stack, as `B_ARGVAR` does, after the latter was scanned and
  dropped from the former before that is, is missed (`NoDangling` with `Spec` and
  the same restriction).

Outside of what is modelled: `collectAtoms()` assigns the counter of
unregistered atoms (`pl-atom.c` 763) while other threads increment it, so that
the counter that triggers a collection drifts; `LD->atoms.unregistering` is
never reset, which keeps one atom per thread from collection;
`number_of_rules` is not lowered by a deferred retract (`pl-proc.c` 1194,
1268-1316); `removeClausesProcedure()` increments `GD->generation` (1093)
without L_MISC; `firstClause()` gives up when `number_of_clauses` is zero
(`pl-index.c` 322), also for a goal that could still see a clause.

## 6. What is not modelled

Within the components that are modelled:

- *Message queues*: `message_queue_create/1,2` (it is the initial state);
  stack overflow and wakeup goals in `get_message()`; a deadline that is in the
  past when the wait starts, which returns at once; the memory of a message of
  a send that timed out; the keys by which the scan skips messages early.
- *Mutexes*: `mutex_property/2`, statistics, and the end of a thread that
  still holds one.
- *Threads*: `exitPrologThreads()`, `fork()`, `thread_property/2`,
  attached engines, signals, the growth of the slot array
  (`resizeThreadMax()`: the old array stays, slots do not move), what exit
  hooks do apart from `thread_detach/1`.
- *Atoms*: findall bags, release hooks and the agc hook, the range of builtin
  atoms, rehashing, the counter `unregistered`; the scan of one area is one
  step.
- *Predicates*: reload of source files, static code and its clause collector,
  thread-local predicates, hashes on other arguments and on several, lists in
  buckets (O_DEEP_INDEX is never defined). A clause is asserted at most once.
- *Virtual machine*: arguments and head unification, so that goals are
  propositional; arithmetic, foreign predicates, module-qualified calls,
  I_ENTER and I_CUTCHP; the debugger. The setup of `setup_call_cleanup/3` is
  `true`, and its handler succeeds and is only counted. Left-nested
  conjunctions are listed flat (`Listed`).
- *Stack GC*: attributed variables, global variables and the frozen bar,
  references between local frames, foreign term references, nested queries,
  the argument stack, the stack shifter. Which variables are live is a set per
  frame, where the code walks the instructions. That a collection ends is not
  stated. The old value of a duplicate assignment that is merged away survives
  the collection, which `MarkedIsNeeded` allows.
- *Thread pools*: one pool; `thread_pool_property/2` and the list of members;
  the mutex is destroyed inside `with_mutex/2` (in `create_pool_lazily`), which
  never takes effect.
- The branches for Windows and for builds without `ATOMIC_REFERENCES`.
- Memory is sequentially consistent: reads of `owner`, `destroyed`,
  `auto_destroy`, `detached` and `gc_active` without a lock return the last
  value written.

The components that have no module are in `PROJECT.json`, each with the reason.

## 7. Plan

Done: `MessageChannel`, `MessageQueue`, `RecursiveLock`, `PrologMutex`,
`PrologThread`, `AtomGC`, `LogicalUpdate`, `ClauseIndex`, `ThreadPool`, each with
its proofs; `BodyCompiler`, `ControlMeaning`, `ControlMachine` with its proofs,
`ControlVM`, `StackGC`.
What remains, in this order:

1. `ThreadSignals`: `updateAlerted()` and the races of its flag (`pl-wam.c`
   235-293), `executeThreadSignals()` (2371), which drops the signals behind one
   that raises, and `exitPrologThreads()` (829-941), which waits a bounded time.
2. `Deadline`: `timespec_cmp()` (2698), the carry (2739) and
   `process_deadline_options()` (3098) as functions over small ranges against
   exact arithmetic.
3. Composition: the queue of a thread with the slot it lives in
   (`PrologThread` with the exit of `MessageQueue`); findall bags in `AtomGC`;
   generations in `ClauseIndex`.
4. The reader's operator parser against a reference definition.

Theorems to come: for `PrologThread`, weaker hypotheses (several callers that
join one thread, as long as no two of them are past the lookup at once);
`NoUseAfterFree` of a named queue and a named mutex for threads that do not block
on a lock of an object that is being destroyed; a check like `Checked` that lets
conditions of soft-cuts cut, where nothing enters them again.
