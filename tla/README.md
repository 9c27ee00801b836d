# A TLA+ model of gopy

gopy is a port of CPython 3.14 to Go. Most of it is sequential: a parser, a
compiler, an interpreter and data types that behave as CPython's do, and that
are checked against CPython's own tests. What those tests do not reach is what
these modules are about. Python threads, generators and finalizers are
goroutines, and a GIL, a parking lot, condition variables and channels keep
them apart. Python code runs in the middle of a dict's lookup and of a garbage
collection. And a few data structures are right only if a long sequence of
operations leaves them right: the dict's table, the collector's lists, the tree
behind a context.

Contents: [inventory](#inventory), [modules](#modules), [composition](#how-the-modules-fit-together),
[runs](#runs-and-bounds), [fairness](#fairness), [proofs](#proofs),
[findings](#findings), [what is not modelled](#what-is-not-modelled), [plan](#plan).
Line numbers are of this commit's sources.

## Inventory

For each part: its state, its operations, who it talks to, what is hard about
it, and what makes it correct.

**Parking lot** (`pysync/parkinglot.go`). State: buckets of waiters, each a FIFO
list under a `sync.Mutex`, keyed by an address; a channel of one per waiter.
Operations: `Park`, `Unpark`, `UnparkAll`. Called by every primitive of
`pysync`, with callbacks that look at or change the caller's word under the
bucket's mutex. Hard: a timeout races with a dequeue; unrelated addresses share
a bucket. Correct: no waiter is signalled twice or forgotten.

**PyMutex, RWMutex, Event, OnceFlag** (`pysync/*.go`). State: one word each,
changed with compare-and-swap, plus who is parked on it. Hard: every access to
the word is a moment for somebody else; a flag says "somebody is parked" and may
be stale. Correct: exclusion, no lost wakeup, no starvation where the code
promises fairness.

**Recursive mutex and sequence lock** (`pysync/recursive.go`, `seqlock.go`).
State: a PyMutex with an ident and a level; a number that is odd while a writer
is at the data. Operations: lock and unlock by ident; `LockWrite`, `UnlockWrite`,
`AbandonWrite`, `BeginRead`, `EndRead`. Hard: ident and level are loaded by
goroutines that do not have the mutex; readers lock nothing, and the number
wraps. Correct: the level is the owner's; a read that `EndRead` lets pass is of
one version.

**The GIL** (`gil/gil.go`). State: locked, the holder as a Python thread and as
a goroutine, `requestDrop`, the list of a `sync.Cond`. Operations:
`AcquireReentrant`, `ReleaseGoid`, `Handoff`, `HeldByGoid`. Correct: one
goroutine runs Python; nobody sleeps on a free lock; a waiter gets its turn.

**Eval loop** (`vm/eval_call.go`, `vm/eval_gil.go`, `vm/eval_unwind.go`,
`vm/thread_hook.go`). State: the thread registered for each goroutine, the
switch timer and breaker of each thread. Operations: entering and leaving Eval,
the poll at RESUME and backward jumps, `handleEvalBreaker`,
`BeginAllowThreads`. Everything that blocks goes through here, or should.

**Generators and coroutines** (`objects/generator.go`, `vm/eval_gen.go`). State:
started, closed, running; a channel to the body and one back; the driver and
how it holds the GIL. Operations: `Send`, `Throw`, `Close` and the body's
resume, yield and end. Hard: the lock travels with the message; drivers are
themselves bodies; the body runs for the thread that created it whoever drives
it.

**Locks for Python** (`module/_thread/module.go`, `rlock.go`). State: a Go mutex
and a flag or an owner and count. Operations: acquire in three ways, release,
`_release_save`, `_acquire_restore`. Hard: the wait is without the GIL, the
bookkeeping with it.

**Threads** (`module/_thread/handle.go`). State: a handle's ident and `done`
channel. Operations: start, join. Hard: the starter waits with the GIL held.

**SimpleQueue** (`module/_queue/module.go`). State: a slice, a mutex, a
condition variable. Operations: put, get. Every idle worker of a
`ThreadPoolExecutor` waits in `get`.

**Dict lock** (`objects/dict_lock.go`). State: owner and depth per dict, a
condition variable. Operations: lock and unlock around every dict operation,
with Python code (`__eq__`, `__del__`) called in between.

**Dict table and iterators** (`objects/dict_lookup.go`, `dict_mutate.go`,
`dict.go`, `dict_iter.go`). State: slots with dummies, the order list, `used`
and `fill`, a version. Operations: lookup, insert, setdefault, delete, popitem,
clear, resize, iteration both ways. Hard: chains go through dummies, which use
up a table whose keys come and go; iterators hold positions in a list that
moves. Correct: a map that keeps the order of its keys; every lookup ends.

**Pending calls, signals, deferred finalizers** (`gil/pending.go`,
`gil/signals.go`, `objects/finalizer_defer.go`, `handleEvalBreaker`). State: a
ring of 32 callbacks, a list of finalizers, a breaker bit per thread, the
bridge's channel and handlers. Hard: work comes from goroutines that run no
Python; a bit is cleared before the work is done, and the work may fail.
Correct: what is queued is announced, and run once.

**Cyclic collector and weak references** (`module/gc`, `objects/weakref.go`).
State: a list per generation, a count and flags per tracked object, the
callbacks of dead weak references. Operations: track and untrack, `Collect` in
its passes (subtract references, partition, clear weak references, finalize,
find what came back, clear, callbacks), `freeze` and `unfreeze`. Beside it
objects die by their count. Hard: finalizers and callbacks are Python code in
the middle of a collection, with `state.mu` given up; "finalized" is kept in two
places. Correct: what a program can reach is not cleared, finalizers run once,
weak references are dead before the object is and call back once.

**Context variables and the HAMT** (`module/contextvars`, `hamt`). State: the
map of a context, the context a thread is in with its version, the value each
variable remembers, tokens; a persistent tree of three kinds of node.
Operations: get, set, reset, copy, `Context.run`; assoc, without, find and
iteration. Hard: a remembered value is valid by thread and version and holds no
reference; nodes change kind as keys come and go. Correct: get gives what the
context holds; the tree is a map, and no deeper than an iterator's stack.

**The rest** of the repository is listed in `PROJECT.json` with the reason it is
not modelled.

## Modules

| Module | Models | Actions |
| --- | --- | --- |
| `ParkingLot` | `pysync/parkinglot.go` | operators `BeginPark`, `Enqueue`, `Dequeue`, `DequeueAll`, `RemoveTimedOut`, `Signal`, ... for the modules below |
| `PyMutex` | `pysync/mutex.go` | one per access to the word in `LockTimed` and `tryUnlock`, and the clock |
| `FairLock` | what a mutex with handoff promises | `Ask`, `Acquire`, `GiveUp`, `Release`, `HandOver` |
| `RWMutex`, `Event`, `OnceFlag` | the files of those names | one per access to the word |
| `SeqLock` | `pysync/seqlock.go` | `LoadEven`, `SwapOdd`, `WriteCell`, `UnlockWrite`, `AbandonWrite`, `ReadCell`, `EndRead` |
| `RecursiveMutex` | `pysync/recursive.go` on `PyMutex` | `LockAgain`, `LockFirst`, the mutex's steps, `SetOwner`, `Unlock` |
| `Gil` | `gil/gil.go` | `Take`, `Wait`, `AlreadyHeld`, `ReleaseGoid`, `Handoff`, for the modules below |
| `EvalLoop` | Eval, breaker, `BeginAllowThreads` | `Enter`, `Acquire`, `Leave`, `Poll`, `HandleBreaker`, `BeginAllowThreads`, `EndAllowThreads` |
| `Generator` | generators on the eval loop | `Send`, `Throw`, `ThrowUnstarted`, then `Post` and `Collect`; the body's `Receive`, `Resume`, `SetRunning`, `Yield`, `Finish`, `Suspend`, `Answer` |
| `ThreadLock`, `RLock` | `_thread.lock`, `_thread.RLock` | acquire in its steps, release, save and restore |
| `ThreadHandle` | start and join | `Start`, `Publish`, `ReceiveIdent`, `CallFunction`, `Return`, `SetDone`, `Join`, `Joined` |
| `SimpleQueue` | `_queue.SimpleQueue` | `Put`, `Get`, `GetWaits`, `Woken` |
| `DictLock` | `objects/dict_lock.go` | `Lock`, `Woken`, `Unlock` |
| `PendingCalls` | breaker work | the bridge's `Arrive` to `SetPending`, `Defer`, `Arm`, and `handleEvalBreaker` in its steps |
| `GcGraph` | graphs and reachability | operators `Children`, `Closure`, `InDegree`, `Subtracted` |
| `GcPartition` | `moveUnreachable`, node by node | `Keep`, `SetAside` |
| `Collector` | a collection beside the program | `CollectStart`, `CollectMain`, `FinalizeNext`, `HandleResurrected`, `ClearNext`, `Reclaim`, `Callback`, `CollectStop`; the program's `New`, `Refer`, `Release`, `Forget`, `Freeze`, ... with what `Decref` does |
| `DictTable` | the combined table and iterators | one slot of a lookup each: `LookAtEmpty`, `LookAtDummy`, `LookAtKey`, `CompareReturns`, `CompareRaises`; what Python code asks for: `Call`, `PopItem`, `ClearAll`, `NewIter`, `Advance` |
| `OrderedMap` | what a dict promises | a question, `Ask`, and its answer: `Get`, `Put`, `SetDefault`, `Delete`, or `Fail`; `Clear` |
| `Hamt` | `hamt/*.go` | `Set`, `Delete`, by recursive `Assoc` and `Without` |
| `HamtWalks` | what a HAMT promises, and its tree as the walks of the keys | `Assoc`, by what the walk ends at: `AddLeaf`, `PromoteWith`, `AddChild`, `NewValue`, `Collide`, `SplitAt`; `Without`, by what is left: `Collapse`, `DropChild`, `Demote`, `RemovePair` |
| `ContextVars` | `contextvar.go`, `context.go` | `Get`, `Set`, `Reset`, `MakeContext`, `Copy`, `CopyCurrent`, `Enter`, `Exit` |
| `PysyncProofs`, `GilProofs`, `RLockProofs`, `WaitsProofs` (locks, threads, dicts, queues), `GeneratorProofs`, `PendingProofs`, `GcProofs`, `MapsProofs` (the dict's table, contexts, HAMTs) | proofs | |
| `MC*` | instances for TLC | |

State corresponds to the code's fields by name (`locked`, `holderGoid`,
`requestDrop`, `armed`, `owner`, `deferred`, `fill`, ...). Where code is between
two statements is the variable `pc`; its values are listed where each module
declares its types. Variables marked *history* are not in the code. Operators
marked *Mutant* are not part of any specification: they are the ways a
definition could be wrong that the properties are tried against.

An invariant named `RWInv`, `LockInv`, `PendingInv` and so on is the conjunction
of a component's type invariant and the named parts that make its bookkeeping
correct (`WordCountsHolders`, `UnlockNeverFatal`, `CallsAnnounced`, ...), each
with a comment of its own where it is defined.

What is one step. A section of code under one mutex is one step. A goroutine
that holds the GIL is alone among those that hold it until it polls its breaker
or calls `BeginAllowThreads`, so `acquire(False)` or `release` of a lock is one
step; what a goroutine without the GIL can see in between is split off. In
`pysync` nothing is alone, and every load, store and swap is a step. In
`Collector` and `DictTable` a step ends where Python code may run: the pass of a
collection that calls no finalizer is one, a lookup is one per slot it looks at.
The partition is one step of `Collector`; `GcPartition` is that step node by node.

What is abstracted. Python code is `pc = "run"`: it may poll, block, call or
leave at any moment. Time is a nondeterministic step: a timeout may pass as soon
as the code would look at a clock. A word's bits are a record or a set of flags.
Items of queues and callbacks are numbers in the order they were made. Exceptions
are where they change the control: a callback, a comparison or a body that
raises. A dict's key is a class of equal keys, and a hash a small number. A
bitmap with its packed array is a function from digits; nodes of a HAMT are not
counted, but values. In `Collector` a reference count is the number of edges and
of frames that hold the object.

## How the modules fit together

`PyMutex`, `RWMutex` and `Event` extend `ParkingLot` and supply the callbacks
that `Park` and `Unpark` run under the bucket's mutex. `PyMutex` implements
`FairLock` by a refinement mapping: `ImplementsLock` in `MCPyMutex`.
`RecursiveMutex` runs on `PyMutex` as it is: its lock and unlock are that
module's steps.

`EvalLoop` extends `Gil`; `Generator`, `ThreadLock`, `RLock`, `ThreadHandle`,
`SimpleQueue` and `DictLock` each extend `EvalLoop` and take its actions as they
are, so that a lock's wait and the GIL's wait interleave as in the program.

`Collector` and `GcPartition` share `GcGraph`: a collection takes as the set of
survivors what `PartitionIsReachability` says the walk leaves. `DictTable`
implements `OrderedMap` by a refinement mapping, `ImplementsOrderedMap`: dummies,
probes and resizes come down to a map that answers, in one step, the question it
was asked last or raises and is what it was; while its pairs are on the way to
another table those not moved yet count as well. `OrderedMap` takes one question
at a time, so the refinement is of a dict whose `__eq__` leaves it alone
(`MaxDepth` 1).

`Hamt` is the tree as the code has it, nodes in nodes, with `Assoc` and
`Without` by recursion. `HamtWalks` is the same tree seen from its keys: what the
walk of each key comes to at each level, a change of which is one step without
recursion, for which nothing is said of how it is come by. `MCMaps` keeps the
walks of the tree's keys in variables, and `HamtSound` asks besides the
invariant that they change as `HamtWalks` says, in every step. The depth of a tree
is that of a hash: the last digit is what is left of 32 bits, 2 of them, so that
a node of the last level has at most 4 children and is never full
(`HamtAssumption`). Without that it would be made an array node whose children
have no digit to go by, which the proof of `WalksInvariance` came upon.

`MCPysync`, `MCThreads`, `MCWaits`, `MCGc` and `MCMaps` are sums: `kind` picks in
the initial state which component a behaviour is of. Those of one sum share the
variables they have in common (the parking lot, the GIL) and nothing else. So
apart from the compositions above the modules are not composed with each other:
a thread that uses a generator, an RLock and a dict at once is left to the plan,
and `ContextVars` takes the map in a context for a map, which `Hamt` shows.

`PendingCalls` is on its own: it models what `handleEvalBreaker` does with the
calls-pending bit, `EvalLoop` what it does with the drop request. The two
branches share no state but the breaker's word, which is changed bit by bit with
compare-and-swap.

## Runs and bounds

`CHECK_DEADLOCK FALSE` stands where the program may really stop: clients that
are done or at a bound, or code that waits for itself or for a dict, queue or
gate with the GIL in its hands (see the [findings](#findings)).

| Run | Instance | What it shows |
| --- | --- | --- |
| `MCPyMutex` | 3 goroutines, 1 mutex, all three kinds of timeout | exclusion, no lost wakeup, no token sent twice; the mutex implements `FairLock` |
| `MCPysync` | RWMutex: a reader, a writer, one that is either; Event: a waiter without and one with a deadline, 2 notifiers; PyMutex: 3 goroutines, blocking locks; RecursiveMutex: 2 goroutines, level 2; SeqLock: 2 writers, 1 reader, numbers below 6 | the word counts who is in, nobody is forgotten, writers get in while the word says one is parked; a set event releases everybody, also against timeouts; a waiter past the fairness window gets the mutex; the level is the owner's; reads that count are whole |
| `MCThreads` | 3 threads in the eval loop; with 1 lock and code that releases what it acquired; or one that starts and joins 2 others, 2 handles | one runs, it owns the GIL, nobody sleeps on a free one, a drop request is honoured; mutex, flag and holder of a lock agree; what start and join return is true; acquire, start and join return |
| `MCGenerator` | a thread that drives two nested bodies; a body of a dead thread driven from outside Eval | the GIL follows whoever runs, is back with the driver before the answer, and drivers are answered |
| `MCWaits` | RLock: 3 threads, depth 3, conditions; dicts: 2 threads, 2 goroutines outside Eval, 2 dicts, nesting 2; queue: the same goroutines, 3 puts | count, owner and gate agree; one goroutine in a dict, nobody forgotten; no put lost on a waiter, order kept |
| `MCPendingCalls` | 2 threads, 3 signals, channel 1, queue 2, 2 finalizers, a handler that raises | queued work is announced, run in order, once, and in the end |
| `MCGc` | 2 objects, 2 generations, 3 operations of the program on any graph it may start from; the walk over every graph of 3 nodes, with up to 1 reference from outside each | what is held is kept; what comes back is not cleared; weak references are dead before their object and call back once; the partition is reachability, in whatever order the list is walked; collections end |
| `MCMaps` | dict: 3 keys, two with one hash and one that starts at their slot, tables of 4 and more; tree: 7 keys in 4-way nodes of 3 levels; contexts: 2 threads, 3 contexts, 2 tokens | the table counts what is in it and is an ordered map, iterators are faithful, lookups end; the tree is a map and its walks change as `HamtWalks` says; get gives what the context holds, tokens and runs nest |
| `MCOnceFlagNil` | 3 goroutines | a finding |
| `MCRLockRestore` | 2 threads that use a condition | a finding |
| `MCFinalizedOnce` | 2 objects, 5 operations | a finding |
| `MCDictClear` | 2 keys, tables of 2 and more, with dummies when it is cleared | a finding |

Why the bounds are enough. The hazards of locks are races of two parties over
what a third left behind, so three goroutines per lock is where the holder, a
waiter that has been signalled and one that comes along all differ. Two
goroutines at the GIL leave out that a third takes it from under a signalled
waiter, which is why `MCThreads` has three. Queues are as short as lets them be
empty, part full and full (`QueueSize` 2, `ChanSize` 1), so that overflow happens
within three signals (`MaxSignals`), and a second finalizer (`MaxFinalizers`) can
arrive while the first is being run; the second of three signals has the handler
that raises (`Failing`), so that there is one before and one behind it. Nesting
of 2 (`MaxNest`) tells the outermost level from an inner one, and `MaxDepth` 3
lets a lock be re-entered, saved, restored and re-entered. `MaxPuts` 3 is one
item for each getter and one to spare. `MCPyMutex` has one mutex on one bucket;
that several addresses share a bucket, and do not disturb each other, is proved
for every `BucketOf`. Numbers below 6 (`SeqModulus`) let a sequence lock come
round past a reader; no reader sleeps for a whole lap, which is the code's own
assumption with 2^32.

Two objects are a cycle, an object held by another, and one brought back by
another's finalizer; two generations tell the collected one from an older one.
`Init` is any graph a program could have made, so that the bound of 3 on its
operations (`MaxSteps`) is on what it does during a collection; 5 let an object
be saved, tied into a cycle and dropped. Three nodes are enough for one that is
put aside, found and has to bring along another. Tables have 4 slots at first
(`MinSize`, 8 in the code), so that three keys and the dummies they leave make
it resize; a perturbation shifts by 5 bits as in the code, and the hash 36 shares
a slot with 0 and leaves it at the next step. In 4-way nodes that become arrays
at 3 (`Branch` and `Threshold`, 32 and 16) seven keys make a collision, a key
that leaves the collision one digit below it, arrays and their demotion; the
iterator's stack has 3 levels (`MaxTreeDepth`, 8), one more than a hash has
digits, as in the code. Two switches of context by a thread (`MaxSwitches`) are a
run in a run. Symmetry sets are used only in runs without liveness properties,
over model values the modules do not tell apart.

What the runs assume of Python code is in their constants, and the constants can
be set otherwise to see what follows (what does is under [findings](#findings)).

* `Careless` is empty and `Tidy` holds in `MCThreads`: code that has a lock
  releases it and does not release what nobody acquired; without that a blocking
  acquire need not return. `Reuse` is FALSE there: a handle is started once, as
  `threading.Thread` sees to.
* In `MCGenerator` a generator is driven by the thread that created it, or that
  thread is over. In `MCMaps` no two goroutines share a thread state
  (`ThreadOf`).
* `LateWeakrefs` is FALSE in `MCGc`: a finalizer makes no weak reference to the
  garbage it is part of.
* In `MCMaps` one operation on a dict is under way at a time (`MaxDepth` 1, an
  `__eq__` does not change the dict it is called for), no `__eq__` raises while
  a table is resized (`MayRaise`), and `clear` is called on a table without
  dummies (`ClearsDummies`).

## Fairness

Go's scheduler runs every goroutine that can run: weak fairness of a goroutine's
next step, wherever the step is the code's and not its client's (nobody *must*
call `Lock`, raise a signal or start a thread). The assumptions beyond that:

* A goroutine in `AcquireReentrant` that finds the GIL free again and again
  takes it in the end (strong fairness of `Acquire` to `run`): after a drop the
  holder calls `Gosched`, and Go's `sync.Mutex`, which guards the state, hands
  itself to a waiter of more than a millisecond.
* The same mutex fairness for `lk.mu.Lock` of a Python lock. Where `PyMutex`
  claims fairness of its own it is *not* assumed: only waiters past the window
  are shown to be served, by handoff.
* Code that has a lock lets go of it: holders of an `RWMutex` (weakly fair), code
  that gets to run again and again while it has a Python lock (strongly). A
  thread's function returns, a generator body that gets to run again and again
  yields or ends, a signal handler returns or raises. A finalizer, a weak
  reference's callback and an `__eq__` return: `Collecting` and `Probing` are
  weakly fair.
* Python code polls its breaker, which the compiler guarantees by RESUME and
  backward jumps. The eval loop by itself and `MCGenerator` do not assume that it
  ever blocks or leaves. With locks and handles `MCThreads` does assume that code
  which goes on running makes a blocking call some day: with three threads a
  drop request may be lost for good (see below), and a waiter behind a thread
  that only computes is never served.
* `PendingCalls` is fair to the main thread only: no other one need ever poll.
  Callbacks behind one that raised are claimed only for when something else sets
  the bit.

`MCThreads` has one fairness condition per goroutine where the kinds of a sum
each have their own; in a behaviour of one kind it is that kind's.
`RequestIsHonoured` is about the request and not about who made it, for the
reason above. Nothing is claimed of the readers and writers of a `SeqLock`: both
may spin for ever.

## Proofs

The theorems hold for any number of goroutines, threads, mutexes, objects,
addresses and buckets. TLC checks the same invariants on the instances above.

**PyMutex** (`PysyncProofs`). `MutualExclusion` and `NoLostWakeup` are not
inductive: whether an unlocker may clear the word depends on who is queued,
which depends on what a parking goroutine saw of the word under the bucket's
mutex, and a handoff makes a goroutine an owner before it knows. The inductive
invariant `IInv` adds three parts to the properties. `QueuedInside`: who is on a
list is in `LockTimed` for that mutex and not dequeued yet. `SeenOK`: what a
goroutine remembers of the word; what `Park`'s check saw still holds when it
enqueues, because the bucket is locked in between. `ClaimsOK`: a waiter that has
been dequeued has one unlocker on its way to signal it, or its token already.
The lemmas about the lists come first: removing a waiter keeps the order and the
rest, and what `Enqueue`, `Dequeue` and `RemoveTimedOut` do to the set of the
parked. Each conjunct has a lemma that every action keeps it, with a step for
each action; `Invariance` collects them. The proofs use `LotAssumption` and
`LimitsAssumption`, which the modules state about their constants and TLC
evaluates. The types (`TypeOK`) are proved and in no run.

`MutexImplementsLock` proves that it implements `FairLock`. The abstract owner is
chosen (`OwnerOf`), so `MutualExclusion` is what makes it the one that owns
(`TheOwner`), and its invariance is used on both sides of a step. Then a step is
told by who owns and who waits (`OwnerNow`, `WantsNow`), and there is a lemma for
each kind: `LockTimed` asks, a compare-and-swap takes, `Clear` releases, a
timeout gives up, and most steps say nothing. `UnparkFirst` is `HandOver` or
`Release`, by whether the first waiter has waited long enough: only there does
the abstract lock change hands by somebody else's step.

**RecursiveMutex** (`PysyncProofs`). Its steps are the mutex's, so `IInv` stays;
`WhereInMutex` says where a goroutine in `Lock` or `Unlock` is in the mutex, and
with both, who is inside is the one that owns it (`AloneInside`). Assumes one
mutex.

**OnceFlag** (`PysyncProofs`, on an instance of the module). `RunsOnce`, `LockedForAReason` and `NeverParks`
are inductive together: who claims the flag finds it unlocked, so nobody runs and
nobody has succeeded. It needs no assumption, and is the whole check of those
three: there is no run on them.

**SeqLock** (`PysyncProofs`, on an instance). A torn read is excluded by the
number alone, which neither the reader nor the writers lock. `CellsFollow` ties
the data to the number and to how far the writer has got; `ReadersFollow` says
what a reader has read *as long as* no cell was written since it began
(`Untouched`), which is all that `EndRead` has to find out. The number is taken
modulo any even `SeqModulus`: `ComesRound` and `VersionOf` are its arithmetic.
The bound in `UnlockWrite` stays a hypothesis: that the number does not come
round to a reader's during its read, 2^31 writes in the code.

**Event and RWMutex** (`PysyncProofs`, on instances that share the parking lot's
variables). Both park everybody on one address and wake all of them at once,
dequeuing under the bucket's mutex and signalling afterwards. `Sleep` is what
that takes: who sleeps is parked or claimed, a token is for somebody claimed, and
each place on the list of those still to be signalled is for one claimed sleeper
without a token, in one list once. Its lemmas, one for each step of the lot, are
used twice. `EvPromise`: while somebody is parked or about to be, the word is not
Unset, and if it is Set a notifier has not unparked yet. `RWPromise`: HasParked
without a writer inside was set for a writer, who still wants the lock; whoever
parks has HasParked set, or an unparker is on its way. This last is what lets
`RUnlock` leave HasParked behind. `RWCounts` needs the threads to be finite.

**EvalLoop and ThreadLock** (`GilProofs`, `WaitsProofs`). `OneRuns` follows from
`HolderRuns`: who runs owns the GIL, and it has one owner. That needs to know
that a goroutine on the condition's list is in `AcquireReentrant` and not running
(`CondOK`), or a release could wake somebody who is elsewhere, that a release
finds its caller the owner (`OwnerOK`), and that a blocking call always had the
GIL to release (`NeverPinned`). On top of it `LockIInv` says which goroutine has
each lock's mutex, as a holder or as an acquire on its way back, and when the
flag has to be up already. For `ThreadHandle` (also in `WaitsProofs`)
`HdHandles` says that a handle has one thread, whose ident it has once the thread
has published it; it assumes `~Reuse`, without which it is false (Findings,
`handle.go:271`). The theorems assume `OwnThreads`: every goroutine runs
for a thread of its own. Threads do; generator bodies do not, and that case is
what `Generator` is for. The lock's theorems assume that `Careless` is empty
besides. `TypeOK` and `HolderRuns` are proved and in no run.

**Generator** (`GeneratorProofs`). None of `GenInv`, `AnsweredDriverHolds` and
`AnswerIsComing` is inductive: that a body which is sent to is not at work
already, or that a driver is waited for by nobody who has the GIL, depends on how
control went through all the bodies of the thread. `Control` says so. Exactly one
goroutine of a thread, if any, goes on by itself or with the lock (`OneControl`);
each of the others is idle, or waits for a body in a chain that starts outside
the bodies (`Rooted`) and leads to the one in control (`Leads`). Both chains are
stated without recursion: no set of goroutines is closed under waiting. `Linked`
ties channels, messages and drivers together, and `Baton` says of each place
whether the goroutine there has the GIL. The theorems assume `WellDriven`:
outside bodies goroutines run for threads of their own; who drives a body runs
for the thread that created it; and nobody throws into or closes a body that
drives it in turn, directly or through others. Sending to such a body is allowed,
because `Send` looks at Running and raises. The code enforces none of the three:
what happens without them is told under Findings (`generator.go:902`,
`gil.go:136`). TLC evaluated `WellDriven` and the inductive invariant on
`MCGenerator`'s constants before they were proved.

**RLock** (`RLockProofs`), on the eval loop's invariant. `Places` says where a
goroutine in acquire is and who got the gate, `SavedOK` that what
`_acquire_restore` will put back is not 0, `PollsOK` that polls happen outside
the bookkeeping; with them the count is the depth of the owner. It assumes
`OwnThreads`.

**SimpleQueue** (`WaitsProofs`, on an instance of the module). `EnoughWoken` is inductive with the types
and with the number of sleepers being finite: a put signals one more, or there is
nobody to signal, and a woken getter that finds the queue empty leaves nothing
behind. FIFO needs `ItemsInOrder`: what was taken, what is queued and what is to come
are consecutive.

**DictLock** (`WaitsProofs`). `DIInv` adds to the properties where a goroutine
is that waits, on one dict's list at a time (`ListsOK`), or came into Eval from
inside an operation (`PlacesOK`). The assumption `Identities` is the code's own:
goroutines run for threads of their own, and a thread's id is no goroutine's
number. With goroutines that share a thread it fails, which is a finding.

**PendingCalls** (`PendingProofs`). All of `PendingInv`. That work is announced
and that a finalizer is in one place are inductive with the types. That handlers
run in order needs `InOrder`: numbers increase along what was called, the queue,
the bridge's hand and the channel.

**ContextVars** (`MapsProofs`, on an instance). All of `ContextInv`. A
remembered value is current because the version that it was seen at is never
ahead of the thread's, and grows with every change of context (`CxCacheOK`). A
token that unsets a variable finds it set because no second one would
(`CxTokensOK`). Why `Exit` does not fail takes all of a thread's contexts
(`CxRunsOK`): the runs of a goroutine are linked by `prev`, the innermost is the
thread's, the outermost goes back to a context of the thread's own that nobody can
enter, and no context is in two places. It assumes that no two goroutines have
one thread; otherwise it fails, which is a finding (`context.go:126`).

**GcPartition** (`GcProofs`). `PartitionInv` is inductive:
`SurvivorsClosed` (what a survivor visits survives or is still to be walked,
floated above 0) and `OnlyHeldSurvives` (every closed set that has the roots has
the survivors). At the end the two are the two halves of
`PartitionIsReachability`. It assumes that the list is finite.

**Collector** (`GcProofs`). The lemmas about the graph come first: a closure is
the least closed set, and what the subtraction leaves of a count is positive
exactly for what a frame holds or an object outside refers to (`CountLeft`), so
that the survivors are the closure of those and nothing refers to the rest but
the rest (`SurvivorsClosure`); `KeepsWhatIsHeld` is a consequence. That nothing
in use is cleared is not inductive; `Sealed` is: what is discarded is referred to
only from what is discarded with it, and no frame holds it. It is kept by
finalizers, because they reach only what is in use, until one runs for the second
time: `Decref` may then hand out an object that was discarded, so `Sealed` stands
under `FinalizedOnce`, as the property does. And it is kept by `Deref`, because
what is garbage or discarded has no live weak reference (`WeakCut`). That one
needs `~LateWeakrefs`, the run's own value: a finalizer that makes a weak
reference to its garbage breaks it in the code too (hazard `collector.go:170`).
The theorems `NothingInUseCleared` and `WeakrefsCorrect` assume it;
`CollectorCorrect`, `CallbacksExact` and `KeepsHeld` do not. Any number of
objects, generations and steps.

**DictTable** (`MapsProofs`). `TableIsSound` is not inductive, and not for what
it says of counts and lists: that no key is put in twice depends on a lookup that
finds every key that is there. `Findable` says so: each key is on the walk that
starts at its hash and meets no empty slot before. A walk is a set of spots, a
slot and what is left of the hash, closed under the next step but for its end
(`Path`), so that nothing is said of how long it is; it survives whatever fills
slots and empties none (`PathStays`), which is why `Delete` leaves a dummy. Of a
lookup under way, `WalkOK` says what it has passed: not its key, and no empty
slot; that the slot it is at is on *every* walk for its key (`Reached`); and that
the dummy it keeps is on its way. So one that comes to an empty slot has missed
nothing, and the slot it then fills is where the next lookup will find the key.
`RoomOK` is the same for a resize: the pairs still to be moved have keys that are
not in the new table, there is room for them and for the one to be put in, and
`nextDictPow2` is large enough for that. `IterOK` says what an iterator has given
of what was there.

With it, `DictIsOrderedMap` maps each step to one of `OrderedMap` or a stutter: a
call to `Ask`, the end of a lookup to the operation's answer, every look at a
slot and every pair moved to a stutter. For any keys, values, hashes, sizes and
shifts. The hypothesis `Undisturbed` is that `MaxDepth` is 1 (an `__eq__` makes,
advances and drops iterators but calls no operation on the dict) and
`ClearsDummies` is FALSE, which are the values of `MCMaps`; the refinement assumes
`~MayRaise` besides. What happens without each of the three is told under
Findings (`dict_mutate.go:232`, `MCDictClear`, `dict_mutate.go:302`). TLC
evaluated the invariant on `MCMaps`' constants, with `MayRaise` TRUE, before it
was proved.

`doubled`, the size after so many doublings, is a recursive function on the
numbers. The library's theorem on such definitions takes an operator, so the
proof goes another way: the first doublings exist and are unique (`UpToExists`,
`UpToUnique`), by an induction on sets of numbers (`SetInduction`) that follows
from `<` being well-founded.

**HamtWalks** (`MapsProofs`). Proved: a lookup finds what was stored, the count
is right, an iterator comes to each pair once and no deeper than a hash has
digits, and `without` never finds the node below a bitmap node empty, where
`hamt.go:450` panics. None of it is inductive, nor is all of it together: whether
a removal leaves an empty node depends on every node on the way. The invariant
`WalksInv` says of each key and level what the walk comes to, by what is stored
below (`Fits`): an entry is there if the one above is an inner node and a pair is
below; leaves and collision nodes have exactly the pairs that are below them, one
and several of one hash; no inner node below a bitmap node has a single pair;
no leaf is below an array node, which has at least as many children as a bitmap
node may have, and counts them. Keys with the same digits see the same
(`Shared`). So a step needs to say only what changes below each entry (`Gains`,
`Drops`); entries then stay (`Stays`), lose or gain a key below (`Above`), or are
made anew (`IsLeaf`, `IsBitmap`, `IsArray`, `IsCollision`, `Nothing`), and each
operation's lemma is a case for each place relative to the end of the walk.
`ArrayWide` is why an array node can be demoted and still have something below:
it has three children or more. For any keys and digits, any number of levels and
any threshold from 3; `WalksAssumption` says that the last digit has no more
values than the threshold, and TLC evaluates it on `MCMaps`' constants. TLC checked
every part of `WalksInv` before it was proved, on trees of two and three levels.

Only model-checked: liveness (fairness and `ENABLED` are beyond the prover), so
also that a lookup ends (`OperationsEnd`), which is about the remainders of
`5 * i + 1` and needs a table of a power of two, as the other proofs do not; and
that the tree of `Hamt`, whose operations are `RECURSIVE`, changes as `HamtWalks`
says, which is then sound for any keys (`HamtSound`).

## Findings

Four runs show that the code does what its comments deny.

* `MCOnceFlagNil`: `OnceFlag.Do` returns nil to callers while the function runs
  (`once.go:62`), where the comment says that they block. `flagOnceInitialized`
  is an alias of `flagLocked`.
* `MCRLockRestore`: `RLock._acquire_restore` parks on the gate with the GIL held
  (`rlock.go:360`), at the end of every `Condition.wait`; `acquire` gives the
  GIL up for that, and says why (`rlock.go:218`).
* `MCFinalizedOnce`: `finalizeGarbage` asks only for its own flag
  (`finalize.go:49`). An object that its `__del__` saved when its count came to 0,
  and that dies on a cycle later, has `__del__` run again; `header.go:38` says at
  most once.
* `MCDictClear`: `clearContents` resets the used slots (`dict.go:1027`) and
  leaves dummies, which are no longer counted. After `for i in range(8): d[i] = 1;
  del d[i]; d.clear()` no slot is empty, and `0 in d` never ends.

These were met while modelling, and have no run of their own. The models contain
the behaviour; the runs' constants or properties stay clear of it, as said.

* `rwmutex.go:97`: `Unlock` takes HasParked away before it unparks anybody, so a
  reader that looks in between takes the lock past a parked writer, and writers
  may lose to a stream of readers from there on; `rwmutex.go:15` says they are
  not starved. `WritersAreServed` claims it only while HasParked stands.
* `gil.go:98`: who takes the GIL clears the drop request of everybody who waits,
  and a waiter sets it once each time it wakes up. With three threads one that
  waits may wait for ever while the holder computes.
* `gil.go:136`: `Handoff` does nothing when the holder is another thread. A body
  runs for its creator's thread, so one driven by another thread does not own the
  GIL while it runs, and keeps everybody out while it blocks. One that it drives
  in turn takes the genuine mode and waits for the GIL of a goroutine that waits,
  through the two of them, for its answer (`eval_gen.go:39`).
* `eval_unwind.go:615`: the drop bit is cleared before the code looks at who owns
  the lock. A body that does not own it, as above, leaves the switch timer armed
  (`eval_gil.go:73`) and its thread is never asked again.
* `gil.go:87`: a body driven from outside Eval, whose creator is in Eval, finds
  the GIL held by its own thread and runs beside its creator.
* `context.go:126`: such a body, and one driven by another thread, use their
  creator's thread state, so its context variables as well. When both are in
  `Context.run`, what leaves first may find itself in the other's context:
  `Exit` fails and the context stays entered. With two goroutines of one thread
  in `ThreadOf`, `RunsNest` is violated.
* `generator.go:902`: only `Send` looks at Running. A body that throws into
  itself, or whose generator is thrown into by another thread while it runs,
  posts on a channel that nobody reads, or collects somebody else's answer.
* `module.go:376`: a blocking acquire has the mutex before it stores the flag.
  In between `acquire(False)` fails on a lock that `locked()` calls free.
* `module.go:403`: `release` outside Eval (a builtin as a thread's function) may
  be run by two goroutines at once; both see the flag, and the second unlock ends
  the process. `ThreadLock` has no goroutines outside Eval yet.
* `pending.go:69`: a handler that raises ends the drain; the bit is cleared
  already, and what is queued behind it waits for an unrelated signal or
  finalizer. `CallsAnnounced` and `CallsRun` state that exception (`CutShort`).
* `signals.go:106`: a signal that finds the queue full is forgotten. The bit
  that its comment relies on is read by nobody.
* `signals.go:87`: `select` may take the stop channel before a signal that waits
  in the other one; `signals.go:59` says that it still triggers its handler.
* `_queue/module.go:151`: `SimpleQueue.get` parks with the GIL held: no other
  Python thread runs, so none can put.
* `dict_lock.go:61`: a dict's lock is waited for with the GIL held, and its user
  may have dropped the GIL in a key's `__eq__`: the interpreter stops.
* `dict_lock.go:124`: outside Eval the owner is the goroutine's number, inside a
  thread's id: a goroutine that enters Eval inside a dict operation is somebody
  else to the dict's lock, and waits for itself.
* `handle.go:271`: a handle that has a thread is given to another one. Its `done`
  tells of the first to finish, and `join` returns while the other runs. With
  `Reuse`, `DoneMeansOver` is violated.
* `dict_mutate.go:232`: the slot that a lookup found is used without another
  look, though the `__eq__` that found it may have changed the dict: after a
  `clear` in the comparison of a `del`, `used` is -1. With `MaxDepth` 2,
  `TableIsSound` is violated.
* `dict_mutate.go:302`: an `__eq__` that raises while keys are moved to another
  table ends the move, and the keys not moved yet are lost. With `MayRaise`,
  `ImplementsOrderedMap` is violated.
* `collector.go:170`: weak references are cleared before the finalizers run. One
  that a finalizer makes to an object of its own garbage brings that object back
  when it has been cleared. With `LateWeakrefs`,
  `NothingFinalizedOnceIsCleared` is violated.
* `hamt.go:93`: the comment puts collision nodes at level 7. They are made
  wherever two keys' hashes agree (`hamt.go:271`) and lifted when another key
  comes between; `StackFits` holds all the same.

These are outside the models: they come from reading the code next to what is
modelled.

* `refs.go:24-47`: containers that do not count what they hold make the
  subtraction negative; the floor at 0 and `pinRoots` keep that safe, at the
  price of garbage that stays.
* `instance.go:278-282`: an instance with a finalizer that dies by its count
  does not release what its dict holds.
* `set.go:507-511`: `Discard` releases the key before it marks the slot, so that
  the key's `__del__` finds it in the set.
* `finalize.go:22` says that finalizers run with `state.mu` held;
  `collector.go:172-183` gives it up around them.
* `gc.collect()` does nothing, and answers 0, while the collector is disabled.
* QSBR: growing the array of threads leaves readers with the old one. Only tests
  register any.
* `SeqLock.AbandonWrite` after part of the data was written lets a torn read
  pass: that nothing has been written is up to the caller.

## What is not modelled

Within the modelled parts: forwarding of `yield from`, async generators and
exception state in `Generator`; threads whose function is not Python code,
except in `Generator`, `SimpleQueue` and `DictLock`; breaker polls inside a
pending call; a signal bridge that is started again; the keyword `blocking=` of
acquire, which the code ignores; the count of active threads;
`SeqLock.AfterFork`. Two goroutines of one thread share a breaker: `EvalLoop` has
the drop bit handled by the goroutine whose poll set it. Of the collector:
thresholds and the choice of a generation, `gc.callbacks`, `gc.garbage`,
untracking of tuples, reuse of weak references, proxies and weak containers. Of
the dict: split tables, watchers, key versions, copies, views, and Python code
that runs when a value is released. Of contexts: the mapping methods, and tokens
as context managers.

The generated parser, the codecs' and Unicode tables and the generated stubs of
the optimizer are a large part of the lines and have no state to model: data and
tables of CPython's. The compiler, opcodes, object model and accelerator modules
are sequential; what they compute is a matter of single calls, which CPython's
tests compare, and their inputs are more than TLC can enumerate. So the modules
translate a small share of the repository's lines. Every part is listed in
`PROJECT.json`, with the reason.

## Plan

Done: parking lot and its primitives, GIL and eval loop, generators, locks,
queues, threads, dicts, pending calls; the collector and its partition; the
dict's table against an ordered map; context variables and the HAMT; proofs of
all of `pysync`, `EvalLoop`, `Generator`, `ThreadLock`, `ThreadHandle`, `RLock`,
`SimpleQueue`, `DictLock`, `PendingCalls`, `ContextVars`, `GcPartition`,
`Collector`, `DictTable` with its refinement, and `HamtWalks`.

Left, in this order:

1. Compositions: `Generator` with `RLock` and with `DictLock` (owners that are
   goroutines against owners that are threads); goroutines outside Eval in
   `ThreadLock`; `ContextVars` on `Hamt`.
2. The set's table; split dicts; weak containers on `Collector`.
3. `yield from` and async generators in `Generator`.
4. QSBR and the index pool, when something other than tests uses them.

Theorems: that a tree which is a function on the paths of its nodes implements
`HamtWalks`, operation by operation.
