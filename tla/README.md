# A TLA+ model of the MMTk binding for Scala Native

This directory holds a model of the Rust crate `mmtk_scala_native` (`src/mmtk`),
the binding between the garbage collection toolkit MMTk (`mmtk-core`) and the
Scala Native runtime: TLA+ modules, the TLC configurations that check them on
small instances, and proofs of their main invariants for the TLA+ proof system.

`mmtk-core` and the runtime are not in the repository.  They are modelled as
far as the binding uses them, and `PROJECT.json` marks each such definition
external.

## 1. Inventory

### Components

| Component | State | Operations | Source | Module |
|---|---|---|---|---|
| Stop-the-world handshake | request and response channel, mutex of the synchronizer thread, state of every mutator | `stop_all_mutators`, `resume_mutators`, `block_for_gc`, loop of the synchronizer thread | `collection.rs:33-71`, `api.rs:296-360` | `Synchronizer`, `PauseLedger` |
| Roots buffer | the lent `Vec` as pointer, cursor, capacity | `RootsClosure::new`, `do_work`, `flush`, `drop`, `report_nodes_and_renew_buffer`, `release_buffer` | `scanning.rs:43-182`, `api.rs:362-372` | `RootsClosure`, `RootReporting` |
| Root scanning | thread list, ranges, lock words, `WEAK_REF_STACK` | `scan_roots_in_mutator_thread`, `scan_vm_specific_roots`, `mmtk_mark_*` | `scanning.rs:184-425` | `RootScanning` |
| Object scanning and moving | header words, fields, lock words of objects and classes | `scan_object_and_trace_edges`, `copy` | `object_scanning.rs`, `object_model.rs` | `Tracing`, `LiveObjects` |
| Initialization | `BUILDER`, `SINGLETON`, `MMTK_INITIALIZED`, `BINDING`, `UPCALLS`, both global channels, `GC_THREADS` | `mmtk_init`, `mmtk_process`, `mmtk_init_binding`, `mmtk_initialize_collection`, `spawn_gc_thread`, `scalanative_gc_init` | `api.rs`, `lib.rs`, `binding.rs`, `collection.rs:73-130` | `Startup` |
| Mutator registry | boxed mutators, list of the runtime, queue of the iterator | `mmtk_bind_mutator`, `mmtk_destroy_mutator`, the iterator, the walk of the list | `api.rs:91-103`, `active_plan.rs`, `scanning.rs:339-352` | `Collection`, over `PauseLedger` |
| Sizes and layout | header, size, map of fields | `size`, `size_for_copy`, `round_to_next_multiple`, `align_ptr`, `obj_iterate` | `abi.rs`, `object_scanning.rs:106-129, 217-236, 262-277, 297-325` | `ObjectLayout` |
| Weak references | `WEAK_REF_STACK`, handler | pushes; nullify, call handlers, `process_weak_refs` | `scanning.rs:211-213, 354-397, 458-471` | the pushes and the referents in `RootScanning` and `Tracing`; the rest has no caller |
| Object pinning | `pinned_objects` | append, unpin | `binding.rs:25-37` | not modelled: the feature `object_pinning` is not declared in `Cargo.toml`, so no build has it |
| One-line C functions, edges, tests | none of their own | | `api.rs`, `edges.rs`, `tests/` | not modelled |

### How they interact

* A mutator allocates; mmtk-core raises its request flag and calls
  `block_for_gc`, an upcall that parks the thread.
* A GC worker of mmtk-core calls `stop_all_mutators`, which sends `Acquire` on
  `REQ_SENDER` and returns.  The synchronizer thread takes it, makes the upcall
  that stops every mutator and puts `Acquired` on a channel nobody reads.
  `resume_mutators` and `Release` work the same way.
* mmtk-core would run a root packet for each mutator named to the visitor of
  `stop_all_mutators`.  The binding never calls that visitor
  (`collection.rs:43-56` is commented out), so only the VM's packet runs; it
  walks the runtime's list of threads for their stacks and then marks the
  modules.  `RootScanning` models both packets.  A packet has `RootsClosure`s of
  its own and shares `WEAK_REF_STACK` with the others.  What a closure delivers
  is pinned.
* Other packets of mmtk-core prepare and release each mutator.  They are made
  from `VMActivePlan::mutators`, which lists the mutators by an upcall that
  calls back for each (`MutatorClosure`), and hold its references until they
  run.  Threads come and go beside all this by `mmtk_bind_mutator` and
  `mmtk_destroy_mutator`.
* Workers take marked objects from a queue and call
  `scan_object_and_trace_edges`.  It calls `trace_object` of mmtk-core for each
  reference, which may call back into `copy`.
* Everything uses `SINGLETON`, a lazy static built under `BUILDER`'s mutex by
  whoever needs it first; the upcalls are a global pointer that
  `scalanative_gc_init` sets.

### What is hard

Interleavings: the collector and the synchronizer thread; two workers on one
object or on the lock word of one class; two callers initialising.  Order: the
requests in the channel are all that pairs stops with resumes; the cursor, the
capacity and the pointer of a buffer belong together; upcalls and channels must
be in place before the thread that uses them.  Stale state: addresses read
before an object moves and used after, references to mutators kept in packets,
nodes of a list that changes under its reader.  Liveness: a thread parked with no
condition to check again, workers that spin on each other's claims, a Once that
takes a mutex.  Limits: full buffers, closed ranges, recursion through lock
words, sizes and addresses computed from different data.  `PROJECT.json` lists
33 hazards with their lines and the properties that cover them; two have none,
and their notes say why.

### What makes each component correct

* Handshake: every request is served once and in turn; from stop to resume no
  mutator runs; whoever parks runs again.
* Roots buffer: no write outside the Vec, every Vec freed once with its own
  capacity, no root lost.
* Root scanning: all roots and their monitors, and nothing else; it ends.
* Tracing: all that is reachable is scanned where it is now (the code loses
  monitors of monitors, see Findings), nothing else is kept, every reference follows; it ends.
* Mutator registry: a collection scans every mutator's stack and prepares every
  mutator, each once, and touches none that is gone; it ends.
* Layout: copy reserves what the object takes, and the scan stays inside it and
  misses nothing.
* Initialization: MMTk is built once, from whole options; no caller hangs; what
  the collector asks is answered.

## 2. Modules and the code

`PROJECT.json` maps every definition to its lines.  In each module a definition
that starts with the comment "Mutant" is a broken variant of the one after it;
no specification uses it.  Each shows that a property can fail.

**`Synchronizer`** starts when `scalanative_gc_init` has returned.  Variables:
state of each mutator, the runtime's stop flag, mmtk-core's request flag and
worker, both channels (`requests`, `responses`), where the synchronizer thread
is (`sync`), its mutex (`locked`), and four history counters.  One action per
step a thread can be preempted after; an arm of the `match` is three of them,
take the request, return of the upcall, send of the response.  The refinement of
`PauseLedger` is `INSTANCE ... WITH`, the four counters being history variables.
`MovesOnlyWhenStopped` states what a comment says and the code does not do.

**`PauseLedger`** is what the handshake promises, four counters: collections
begun and ended, stops, resumes.  It does not say that a collection waits for
its stop, because nothing makes it wait.

**`RootsClosure`** numbers the Vecs ever lent and keeps how each was rebuilt and
freed.  `DoWork` is the store, the increment and the flush if the buffer is
full; `Drop` is the flush and the release of the buffer the flush returned.
**`RootReporting`** is its abstract specification: objects handed over and a
prefix of them delivered, the whole when the closure is gone; the `INSTANCE`
maps its variables to `handed` and `delivered`.

**`RootScanning`** composes `RootsClosure` (an `INSTANCE` on shared variables)
with the scan: `Closure!New` when a packet begins or the VM's packet gets to
the modules, `Closure!DoWork` for every object marked, `Closure!Drop` at the
end.  Addresses are numbers, since alignment, heap bounds and the lock bit are
what the filters test.  The recursion of `mmtk_mark_object` is the stack
`calls`.

**`Tracing`** gives each object two addresses, old and new.  The header is one
word: forwarding bits and either the rtti pointer or the new address.  Each
worker runs the loop over the fields with every read and store of shared memory
a step of its own, and `trace_object` as mmtk-core's Immix space does it:
mark in place, claim, spin, copy, forward, or give the claim back.  Reading a
class through a header that carries bits is undefined behaviour: the worker
goes to the state `undefined`.  A heap says which objects lie in blocks being
evacuated and how many of them can be copied; `Uncontended` is the condition
under which nobody points to an object that stays in such a block.  Three
properties at the end state what the source says and the code does not do.

**`LiveObjects`** is what tracing owes the program: an object is kept because it
is a root or because something kept leads to it, at one of two addresses, a
decision made once.  `Tracing` maps `kept` to the marked addresses and `follows`
to `LeadsTo`, the graph of the heap: the reference fields of an object and the
monitors of its own lock word and of its class's, whatever the code traces of them.

**`Startup`** gives each caller one call out of six kinds, in both kinds of
build (`debug`).  A mutex dropped by a panic is poisoned, and so is a Once
whose closure panics.  `mmtk_process` may panic with the guard held, for a text or
a name it does not take.  `committed` collects the options that no `mmtk_init` has
left half set (history); `SizeRefused` says that a release build has ignored a
refusal.  `sync.channel` numbers the channel pairs; pair 0 is the
one born dead.

**`Collection`** composes `PauseLedger`, which stands for the handshake, with the
threads and the two readers of their list.  `life` is what has become of a
thread (its mutator is boxed from `BindMutator` to `DestroyMutator`), `list` the
runtime's list.  The walk keeps the thread of the node it is at, as the code
keeps the pointer; a node that is no longer in the list is freed, and a reader
at it goes to `undefined`.  `PushBack` is the closure the upcall calls, `PopFront`
is `next` of the iterator with the packet mmtk-core makes of the answer.
`quietWalk` and `quietIter` remember whether a reader started after its own
collection's stop.

**`ObjectLayout`** takes one object through `copy` and the scan of the copy.
Addresses are numbers of bytes from the object; sizes are calculated modulo
the word.  An object's words say what they point to; its class says whether it
is an array, of objects or not, and lists its reference fields.

`SynchronizerProofs`, `RootsClosureProofs`, `RootScanningProofs`, `TracingProofs`,
`StartupProofs`, `CollectionProofs` and `ObjectLayoutProofs` hold the proofs; modules that start with `MC` the values TLC
needs.

## 3. What the runs check

| Run | Question | Answer |
|---|---|---|
| `handshake` | Can requests get out of step, a parked mutator move or stay, however far the collector runs ahead? | No; the handshake implements `PauseLedger` with its fairness. |
| `moves_while_running` | Are all mutators stopped when tracing starts? | No: `stop_all_mutators` returns before the world has stopped. |
| `roots_buffer` | Can a buffer be overrun, freed twice or never, or a root be lost? | No, for any capacity the allocator gives. |
| `roots_scan` | Does the scan find all roots and their monitors, nothing else, and end? | Yes, if monitors are acyclic. |
| `tracing` | Is a heap traced and moved correctly, whether or not something has to stay in an evacuated block? | Yes, but for monitors of what is kept only as a monitor, the lock words of objects and the referents of weak references; rtti pointers are read safely while nothing that stays is pointed to.  Every step implements `LiveObjects`. |
| `rtti_misread` | Is every rtti pointer read while its bits are clear? | No: another worker's claim on an object that stays is visible. |
| `lock_word_stale` | Does the lock word of an object follow its monitor? | No: the new address is stored in the class. |
| `weak_referent_stale` | Does a weak reference follow a referent that is alive? | No: the scan skips the field and nothing comes after it. |
| `startup` | Is MMTk built once from whole options, does every call end, is every request on the newest channel answered? | Yes, but in a release build not from whole options once mmtk-core has refused a heap size. |
| `init_once` | Does only one `mmtk_init` return, as `tests/mod.rs:2` says? | No. |
| `collection` | Does a collection reach every mutator and none that is gone, with threads that start and exit around it? | Yes, for a reader that starts after its own collection's stop; the code does not wait for that. |
| `layout` | Does copy reserve what an object takes, and does the scan visit just its references? | Yes, for lengths that are not negative and classes laid out as the compiler does. |

### Properties, beside one type invariant per module

* `RequestsAlternate`: the channel holds just what was sent and not taken, and
  kinds alternate from where the thread stands.  `StoppedMeansParked`,
  `ResponsesMatchRequests`, `NoLostWakeup`, `ParkedEventuallyRuns`, `Ledger`.
* `InBounds`, `Ownership`, `FullPackets` (an action property), `Reporting` (the
  refinement).
* `RootsComplete`, `RootsSound` (least closed set, stated over all closed sets),
  `NoReentry`, `PacketsEnd`.
* `RttiReadsAligned`, `ReachableScanned` (everything an object that is kept leads
  to is kept, with the exception `KeptAsMonitor`), `OnlyReachableMarked`,
  `FieldsFollow`, `WeakRefsCurrent`, `TracingEnds`, `Kept` (the refinement).
* `OptionsWhole` (with the exception `SizeRefused`), `LateInitPanics`, `CallsEnd`, `RequestsAnswered`.
* `WalkExact`, `PreparedExact`, `NoDangling`, `CollectionsEnd`.  That the world is
  stopped when a reader starts is not enough for the first three: it may be
  stopped for an earlier collection, whose resume is still in the channel.
* `SizeExact`, `EdgesCopied`, `EdgesExact`.

### Findings

1. `collection.rs:38` does not wait for `Acquired`.  The scan of the roots and
   tracing can begin while mutators run, against what `object_model.rs:17`
   takes for granted.
2. `abi.rs:105` (also `abi.rs:135`, `object_scanning.rs:187`) reads through
   `rtti` unmasked, which `object_model.rs:21` asks for and `abi.rs:103`
   asserts only for an aligned pointer.
3. `object_scanning.rs:208` stores the new address of an object's monitor in
   the lock word of its class.
4. `object_scanning.rs:246` skips the referent of a weak reference, and what
   would update it is commented out (`scanning.rs:465-468`): the field keeps an
   address in condemned space (`object_model.rs:17`).
5. `api.rs:56` is the only test for a second `mmtk_init`: it is compiled out of
   release builds and is a check before an act in debug builds.

Two gaps have no run of their own.  The property about each names it as its one
exception, and fails when the exception is taken out:

6. `object_scanning.rs:180-214` traces the lock words of what a field points to
   and not those of the monitors it traces, as the scan of the roots does
   (`scanning.rs:249-268`).  If a field of a root leads to b, m is b's monitor
   and m has a monitor of its own, that one is neither marked nor scanned.
   `ReachableScanned` allows it for an object that is kept only as a monitor;
   the heap `Nested` of `MCTracing` is the example.
7. `api.rs:50-52`: without debug assertions nothing notices that mmtk-core
   refused the heap size of a `mmtk_init`.  Its plan stays, its heap size is the
   one before, and MMTk is built from both.  `OptionsWhole` allows it once there
   has been such a call (`SizeRefused`).

### Bounds, and why they are enough

* `handshake`: three mutators, three collections.  The worker can be three
  collections ahead, so six requests wait in the channel; one mutator can
  request, one be on its way to park and one run.  Beyond that the proofs
  cover every number of both.
* `roots_buffer`: packets of 2 objects instead of 4096, a capacity of 2 or 3,
  five objects and two closures: two full packets and a rest, an empty
  closure, capacities that change from one Vec to the next.  The proofs cover
  all others.
* `roots_scan`: 144 memories over three objects, one at each end of a heap
  from 8 to 24; words below, above, inside, unaligned; an object in the first
  and the last word of a range; chains of two monitors, through a class and
  through an object; two threads scanned twice.  `MaxHanded` is never reached.
  The proofs cover all heaps, lists and memories.  Packets are run one after the other: they share `WEAK_REF_STACK` alone.
* `tracing`: two workers and four objects are enough for two workers in one
  object, in two objects with a field to a third, and in each other's fields.
  In seven heaps everything that is pointed to in an evacuated block moves, two of
  them with a monitor that has a monitor, reached by a field and as roots; in
  three a pinned root there is pointed to, once with space left to copy it, or one
  object can be copied and then space is gone.  The proofs cover all heaps and
  any number of workers.
* `startup`: three callers, which lets two initialise while a third builds;
  two sizes, one that mmtk-core accepts and one it refuses; two calls of
  `scalanative_gc_init`; one request on each channel.
* `collection`: two threads in the list, so that the first, the last and the one
  a reader stands at can exit, and one that starts; two collections, so that the
  second can begin before the first one's resume.  The proofs cover all others.
* `layout`: integers up to 63 in words of 13 bits, the narrowest that can hold the
  product of two of them, as 64 bits can; an alignment of 16; sizes that are a multiple of it, one
  less and in between; all lengths of an array; every content of four fields or
  elements.  The proofs cover every width.

### Fairness and deadlock

In `Synchronizer` each thread's pending step is weakly fair: the operating
system schedules the thread, the runtime's upcalls return once their condition
holds, and a mutator that sees the stop flag reaches a safepoint.  Nobody is
obliged to allocate, to ask for a collection or to touch the heap.  In
`RootScanning` a running packet goes on; none has to start.  In `Tracing` every
worker is scheduled: weak fairness for each worker's next step, no order among
them.  In `Startup` every caller that can go on does, and so does every
synchronizer thread; nobody has to call or to send.  In `Collection`
both readers, every packet, the end of a collection and the handshake go on (the
last is what `Ledger` shows with its fairness); no thread has to start or leave.
`RootsClosure` and `ObjectLayout` need none.

Deadlock is checked for the handshake, where a mutator can always run.  The
other systems stop when their packets, graph or calls are used up, so the check
is off there and `PacketsEnd`, `TracingEnds`, `CallsEnd` and `CollectionsEnd` say that the
end reached is the right one.

## 4. What is proved

For all values of the constants, from the named assumptions alone
(for the handshake `MutatorsAssumption`, `MaxCyclesAssumption`; for the roots
buffer `CapacityAssumption`, `SlackAssumption`, `MaxClosuresAssumption`,
`UninitAssumption`; for the scan of the roots `HeapAssumption`,
`ClassAssumption`, `PacketAssumption`, `ClosureAssumption`, `MemoryAssumption`; for
tracing `HeapAssumption`, `ClassAssumption`, and `NamesAssumption`, which tells
null and a thin lock from addresses; for initialization `StartupAssumption`, and
`NamesAssumption`, which tells callers and the two names for a free and a
poisoned mutex apart; for collections `MaxCollectionsAssumption`,
`EarlyAssumption`, `NoneAssumption`; for the layout `WordAssumption`,
`ClassAssumption`, `ObjectAssumption`):

| Theorem | Statement |
|---|---|
| `SynchronizerProofs`: `Invariance` | the inductive invariant |
| `TypeCorrect`, `AlternationCorrect`, `StopIsStable`, `ResponsesCorrect`, `WakeupCorrect` | `TypeOK`, `RequestsAlternate`, `StoppedMeansParked`, `ResponsesMatchRequests`, `NoLostWakeup` |
| `ImplementsLedger` | the initial condition and the steps of `PauseLedger` |
| `RootsClosureProofs`: `Invariance` | the inductive invariant |
| `TypeCorrect`, `BoundsCorrect`, `OwnershipCorrect`, `FullPacketsCorrect` | `TypeOK`, `InBounds`, `Ownership`, `FullPackets` |
| `ImplementsReporting` | the whole refinement, `Reporting` (no fairness in it) |
| `RootScanningProofs`: `Invariance` | the inductive invariant |
| `TypeCorrect`, `CompleteCorrect`, `SoundCorrect`, `NoReentryCorrect` | `TypeOK`, `RootsComplete`, `RootsSound`, `NoReentry` |
| `TracingProofs`: `Invariance` | the inductive invariant |
| `TypeCorrect`, `RttiCorrect`, `OnlyReachableCorrect`, `ReachableCorrect`, `FieldsCorrect`, `WeakRefsCorrect` | `TypeOK`, `RttiReadsAligned`, `OnlyReachableMarked`, `ReachableScanned`, `FieldsFollow`, `WeakRefsCurrent` |
| `FlatCorrect` | `AllScanned` if `FlatMonitors`: where no monitor has a monitor, nothing at all is lost |
| `NoSpinDeadlock` | `SpinsForHolder`: a worker that spins waits for another that can go on |
| `ImplementsLive` | the whole refinement, `Kept` (no fairness in it) |
| `StartupProofs`: `Invariance` | the inductive invariant |
| `TypeCorrect`, `OptionsCorrect`, `LateInitCorrect` | `TypeOK`, `OptionsWhole`, `LateInitPanics` |
| `CollectionProofs`: `Invariance` | the inductive invariant |
| `TypeCorrect`, `WalkCorrect`, `PreparedCorrect`, `DanglingCorrect` | `TypeOK`, `WalkExact`, `PreparedExact`, `NoDangling` |
| `ObjectLayoutProofs`: `RoundsUp`, `AlignClears`, `AlignedIffClear` | what `round_to_next_multiple`, `align_ptr` and `is_ptr_aligned` return |
| `Invariance` | the inductive invariant |
| `TypeCorrect`, `SizeCorrect`, `CopiedCorrect`, `EdgesCorrect` | `TypeOK`, `SizeExact`, `EdgesCopied`, `EdgesExact` |

**The handshake.**  No safety property is inductive alone: that a stopped world
stays stopped depends on what is in the channel, and that on what the worker
did.  The invariant adds two things.  `WorkerInv` ties the worker to the counters:
idle means `begun = ended`, otherwise `begun = ended + 1`, so the next request
sent is number `begun + ended + 1` and of the right parity.  `ServerInv` ties the
synchronizer thread to its counters, the mutex and the stop flag.  With
`RequestsAlternate` the head of the channel is request number `Taken + 1`; hence the
parity of `Taken` says which arm runs.  `Parity`, `SendAlternates`,
`TakeAlternates` and `AnswerAlternates` are the lemmas, one for each way the
queues change.

**The roots buffer.**  `BufferInv` says that the fields of an open closure name
the newest Vec, its true capacity, and a cursor below it with all slots under
the cursor written; `FreedInv` that the Vecs freed so far are exactly 1, 2, ...
in order; `PendingInv` that `handed` is `delivered` followed by the written
slots.  `FlushEffect` carries the first two through the shared flush; the
refinement follows from the third.

**The scan of the roots.**  The closure is an instance on shared variables, so
its own invariant is carried along as one conjunct and what a packet needs of it
is stated once: a closed closure has delivered all that was handed over
(`ClosureFacts`).  The rest is about `Seen`, what was handed over or is in an
activation of `mmtk_mark_object`.  Progress and soundness pull in opposite
directions.  `ProgressInv` says that each word a packet has passed is seen if it
names an object, `MonitorsInv` that an object goes to the closure after its
monitors and that an activation past a lock word has that monitor handed over
or further up in `calls`; with the closure closed and `calls` empty this gives
`FinishedInv` and `RootsComplete`.  `SoundInv` says that what is seen lies in every
set that holds the roots and is closed under monitors, which needs no
recursion.  `PhaseInv` ties the closure, the list and `calls` to where the packet
is.  `DepthInv` says that every rank that goes down from an object to its monitors
goes down along `calls`: hence no object is there twice.

**Tracing.**  The properties about the end of tracing hold because of what is
true in the middle of it, with every worker somewhere in the loop.

* `HeaderInv` says what the bits mean: a header that says forwarded names the
  copy, and the copy is marked; one that says being has a claimant; no object is
  marked at both addresses.  `ClaimInv` makes the claimant unique and says what
  it has done.  The two hold each other up, and `NoSpinDeadlock` and
  `ImplementsLive` follow from them.
* `QueueInv`: what is marked is in the queue, scanned, or a copy whose address is
  not published yet.
* `Valid` and `Current` tell two kinds of addresses apart: one that may be held
  and still need tracing, and one that stays right.  `DataInv` says that memory
  holds valid addresses of the objects it named at the start, `FollowedNow` of an
  object that something marked leads to it.
* `WorkerInv` is the loop invariant: the slots below `slot` are done, and each
  place between two calls of `trace_object` has its own conjunct in `PlaceOK`
  about the argument, the result and the local `object`.  `ScannedInv` says the same of
  objects whose scan is over.
* `ClassLockInv` is where the stray store of finding 3 matters.  The lock word
  of a class can name the monitor of one of its objects, but only once the
  monitor of the class has been traced.  Without that last half
  `ReachableScanned` could not be concluded; without the first,
  `OnlyReachableMarked`.
* `ReachableScanned` at the end: a slot that is done has its referent and the
  referent's monitors traced (`DoneReferents`), and the roots are closed under
  monitors by `HeapAssumption`.  So the monitors of an object that is a root or
  that a scanned object points to are scanned, and only `KeptAsMonitor` remains.
  `FlatCorrect` applies `OnlyReachableMarked` to the set of objects that are
  roots or that something scanned leads to.
* `StayInv`: under `Uncontended` only pinned roots stay in evacuated blocks.
  With `MarkedAligned` (what is pointed to and marked is not being claimed) and
  `NotExhausted` (a count of the copies) this gives `RttiReadsAligned`.

Most facts only grow: `Grows` states what no step takes back, and `GrowsLasts`,
`PlaceLasts`, `WorkerLasts` and `ScannedLasts` carry the invariant of the other
workers through a step of one.  `LocalStep`, `StoreLockStep` and `TraceStep` are
what is left to show for each kind of step; then there is one lemma per action.

**Initialization.** `OptionsWhole` speaks of the moment MMTk is built; the
invariant says why the options are whole by then. `OneBuilder`: one caller at a
time runs the closure of the Once. `WholeInv`: the builder holds options that no
caller has left half set while its mutex is free or held by that closure, which
only reads them, or by a `mmtk_process` that has yet to set its own; in between
a caller may have set the plan and not yet the heap size. Each of the three
allows `SizeRefused` instead, which stays true once it is (`RefusedLasts`).
`SizeInv`: who is on its way to set a heap size has one, and who sets the plan
is a `mmtk_init`. `BuiltInv` says what the closure has done so far. `LateInv` is
what `LateInitPanics` needs: for a call that began once MMTk was built the Once
is done for good, so with debug assertions it does not get past
`assert!(!is_initialized)`. `OptionSteps`, `PanicStep`, `OnceSteps` and
`OtherSteps` go through the steps of a call, the `...KeepsSync` lemmas through
the channels.

**Collections.**  `QuietInv` says why a reader that saw its own stop sees a list
that stands still: the number of stops equals the number of collections begun,
one more than have ended, and resumes do not exceed ends, so the world is
stopped until the collection is over (`QuietStopped`).  `WalkInv` makes what the
walk has scanned a prefix of the list that ends where `head` is, `FillInv` and
`YieldInv` the same of the iterator: what is prepared, in packets and in the queue
is the list, in order.  `ListInv` says that the list has each thread once and just
those whose life is listed, hence boxed.

**Layout.**  `RoundsUp` is the arithmetic, from quotient and remainder;
`ExtentFits` shows that neither the product nor the sums wrap.  `ScanInv` says that
after `i` items the edges are the slots of those of them that are followed;
`SlotsDiffer` keeps them apart, `SlotInside` puts each inside the object, and
`AllSlots` compares the whole with the reference definition `RefSlots`.

### Only model-checked

Every invariant, `FullPackets` and the refinements `Reporting` and `Kept` are
proved.  Liveness is not: `ParkedEventuallyRuns`, the fairness of `Ledger`,
`PacketsEnd`, `TracingEnds`, `CallsEnd`, `RequestsAnswered` and `CollectionsEnd` need
`ENABLED` and well-founded induction over states, which the prover cannot do.
The five properties that fail are counterexamples, so there is nothing to prove.

## 5. Assumptions and what is left out

* Of mmtk-core: one collection at a time; the request flag is cleared by the
  collection that serves it; `trace_object` is that of Immix with opportunistic
  copying, in which a worker claims an object by setting its bits, gives the
  claim back when the object is pinned or there is no space, and marks an
  object in place otherwise; root packets pin what they deliver.
* Of the runtime: `stop_all_mutators` returns when every mutator is parked,
  `resume_mutators` signals all of them; every mutator comes to a safepoint;
  monitors are not, through lock words, their own (`NoReentry` and `PacketsEnd` are
  stated under `Acyclic`, so endless recursion in the scan of the roots is assumed
  away, not caught);
  `mmtk_initialize_collection` comes after `scalanative_gc_init`, and two calls
  of that do not overlap.
* A heap of `Tracing` has roots that are closed under monitors, as the scan of the
  roots delivers them (`RootsComplete`).
* `WalkExact`, `PreparedExact` and `NoDangling` are stated for a reader that starts
  after its own collection's stop; they say nothing of one that starts before,
  which `MovesOnlyWhenStopped` shows to be possible.
* Of the runtime, for `Collection`: its list of threads does not change while the
  world is stopped, new threads are put in front, a thread leaves the list
  before its mutator is destroyed, and the mutators that `get_mutators` names are
  those of the list.  Preparing and releasing mutators iterate alike; one of the
  two is modelled.
* `ObjectLayout` is for 64-bit targets.  A class's size covers its reference
  fields, its map names each once and ends in -1, elements of an array of objects
  are a word apart, and lengths are not negative: data that contradict each other
  are assumed away.
* `RootScanning` reads a memory nobody writes, although finding 1 says that
  mutators may still run: what a word holds that is being written is not said by
  the code.  `Collection` has what the list of threads can do in that time.
* `Tracing` updates no referent of a weak reference, nor does the code:
  `process_weak_refs` has its body commented out.  `FieldsFollow` leaves those
  fields out, `ReferentsFollow` is about them.  Nothing reads `WEAK_REF_STACK`:
  `mmtk_weak_ref_stack_nullify` and the handler have no caller, so they are not
  modelled.
* `scan_object` is not called by a collection, since `support_edge_enqueuing`
  returns false; `ObjectLayout` has its loop, which is that of
  `scan_object_and_trace_edges`, and `Tracing` the latter.
* `Startup` treats `MMTK_INITIALIZED` as sequentially consistent (the store is
  relaxed), and a panic as the end of the call, as the tests marked
  `should_panic` do; a toolchain that aborts at the boundary of an `extern "C"`
  function cuts each such behaviour short.
* Logging, debug assertions that only restate a check, the alternative
  non-moving and no-lockword features, and the commented-out code are left out.

## 6. Plan

Modelled and proved, in this order: `Synchronizer` (the protocol all else relies
on), `RootsClosure`, `RootScanning`, `Tracing`, `Startup`, `Collection`,
`ObjectLayout`; last the refinement of `LiveObjects`.  What could be added:

1. **The safety half of liveness**, as for `NoSpinDeadlock`: in `RootScanning`
   that a running packet always has a step and `calls` is never deeper than the
   number of objects under `Acyclic`; in `Startup` that whoever waits for the
   mutex or the Once waits for a caller that does not wait.
2. **The world during the scan**: `RootScanning` over memories that mutators still
   write, once the runtime says what such a word can hold.
