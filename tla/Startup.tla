------------------------------ MODULE Startup ------------------------------
(***************************************************************************)
(* How the process starts: the options gathered under BUILDER's mutex, the *)
(* lazy SINGLETON built from them by whoever needs it first, the binding's *)
(* once-cell, and scalanative_gc_init, which sets the upcalls, replaces    *)
(* the two global channels and spawns the synchronizer thread.             *)
(*                                                                         *)
(* Every caller is a thread of the runtime that makes one call into        *)
(* api.rs.  A panic ends the caller's call and drops its guards, as the    *)
(* tests that are marked should_panic see it; a guard dropped by a panic   *)
(* poisons its mutex.  MMTK_INITIALIZED is read and written as if          *)
(* sequentially consistent.                                                *)
(***************************************************************************)
EXTENDS Naturals, FiniteSets

CONSTANTS Callers,      \* threads that call into the binding
          Controller,   \* the collector's controller thread
          Workers,      \* its worker threads
          Sizes,        \* [min, max]: heap sizes a caller may ask for
          MaxGcInits,   \* bound: calls of scalanative_gc_init
          MaxRequests,  \* bound: requests the workers send
          NoOne

ASSUME StartupAssumption ==
    /\ Sizes \subseteq [min : Nat, max : Nat]
    /\ {MaxGcInits, MaxRequests} \subseteq Nat
    /\ Controller \notin Workers

Channels == 0 .. MaxGcInits     \* 0 is the pair of channels born dead
GcThreads == Workers \cup {Controller}
Calls == {"init", "process", "binding", "use", "collection", "gc_init"}

VARIABLES
    debug,        \* the build has debug assertions
    pc,           \* caller -> where its call stands
    call,         \* caller -> [kind, size, late]: late if MMTk was built before
    builder,      \* BUILDER: the options gathered so far
    builderLock,  \* the caller that holds the builder's mutex, NoOne or "poisoned"
    committed,    \* the options of every call that set all it sets  (history)
    once,         \* SINGLETON's Once, the options MMTk was built with or NoOne,
                  \* MMTK_INITIALIZED, and whether BINDING is set
    sync,         \* UPCALLS is set, the newest channels, those of REQ_SENDER and
                  \* RES_RECEIVER, and channel -> [asked, answered, server]
    gcThread,     \* GC thread -> its state
    registered    \* GC_THREADS

options == <<builder, builderLock, committed>>
threads == <<gcThread, registered>>
vars == <<debug, pc, call, options, once, sync, threads>>

NoSize == [min |-> 0, max |-> 0]
Policy(s) == [kind |-> IF s.min = s.max THEN "fixed" ELSE "dynamic", size |-> s]
Valid(s) == s.min <= s.max
DefaultOptions == [plan |-> "GenImmix", trigger |-> [kind |-> "default", size |-> NoSize]]
Options == [plan : {"GenImmix", "Immix"},
            trigger : {DefaultOptions.trigger} \cup {Policy(s) : s \in Sizes}]

ASSUME NamesAssumption ==
    NoOne \notin Callers \cup Options \cup {"poisoned"} /\ "poisoned" \notin Callers

Held == {"set_plan", "set_trigger", "process", "build", "store", "finish"}
Building == {"build_lock", "build", "store", "finish"}
Steps == Held \cup Building
         \cup {"lock", "assert", "force", "body", "upcalls", "sender", "receiver", "spawn"}
Ended == {"returned", "panicked"}

DeadChannel == [asked |-> 0, answered |-> 0, server |-> "ended"]

Init ==
    /\ debug \in BOOLEAN
    /\ pc = [c \in Callers |-> "idle"]
    /\ call = [c \in Callers |-> [kind |-> "none", size |-> NoSize, late |-> FALSE]]
    /\ builder = DefaultOptions /\ builderLock = NoOne /\ committed = {DefaultOptions}
    /\ once = [state |-> "new", built |-> NoOne, initialized |-> FALSE, binding |-> FALSE]
    /\ sync = [upcalls |-> FALSE, newest |-> 0, sender |-> 0, receiver |-> 0,
               channel |-> [g \in Channels |->
                              IF g = 0 THEN DeadChannel
                              ELSE [DeadChannel EXCEPT !.server = "none"]]]
    /\ gcThread = [t \in GcThreads |-> "none"]
    /\ registered = {}

Goto(c, at, next) == pc[c] = at /\ pc' = [pc EXCEPT ![c] = next]

-----------------------------------------------------------------------------
(* The runtime makes a call.  It calls scalanative_gc_init one call at a   *)
(* time, and starts the collector's threads only after that.               *)

Entry(kind) ==
    CASE kind \in {"init", "process"} -> "lock"
      [] kind = "gc_init" -> "upcalls"
      [] OTHER -> "force"

\* The arguments of a call that the properties tell apart: the heap size.
Arguments(kind) == IF kind \in {"init", "process"} THEN Sizes ELSE {NoSize}

GcInits(states) == {c \in Callers : call[c].kind = "gc_init" /\ pc[c] \in states}

Call(c) == \E kind \in Calls : \E s \in Arguments(kind) :
    /\ Goto(c, "idle", Entry(kind))
    /\ kind = "gc_init" => sync.newest < MaxGcInits /\ GcInits(Steps) = {}
    /\ kind = "collection" => GcInits({"returned"}) # {}
    /\ call' = [call EXCEPT ![c] = [kind |-> kind, size |-> s,
                                    late |-> once.state = "done"]]
    /\ sync' = IF kind = "gc_init" THEN [sync EXCEPT !.newest = @ + 1] ELSE sync
    /\ UNCHANGED <<debug, options, once, threads>>

-----------------------------------------------------------------------------
(* mmtk_init and mmtk_process: options under the builder's mutex           *)

LockBuilder(c) ==
    /\ IF builderLock = "poisoned"
       THEN Goto(c, "lock", "panicked") /\ UNCHANGED builderLock
       ELSE /\ builderLock = NoOne
            /\ Goto(c, "lock", IF call[c].kind = "init" THEN "set_plan" ELSE "process")
            /\ builderLock' = c
    /\ UNCHANGED <<debug, call, builder, committed, once, sync, threads>>

SetPlan(c) ==
    /\ Goto(c, "set_plan", "set_trigger")
    /\ builder' = [builder EXCEPT !.plan = "Immix"]
    /\ UNCHANGED <<debug, call, builderLock, committed, once, sync, threads>>

\* mmtk-core: an option keeps its value when the new one is not valid.
WithTrigger(s) ==
    IF Valid(s) THEN [builder EXCEPT !.trigger = Policy(s)] ELSE builder

\* The guard goes out of scope; the options count as whole if the call has set
\* all it sets.
ReleaseBuilder(whole) ==
    /\ builderLock' = NoOne
    /\ committed' = IF whole THEN committed \cup {builder'} ELSE committed

\* Mutant: the guard lives until mmtk_init returns.
KeepGuard(c) ==
    /\ Goto(c, "set_trigger", "assert")
    /\ builder' = WithTrigger(call[c].size)
    /\ UNCHANGED <<debug, call, builderLock, committed, once, sync, threads>>

\* The end of the block: the trigger, the assertion about it, the guard.  Without
\* debug assertions a refused trigger goes unnoticed and the plan stays.
SetTrigger(c) ==
    /\ builder' = WithTrigger(call[c].size)
    /\ IF debug /\ ~Valid(call[c].size)
       THEN /\ Goto(c, "set_trigger", "panicked")
            /\ builderLock' = "poisoned" /\ UNCHANGED committed
       ELSE Goto(c, "set_trigger", "assert") /\ ReleaseBuilder(Valid(call[c].size))
    /\ UNCHANGED <<debug, call, once, sync, threads>>

\* The option named is the heap size.  It does not complete what a mmtk_init
\* left half set.
Process(c) ==
    /\ Goto(c, "process", "returned")
    /\ builder' = WithTrigger(call[c].size)
    /\ ReleaseBuilder(builder \in committed)
    /\ UNCHANGED <<debug, call, once, sync, threads>>

\* A name or value that is not UTF-8, or a name that mmtk-core does not know: a
\* panic with the guard held, in every build.
ProcessPanics(c) ==
    /\ Goto(c, "process", "panicked")
    /\ builderLock' = "poisoned"
    /\ UNCHANGED <<debug, call, builder, committed, once, sync, threads>>

AssertNotInitialized(c) ==
    /\ Goto(c, "assert", IF debug /\ once.initialized THEN "panicked" ELSE "force")
    /\ UNCHANGED <<debug, call, options, once, sync, threads>>

-----------------------------------------------------------------------------
(* SINGLETON: one caller runs the closure, the others wait for it          *)

AfterForce(c) == IF call[c].kind \in {"binding", "collection"} THEN "body" ELSE "returned"

ForceSingleton(c) ==
    /\ once.state # "running"
    /\ Goto(c, "force", CASE once.state = "new" -> "build_lock"
                          [] once.state = "done" -> AfterForce(c)
                          [] once.state = "poisoned" -> "panicked")
    /\ once' = IF once.state = "new" THEN [once EXCEPT !.state = "running"] ELSE once
    /\ UNCHANGED <<debug, call, options, sync, threads>>

\* A panic of the closure poisons the Once.
ClosurePanics(c) ==
    /\ pc' = [pc EXCEPT ![c] = "panicked"]
    /\ builderLock' = "poisoned"
    /\ once' = [once EXCEPT !.state = "poisoned"]

\* Mutant: the closure reads the builder without its mutex.
BuildUnlocked(c) ==
    /\ Goto(c, "build_lock", "build")
    /\ builderLock' = c
    /\ UNCHANGED <<debug, call, builder, committed, once, sync, threads>>

LockToBuild(c) ==
    /\ pc[c] = "build_lock"
    /\ IF builderLock = "poisoned"
       THEN ClosurePanics(c)
       ELSE /\ builderLock = NoOne
            /\ Goto(c, "build_lock", "build")
            /\ builderLock' = c /\ UNCHANGED once
    /\ UNCHANGED <<debug, call, builder, committed, sync, threads>>

\* The closure's own assertion, then mmtk-core's mmtk_init.
Build(c) ==
    /\ pc[c] = "build"
    /\ IF debug /\ once.initialized
       THEN ClosurePanics(c)
       ELSE /\ Goto(c, "build", "store")
            /\ once' = [once EXCEPT !.built = builder] /\ UNCHANGED builderLock
    /\ UNCHANGED <<debug, call, builder, committed, sync, threads>>

\* Mutant: MMTK_INITIALIZED is never stored.
ForgetToStore(c) ==
    /\ Goto(c, "store", "finish")
    /\ UNCHANGED <<debug, call, options, once, sync, threads>>

StoreInitialized(c) ==
    /\ Goto(c, "store", "finish")
    /\ once' = [once EXCEPT !.initialized = TRUE]
    /\ UNCHANGED <<debug, call, options, sync, threads>>

FinishBuild(c) ==
    /\ Goto(c, "finish", AfterForce(c))
    /\ builderLock' = NoOne
    /\ once' = [once EXCEPT !.state = "done"]
    /\ UNCHANGED <<debug, call, builder, committed, sync, threads>>

-----------------------------------------------------------------------------
(* What mmtk_init_binding and mmtk_initialize_collection do with SINGLETON *)

SetBinding(c) ==
    /\ call[c].kind = "binding"
    /\ Goto(c, "body", IF once.binding THEN "panicked" ELSE "returned")
    /\ once' = [once EXCEPT !.binding = TRUE]
    /\ UNCHANGED <<debug, call, options, sync, threads>>

\* mmtk-core: initialize_collection panics when it was already called, and
\* calls spawn_gc_thread for the controller and for every worker.
SpawnGcThreads(c) ==
    /\ call[c].kind = "collection"
    /\ IF gcThread[Controller] = "none"
       THEN Goto(c, "body", "returned") /\ gcThread' = [t \in GcThreads |-> "spawned"]
       ELSE Goto(c, "body", "panicked") /\ UNCHANGED gcThread
    /\ UNCHANGED <<debug, call, options, once, sync, registered>>

RegisterGcThread(t) == registered' = registered \cup {t}
UnregisterGcThread(t) == registered' = registered \ {t}

\* A GC thread registers itself, makes its upcall and enters mmtk-core, which
\* does not let it go again.
EnterCore(t) ==
    /\ gcThread[t] = "spawned"
    /\ RegisterGcThread(t)
    /\ gcThread' = [gcThread EXCEPT ![t] = IF sync.upcalls THEN "running" ELSE "crashed"]
    /\ UNCHANGED <<debug, pc, call, options, once, sync>>

-----------------------------------------------------------------------------
(* scalanative_gc_init and the synchronizer thread it spawns               *)

SetUpcalls(c) ==
    /\ Goto(c, "upcalls", "sender")
    /\ sync' = [sync EXCEPT !.upcalls = TRUE]
    /\ UNCHANGED <<debug, call, options, once, threads>>

ReplaceSender(c) ==
    /\ Goto(c, "sender", "receiver")
    /\ sync' = [sync EXCEPT !.sender = sync.newest]
    /\ UNCHANGED <<debug, call, options, once, threads>>

\* Mutant: RES_RECEIVER keeps the old receiver and the new one is dropped.
KeepReceiver(c) ==
    /\ Goto(c, "receiver", "spawn")
    /\ UNCHANGED <<debug, call, options, once, sync, threads>>

ReplaceReceiver(c) ==
    /\ Goto(c, "receiver", "spawn")
    /\ sync' = [sync EXCEPT !.receiver = sync.newest]
    /\ UNCHANGED <<debug, call, options, once, threads>>

SpawnServer(c) ==
    /\ Goto(c, "spawn", "returned")
    /\ sync' = [sync EXCEPT !.channel[sync.newest].server = "spawned"]
    /\ UNCHANGED <<debug, call, options, once, threads>>

StartServer(g) ==
    /\ sync.channel[g].server = "spawned"
    /\ RegisterGcThread(g)
    /\ sync' = [sync EXCEPT !.channel[g].server = IF sync.upcalls THEN "ready" ELSE "panicked"]
    /\ UNCHANGED <<debug, pc, call, options, once, gcThread>>

\* One request: its upcall, and the response, whose receiver must be alive.
Serve(g) ==
    /\ sync.channel[g].server = "ready" /\ sync.channel[g].answered < sync.channel[g].asked
    /\ sync' = IF sync.receiver = g
               THEN [sync EXCEPT !.channel[g].answered = @ + 1]
               ELSE [sync EXCEPT !.channel[g].server = "panicked"]
    /\ UNCHANGED <<debug, pc, call, options, once, threads>>

\* The loop ends when every sender is gone and the channel is empty.
Quit(g) ==
    /\ sync.channel[g].server = "ready" /\ sync.channel[g].answered = sync.channel[g].asked
    /\ sync.sender # g
    /\ sync' = [sync EXCEPT !.channel[g].server = "ended"]
    /\ UnregisterGcThread(g)
    /\ UNCHANGED <<debug, pc, call, options, once, gcThread>>

\* stop_all_mutators or resume_mutators: a send that nobody can receive is
\* printed and forgotten, so it is asked and never answered.
SendRequest(t) ==
    /\ gcThread[t] = "running"
    /\ sync.channel[sync.sender].asked < MaxRequests
    /\ sync' = [sync EXCEPT !.channel[sync.sender].asked = @ + 1]
    /\ UNCHANGED <<debug, pc, call, options, once, threads>>

-----------------------------------------------------------------------------
CallerStep(c) ==
    \/ LockBuilder(c) \/ SetPlan(c) \/ SetTrigger(c)
    \/ Process(c) \/ ProcessPanics(c)
    \/ AssertNotInitialized(c) \/ ForceSingleton(c)
    \/ LockToBuild(c) \/ Build(c) \/ StoreInitialized(c) \/ FinishBuild(c)
    \/ SetBinding(c) \/ SpawnGcThreads(c)
    \/ SetUpcalls(c) \/ ReplaceSender(c) \/ ReplaceReceiver(c) \/ SpawnServer(c)

ServerStep(g) == StartServer(g) \/ Serve(g) \/ Quit(g)

Next ==
    \/ \E c \in Callers : Call(c) \/ CallerStep(c)
    \/ \E g \in Channels : ServerStep(g)
    \/ \E t \in GcThreads : EnterCore(t)
    \/ \E t \in Workers : SendRequest(t)

\* The scheduler runs every thread that can go on; nobody has to call or send.
Fairness ==
    /\ \A c \in Callers : WF_vars(CallerStep(c))
    /\ \A g \in Channels : WF_vars(ServerStep(g))

Spec == Init /\ [][Next]_vars /\ Fairness

-----------------------------------------------------------------------------
States == Steps \cup Ended \cup {"idle"}

CallsTypeOK ==
    /\ pc \in [Callers -> States]
    /\ call \in [Callers -> [kind : Calls \cup {"none"}, size : Sizes \cup {NoSize},
                             late : BOOLEAN]]
BuilderTypeOK ==
    /\ builder \in Options /\ committed \subseteq Options
    /\ builderLock \in Callers \cup {NoOne, "poisoned"}
    /\ \A c \in Callers : pc[c] \in Held <=> builderLock = c
OnceTypeOK ==
    /\ once \in [state : {"new", "running", "done", "poisoned"},
                 built : Options \cup {NoOne}, initialized : BOOLEAN, binding : BOOLEAN]
    /\ once.state = "running" <=> \E c \in Callers : pc[c] \in Building
    /\ once.state = "done" => once.built # NoOne /\ once.initialized
ChannelType == [asked : 0 .. MaxRequests, answered : 0 .. MaxRequests,
                server : {"none", "spawned", "ready", "ended", "panicked"}]
SyncTypeOK ==
    sync \in [upcalls : BOOLEAN, newest : Channels, sender : Channels,
              receiver : Channels, channel : [Channels -> ChannelType]]
ThreadsTypeOK ==
    /\ gcThread \in [GcThreads -> {"none", "spawned", "running", "crashed"}]
    /\ registered \subseteq Channels \cup GcThreads

\* Type invariant.  The builder's mutex is held by the one caller that is
\* between its lock and its unlock, a caller runs SINGLETON's closure just
\* while the Once says so, and a built MMTk is published before the Once is
\* done (lib.rs, SINGLETON).
TypeOK ==
    /\ debug \in BOOLEAN
    /\ CallsTypeOK /\ BuilderTypeOK /\ OnceTypeOK /\ SyncTypeOK /\ ThreadsTypeOK

\* A mmtk_init has set the plan and not its heap size, and no assertion has
\* stopped it: api.rs:52 is compiled out of release builds.
SizeRefused ==
    /\ ~debug
    /\ \E c \in Callers :
         /\ call[c].kind = "init" /\ ~Valid(call[c].size)
         /\ pc[c] \notin {"idle", "lock", "set_plan", "set_trigger"}

\* MMTk is never built from options a mmtk_init left half set, its plan without
\* its heap size, whoever forces SINGLETON and whenever, also after a panic
\* between the two.  One exception: in a release build mmtk-core has refused the
\* size of a mmtk_init, which nothing notices there (mmtk_init, SINGLETON).
OptionsWhole == once.built \in committed \cup {NoOne} \/ SizeRefused

\* With debug assertions, a mmtk_init that is called after MMTk was built, by
\* whichever call built it, does not return as if it had set the options.
LateInitPanics ==
    \A c \in Callers :
        debug /\ call[c].late /\ call[c].kind = "init" => pc[c] # "returned"

\* At most one mmtk_init returns normally in a process: tests/mod.rs:2 says
\* that MMTk panics when it is initialised more than once.
InitOnce ==
    Cardinality({c \in Callers : call[c].kind = "init" /\ pc[c] = "returned"}) <= 1

\* Every call comes to its end: nobody waits for ever for the builder's mutex
\* or for the thread that runs SINGLETON's closure (mmtk_init, SINGLETON).
CallsEnd == \A c \in Callers : pc[c] \in Steps ~> pc[c] \in Ended

\* What the collector asks on the newest channel is answered, unless another
\* scalanative_gc_init takes over: the synchronizer thread starts after the
\* upcalls and both ends of its channels are in place (scalanative_gc_init).
RequestsAnswered ==
    \A g \in Channels : LET ch == sync.channel[g] IN
        (sync.newest = g /\ ch.asked > ch.answered)
            ~> (sync.newest # g \/ ch.asked = ch.answered)
=============================================================================
