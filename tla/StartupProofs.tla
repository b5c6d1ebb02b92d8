---------------------------- MODULE StartupProofs ----------------------------
(***************************************************************************)
(* Proofs about Startup: type correctness, and the two safety properties   *)
(* of the options, for any number of callers, sizes, threads and channels. *)
(***************************************************************************)
EXTENDS Startup, TLAPS

\* One caller at a time runs SINGLETON's closure.
OneBuilder ==
    \A c, d \in Callers : pc[c] \in Building /\ pc[d] \in Building => c = d

\* What the caller that runs it has done so far.
BuiltInv ==
    \A c \in Callers :
      /\ pc[c] \in {"store", "finish"} => once.built # NoOne
      /\ pc[c] = "finish" => once.initialized

\* A caller on its way to set the heap size was given one, and it is a mmtk_init
\* that sets the plan before.
SizeInv ==
    \A c \in Callers :
      /\ pc[c] \in {"lock", "set_plan", "set_trigger", "process"} => call[c].size \in Sizes
      /\ pc[c] \in {"set_plan", "set_trigger"} => call[c].kind = "init"

\* The builder holds whole options, but for a size refused, while its mutex is
\* free, held by a mmtk_process that has not set anything, or held by the
\* closure, which only reads them.
WholeInv ==
    /\ builderLock = NoOne => builder \in committed \/ SizeRefused
    /\ \A c \in Callers :
         pc[c] \in {"process", "build", "store", "finish"} => builder \in committed \/ SizeRefused

\* Once MMTk is built it stays built, and with debug assertions a mmtk_init
\* that came later does not get past its assertion.
LateInv ==
    \A c \in Callers : call[c].late =>
      /\ once.state = "done"
      /\ debug /\ call[c].kind = "init" =>
           pc[c] \in {"lock", "set_plan", "set_trigger", "assert", "panicked"}

\* The part of the invariant about callers, options and the Once.
CoreInv ==
    /\ debug \in BOOLEAN /\ CallsTypeOK /\ BuilderTypeOK /\ OnceTypeOK
    /\ OneBuilder /\ BuiltInv /\ SizeInv /\ WholeInv /\ LateInv
    /\ OptionsWhole

IInv == CoreInv /\ SyncTypeOK /\ ThreadsTypeOK

core == <<debug, pc, call, options, once>>

-----------------------------------------------------------------------------
(* Steps of a call.                                                        *)

\* Goto moves one caller and leaves the pc of the others alone.
LEMMA GotoEffect ==
    ASSUME CallsTypeOK, NEW c \in Callers, NEW at, NEW next \in States,
           Goto(c, at, next)
    PROVE  /\ pc' \in [Callers -> States] /\ pc[c] = at /\ pc'[c] = next
           /\ \A d \in Callers \ {c} : pc'[d] = pc[d]
  BY DEF Goto, CallsTypeOK

\* The option that a caller sets is one of the options there are.
LEMMA WithTriggerType ==
    ASSUME NEW s \in Sizes, builder \in Options
    PROVE  WithTrigger(s) \in Options
  BY DEF WithTrigger, Options, Policy

\* A refused size stays refused: a mmtk_init does not go back.
LEMMA RefusedLasts ==
    ASSUME CallsTypeOK, NEW c \in Callers, UNCHANGED <<debug, call>>,
           \A d \in Callers \ {c} : pc'[d] = pc[d],
           \/ pc[c] \in {"idle", "lock", "set_plan", "set_trigger"}
           \/ pc'[c] \notin {"idle", "lock", "set_plan", "set_trigger"}
    PROVE  SizeRefused => SizeRefused'
  BY DEF SizeRefused

\* A step that leaves callers, options and the Once alone keeps CoreInv.
LEMMA CoreUnchanged ==
    ASSUME CoreInv, UNCHANGED core
    PROVE  CoreInv'
  BY DEF CoreInv, core, options, CallsTypeOK, BuilderTypeOK, OnceTypeOK, OneBuilder,
         BuiltInv, SizeInv, WholeInv, LateInv, OptionsWhole, SizeRefused

-----------------------------------------------------------------------------
(* One lemma per group of actions; under each, one step per action.        *)

\* The steps under the mutex of BUILDER and the assertion of mmtk_init keep CoreInv.
LEMMA OptionSteps ==
    ASSUME CoreInv, NEW c \in Callers,
           LockBuilder(c) \/ SetPlan(c) \/ SetTrigger(c) \/ Process(c)
             \/ ProcessPanics(c) \/ AssertNotInitialized(c)
    PROVE  CoreInv'
  <1> USE DEF CoreInv, CallsTypeOK, BuilderTypeOK, OnceTypeOK, OneBuilder, BuiltInv,
              SizeInv, WholeInv, LateInv, OptionsWhole,
              States, Steps, Held, Building, Ended
  <1>1. CASE LockBuilder(c)
    <2>1. CASE builderLock = "poisoned"
      <3>1. Goto(c, "lock", "panicked") /\ UNCHANGED <<debug, call, builder, committed, builderLock, once>>
        BY <1>1, <2>1 DEF LockBuilder
      <3>2. /\ pc' \in [Callers -> States] /\ pc[c] = "lock" /\ pc'[c] = "panicked"
            /\ \A d \in Callers \ {c} : pc'[d] = pc[d]
        BY <3>1, GotoEffect
      <3>3. SizeRefused => SizeRefused'
        BY <3>1, <3>2, RefusedLasts
      <3> QED
        BY <3>1, <3>2, <3>3, NamesAssumption
    <2>2. CASE builderLock # "poisoned"
      <3>1. PICK next \in {"set_plan", "process"} :
              /\ Goto(c, "lock", next) /\ builderLock = NoOne /\ builderLock' = c
              /\ UNCHANGED <<debug, call, builder, committed, once>>
              /\ next = "process" <=> call[c].kind # "init"
        BY <1>1, <2>2 DEF LockBuilder
      <3>2. /\ pc' \in [Callers -> States] /\ pc[c] = "lock" /\ pc'[c] = next
            /\ \A d \in Callers \ {c} : pc'[d] = pc[d]
        BY <3>1, GotoEffect
      <3>3. SizeRefused => SizeRefused'
        BY <3>1, <3>2, RefusedLasts
      <3>4. builder \in committed \/ SizeRefused'
        BY <3>1, <3>3
      <3> QED
        BY <3>1, <3>2, <3>3, <3>4, NamesAssumption
    <2> QED
      BY <2>1, <2>2
  <1>2. CASE SetPlan(c)
    <2>1. /\ pc' \in [Callers -> States] /\ pc[c] = "set_plan" /\ pc'[c] = "set_trigger"
          /\ \A d \in Callers \ {c} : pc'[d] = pc[d]
      BY <1>2, GotoEffect DEF SetPlan
    <2>2. UNCHANGED <<debug, call, builderLock, committed, once>> /\ builder' \in Options
      BY <1>2 DEF SetPlan, Options
    <2>3. SizeRefused => SizeRefused'
      BY <2>1, <2>2, RefusedLasts
    <2> QED
      BY <2>1, <2>2, <2>3, NamesAssumption
  <1>3. CASE SetTrigger(c)
    <2>1. /\ pc[c] = "set_trigger" /\ builder' = WithTrigger(call[c].size)
          /\ UNCHANGED <<debug, call, once>>
      BY <1>3 DEF SetTrigger, Goto
    <2>2. builder' \in Options
      BY <2>1, WithTriggerType
    <2>3. CASE debug /\ ~Valid(call[c].size)
      <3>1. /\ pc' \in [Callers -> States] /\ pc'[c] = "panicked"
            /\ \A d \in Callers \ {c} : pc'[d] = pc[d]
            /\ builderLock' = "poisoned" /\ committed' = committed
        BY <1>3, <2>3, GotoEffect DEF SetTrigger
      <3>2. SizeRefused => SizeRefused'
        BY <2>1, <3>1, RefusedLasts
      <3> QED
        BY <2>1, <2>2, <3>1, <3>2, NamesAssumption
    <2>4. CASE ~(debug /\ ~Valid(call[c].size))
      <3>1. /\ pc' \in [Callers -> States] /\ pc'[c] = "assert"
            /\ \A d \in Callers \ {c} : pc'[d] = pc[d]
            /\ builderLock' = NoOne
            /\ committed' = IF Valid(call[c].size) THEN committed \cup {builder'}
                            ELSE committed
        BY <1>3, <2>4, GotoEffect DEF SetTrigger, ReleaseBuilder
      <3>2. SizeRefused => SizeRefused'
        BY <2>1, <3>1, RefusedLasts
      <3>3. committed \subseteq committed' /\ committed' \subseteq Options
        BY <2>2, <3>1
      <3>4. CASE Valid(call[c].size)
        BY <2>1, <2>2, <3>1, <3>2, <3>3, <3>4, NamesAssumption
      <3>5. CASE ~Valid(call[c].size)
        <4>1. SizeRefused'
          BY <2>1, <2>4, <3>1, <3>5 DEF SizeRefused
        <4> QED
          BY <2>1, <2>2, <3>1, <3>3, <4>1, NamesAssumption
      <3> QED
        BY <3>4, <3>5
    <2> QED
      BY <2>3, <2>4
  <1>4. CASE Process(c)
    <2>1. /\ pc' \in [Callers -> States] /\ pc[c] = "process" /\ pc'[c] = "returned"
          /\ \A d \in Callers \ {c} : pc'[d] = pc[d]
      BY <1>4, GotoEffect DEF Process
    <2>2. /\ builder' = WithTrigger(call[c].size) /\ UNCHANGED <<debug, call, once>>
          /\ builderLock' = NoOne
          /\ committed' = IF builder \in committed THEN committed \cup {builder'}
                          ELSE committed
      BY <1>4 DEF Process, ReleaseBuilder
    <2>3. builder' \in Options
      BY <2>1, <2>2, WithTriggerType
    <2>4. SizeRefused => SizeRefused'
      BY <2>1, <2>2, RefusedLasts
    <2>5. builder' \in committed' \/ SizeRefused'
      BY <2>1, <2>2, <2>4
    <2>6. committed \subseteq committed' /\ committed' \subseteq Options
      BY <2>2, <2>3
    <2> QED
      BY <2>1, <2>2, <2>3, <2>4, <2>5, <2>6, NamesAssumption
  <1>6. CASE ProcessPanics(c)
    <2>1. /\ pc' \in [Callers -> States] /\ pc[c] = "process" /\ pc'[c] = "panicked"
          /\ \A d \in Callers \ {c} : pc'[d] = pc[d]
      BY <1>6, GotoEffect DEF ProcessPanics
    <2>2. UNCHANGED <<debug, call, builder, committed, once>> /\ builderLock' = "poisoned"
      BY <1>6 DEF ProcessPanics
    <2>3. SizeRefused => SizeRefused'
      BY <2>1, <2>2, RefusedLasts
    <2> QED
      BY <2>1, <2>2, <2>3, NamesAssumption
  <1>5. CASE AssertNotInitialized(c)
    <2>1. /\ pc' \in [Callers -> States] /\ pc[c] = "assert"
          /\ pc'[c] = (IF debug /\ once.initialized THEN "panicked" ELSE "force")
          /\ \A d \in Callers \ {c} : pc'[d] = pc[d]
      BY <1>5, GotoEffect DEF AssertNotInitialized
    <2>2. UNCHANGED <<debug, call, builder, builderLock, committed, once>>
      BY <1>5 DEF AssertNotInitialized, options
    <2>3. SizeRefused => SizeRefused'
      BY <2>1, <2>2, RefusedLasts
    <2> QED
      BY <2>1, <2>2, <2>3, NamesAssumption
  <1> QED
    BY <1>1, <1>2, <1>3, <1>4, <1>5, <1>6

\* What a panic of SINGLETON's closure leaves: nobody runs it, and both the
\* Once and the mutex are poisoned.
LEMMA PanicStep ==
    ASSUME CoreInv, NEW c \in Callers, pc[c] \in {"build_lock", "build"},
           builderLock \in {c, "poisoned"},
           ClosurePanics(c), UNCHANGED <<debug, call, builder, committed>>
    PROVE  CoreInv'
  <1> USE DEF CoreInv, CallsTypeOK, BuilderTypeOK, OnceTypeOK, OneBuilder, BuiltInv,
              SizeInv, WholeInv, LateInv, OptionsWhole,
              States, Steps, Held, Building, Ended
  <1>1. /\ pc' \in [Callers -> States] /\ pc'[c] = "panicked"
        /\ \A d \in Callers \ {c} : pc'[d] = pc[d]
        /\ builderLock' = "poisoned" /\ once' = [once EXCEPT !.state = "poisoned"]
    BY DEF ClosurePanics
  <1>2. \A d \in Callers : ~call[d].late
    OBVIOUS
  <1>3. SizeRefused => SizeRefused'
    BY <1>1, RefusedLasts
  <1> QED
    BY <1>1, <1>2, <1>3, NamesAssumption

\* The steps of the Once of SINGLETON keep CoreInv.
LEMMA OnceSteps ==
    ASSUME CoreInv, NEW c \in Callers,
           ForceSingleton(c) \/ LockToBuild(c) \/ Build(c) \/ StoreInitialized(c) \/ FinishBuild(c)
    PROVE  CoreInv'
  <1> USE DEF CoreInv, CallsTypeOK, BuilderTypeOK, OnceTypeOK, OneBuilder, BuiltInv,
              SizeInv, WholeInv, LateInv, OptionsWhole,
              States, Steps, Held, Building, Ended
  <1>1. CASE ForceSingleton(c)
    <2> DEFINE next == CASE once.state = "new" -> "build_lock"
                         [] once.state = "done" -> AfterForce(c)
                         [] once.state = "poisoned" -> "panicked"
    <2>1. once.state # "running" /\ next \in {"build_lock", "body", "returned", "panicked"}
      BY <1>1 DEF ForceSingleton, AfterForce
    <2>2. Goto(c, "force", next)
      BY <1>1 DEF ForceSingleton
    <2>3. /\ pc' \in [Callers -> States] /\ pc[c] = "force" /\ pc'[c] = next
          /\ \A d \in Callers \ {c} : pc'[d] = pc[d]
      BY <2>1, <2>2, GotoEffect
    <2>4. /\ UNCHANGED <<debug, call, builder, builderLock, committed>>
          /\ once' = IF once.state = "new" THEN [once EXCEPT !.state = "running"] ELSE once
      BY <1>1 DEF ForceSingleton, options
    <2>7. SizeRefused => SizeRefused'
      <3> HIDE DEF next
      <3> QED
        BY <2>1, <2>3, <2>4, RefusedLasts
    <2>5. CASE once.state = "new"
      <3>1. pc'[c] = "build_lock" /\ once' = [once EXCEPT !.state = "running"]
        BY <2>3, <2>4, <2>5
      <3> HIDE DEF next
      <3> QED
        BY <2>3, <2>4, <2>5, <2>7, <3>1, NamesAssumption
    <2>6. CASE once.state # "new"
      <3>1. pc'[c] \in {"body", "returned", "panicked"} /\ once' = once
        BY <2>1, <2>3, <2>4, <2>6 DEF AfterForce
      <3> HIDE DEF next
      <3> QED
        BY <2>3, <2>4, <2>7, <3>1, NamesAssumption
    <2> QED
      BY <2>5, <2>6
  <1>2. CASE LockToBuild(c)
    <2>1. pc[c] = "build_lock" /\ UNCHANGED <<debug, call, builder, committed>>
      BY <1>2 DEF LockToBuild
    <2>2. CASE builderLock = "poisoned"
      BY <1>2, <2>1, <2>2, PanicStep DEF LockToBuild
    <2>3. CASE builderLock # "poisoned"
      <3>1. /\ Goto(c, "build_lock", "build")
            /\ builderLock = NoOne /\ builderLock' = c /\ once' = once
        BY <1>2, <2>3 DEF LockToBuild
      <3>2. /\ pc' \in [Callers -> States] /\ pc'[c] = "build"
            /\ \A d \in Callers \ {c} : pc'[d] = pc[d]
        BY <3>1, GotoEffect
      <3>3. SizeRefused => SizeRefused'
        BY <2>1, <3>1, <3>2, RefusedLasts
      <3> QED
        BY <2>1, <3>1, <3>2, <3>3, NamesAssumption
    <2> QED
      BY <2>2, <2>3
  <1>3. CASE Build(c)
    <2>1. /\ pc[c] = "build" /\ builderLock = c
          /\ UNCHANGED <<debug, call, builder, committed>>
      BY <1>3 DEF Build
    <2>2. CASE debug /\ once.initialized
      BY <1>3, <2>1, <2>2, PanicStep DEF Build
    <2>3. CASE ~(debug /\ once.initialized)
      <3>1. /\ Goto(c, "build", "store") /\ builderLock' = builderLock
            /\ once' = [once EXCEPT !.built = builder]
        BY <1>3, <2>3 DEF Build
      <3>2. /\ pc' \in [Callers -> States] /\ pc'[c] = "store"
            /\ \A d \in Callers \ {c} : pc'[d] = pc[d]
        BY <3>1, GotoEffect
      <3>3. builder # NoOne /\ (builder \in committed \/ SizeRefused)
        BY <2>1, NamesAssumption
      <3>4. SizeRefused => SizeRefused'
        BY <2>1, <3>1, <3>2, RefusedLasts
      <3> QED
        BY <2>1, <3>1, <3>2, <3>3, <3>4, NamesAssumption
    <2> QED
      BY <2>2, <2>3
  <1>4. CASE StoreInitialized(c)
    <2>1. /\ pc' \in [Callers -> States] /\ pc[c] = "store" /\ pc'[c] = "finish"
          /\ \A d \in Callers \ {c} : pc'[d] = pc[d]
      BY <1>4, GotoEffect DEF StoreInitialized
    <2>2. /\ UNCHANGED <<debug, call, builder, builderLock, committed>>
          /\ once' = [once EXCEPT !.initialized = TRUE]
      BY <1>4 DEF StoreInitialized, options
    <2>3. /\ once'.state = once.state /\ once'.built = once.built /\ once'.initialized
          /\ once' \in [state : {"new", "running", "done", "poisoned"},
                        built : Options \cup {NoOne}, initialized : BOOLEAN, binding : BOOLEAN]
      BY <2>2
    <2>4. SizeRefused => SizeRefused'
      BY <2>1, <2>2, RefusedLasts
    <2> QED
      BY <2>1, <2>2, <2>3, <2>4, NamesAssumption
  <1>5. CASE FinishBuild(c)
    <2>1. Goto(c, "finish", AfterForce(c)) /\ AfterForce(c) \in {"body", "returned"}
      BY <1>5 DEF FinishBuild, AfterForce
    <2>2. /\ pc' \in [Callers -> States] /\ pc[c] = "finish"
          /\ pc'[c] \in {"body", "returned"}
          /\ \A d \in Callers \ {c} : pc'[d] = pc[d]
      BY <2>1, GotoEffect
    <2>3. /\ UNCHANGED <<debug, call, builder, committed>> /\ builderLock' = NoOne
          /\ once' = [once EXCEPT !.state = "done"]
      BY <1>5 DEF FinishBuild
    <2>4. (builder \in committed \/ SizeRefused) /\ once.built # NoOne /\ once.initialized
      BY <2>2
    <2>5. \A d \in Callers : ~call[d].late
      BY <2>2
    <2>6. SizeRefused => SizeRefused'
      BY <2>2, <2>3, RefusedLasts
    <2> QED
      BY <2>2, <2>3, <2>4, <2>5, <2>6, NamesAssumption
  <1> QED
    BY <1>1, <1>2, <1>3, <1>4, <1>5

\* The steps that touch neither the options nor the Once.
LEMMA OtherSteps ==
    ASSUME CoreInv, NEW c \in Callers,
           \/ SetBinding(c) \/ SpawnGcThreads(c)
           \/ SetUpcalls(c) \/ ReplaceSender(c) \/ ReplaceReceiver(c) \/ SpawnServer(c)
    PROVE  CoreInv'
  <1> USE DEF CoreInv, CallsTypeOK, BuilderTypeOK, OnceTypeOK, OneBuilder, BuiltInv,
              SizeInv, WholeInv, LateInv, OptionsWhole,
              States, Steps, Held, Building, Ended
  <1>1. PICK at \in {"body", "upcalls", "sender", "receiver", "spawn"},
             next \in {"sender", "receiver", "spawn", "returned", "panicked"} :
          Goto(c, at, next)
    BY DEF SetBinding, SpawnGcThreads, SetUpcalls, ReplaceSender, ReplaceReceiver, SpawnServer
  <1>2. /\ pc' \in [Callers -> States] /\ pc[c] = at /\ pc'[c] = next
        /\ \A d \in Callers \ {c} : pc'[d] = pc[d]
    BY <1>1, GotoEffect
  <1>3. UNCHANGED <<debug, call, builder, builderLock, committed>>
    BY DEF SetBinding, SpawnGcThreads, SetUpcalls, ReplaceSender, ReplaceReceiver,
           SpawnServer, options
  <1>4. once' = once \/ once' = [once EXCEPT !.binding = TRUE]
    BY DEF SetBinding, SpawnGcThreads, SetUpcalls, ReplaceSender, ReplaceReceiver, SpawnServer
  <1>5. /\ once'.state = once.state /\ once'.built = once.built
        /\ once'.initialized = once.initialized
        /\ once' \in [state : {"new", "running", "done", "poisoned"},
                      built : Options \cup {NoOne}, initialized : BOOLEAN, binding : BOOLEAN]
    BY <1>4
  <1>6. SizeRefused => SizeRefused'
    BY <1>2, <1>3, RefusedLasts
  <1> QED
    BY <1>2, <1>3, <1>5, <1>6, NamesAssumption

\* A new call keeps CoreInv.
LEMMA CallStep ==
    ASSUME CoreInv, NEW c \in Callers, Call(c)
    PROVE  CoreInv'
  <1>1. PICK kind \in Calls, s \in Sizes \cup {NoSize} :
          /\ s \in Arguments(kind)
          /\ Goto(c, "idle", Entry(kind))
          /\ call' = [call EXCEPT ![c] = [kind |-> kind, size |-> s,
                                          late |-> once.state = "done"]]
    BY DEF Call, Arguments
  <1>2. UNCHANGED <<debug, builder, builderLock, committed, once>>
    BY DEF Call, options
  <1> USE DEF CoreInv, CallsTypeOK, BuilderTypeOK, OnceTypeOK, OneBuilder, BuiltInv,
              SizeInv, WholeInv, LateInv, OptionsWhole,
              States, Steps, Held, Building, Ended
  <1>3. /\ Entry(kind) \in {"lock", "upcalls", "force"}
        /\ Entry(kind) = "lock" => s \in Sizes
        /\ kind = "init" => Entry(kind) = "lock"
    BY <1>1 DEF Entry, Calls, Arguments
  <1>4. /\ pc' \in [Callers -> States] /\ pc[c] = "idle" /\ pc'[c] = Entry(kind)
        /\ \A d \in Callers \ {c} : pc'[d] = pc[d]
    BY <1>1, <1>3, GotoEffect
  <1>5. /\ call' \in [Callers -> [kind : Calls \cup {"none"}, size : Sizes \cup {NoSize},
                                  late : BOOLEAN]]
        /\ call'[c].kind = kind /\ call'[c].size = s
        /\ call'[c].late => once.state = "done"
        /\ \A d \in Callers \ {c} : call'[d] = call[d]
    BY <1>1, <1>3
  <1>6. CallsTypeOK' /\ BuilderTypeOK' /\ OnceTypeOK'
    BY <1>2, <1>3, <1>4, <1>5
  <1>7. OneBuilder' /\ BuiltInv' /\ WholeInv' /\ OptionsWhole'
    <2>1. SizeRefused => SizeRefused'
      BY <1>2, <1>4, <1>5 DEF SizeRefused
    <2> QED
      BY <1>2, <1>3, <1>4, <2>1
  <1>8. SizeInv' /\ LateInv'
    BY <1>2, <1>3, <1>4, <1>5
  <1> QED
    BY <1>2, <1>6, <1>7, <1>8

-----------------------------------------------------------------------------
(* The types of the channels and of the collector's threads.               *)

\* Bounds of the numbers of channel pairs and of their requests.
LEMMA ChannelBounds ==
    /\ 0 \in Channels /\ \A n \in Channels : n < MaxGcInits => n + 1 \in Channels
    /\ \A n \in 0 .. MaxRequests : n < MaxRequests => n + 1 \in 0 .. MaxRequests
    /\ \A m, n \in 0 .. MaxRequests : m < n => m + 1 \in 0 .. MaxRequests
    /\ 0 \in 0 .. MaxRequests
  BY StartupAssumption DEF Channels

\* Giving one pair a new record of the right type keeps the type of sync.
LEMMA ChannelUpdate ==
    ASSUME SyncTypeOK, NEW g \in Channels, NEW ch \in ChannelType,
           sync' = [sync EXCEPT !.channel[g] = ch]
    PROVE  SyncTypeOK'
  <1>1. [sync.channel EXCEPT ![g] = ch] \in [Channels -> ChannelType]
    BY DEF SyncTypeOK
  <1>2. sync' = [sync EXCEPT !.channel = [sync.channel EXCEPT ![g] = ch]]
    BY DEF SyncTypeOK
  <1> QED
    BY <1>1, <1>2 DEF SyncTypeOK

\* What a caller does to the channels and threads keeps their types.
LEMMA CallerKeepsSync ==
    ASSUME SyncTypeOK, ThreadsTypeOK, NEW c \in Callers, Call(c) \/ CallerStep(c)
    PROVE  SyncTypeOK' /\ ThreadsTypeOK'
  <1>1. CASE Call(c)
    <2>1. /\ UNCHANGED threads
          /\ sync' = sync \/ (sync.newest < MaxGcInits /\ sync' = [sync EXCEPT !.newest = @ + 1])
      BY <1>1 DEF Call
    <2> QED
      BY <2>1, ChannelBounds DEF SyncTypeOK, ThreadsTypeOK, threads
  <1>2. CASE SpawnServer(c)
    <2> DEFINE g == sync.newest
               ch == [sync.channel[g] EXCEPT !.server = "spawned"]
    <2>1. g \in Channels /\ ch \in ChannelType
      BY DEF SyncTypeOK, ChannelType
    <2>2. sync' = [sync EXCEPT !.channel[g] = ch] /\ UNCHANGED threads
      BY <1>2 DEF SpawnServer
    <2> QED
      BY <2>1, <2>2, ChannelUpdate DEF ThreadsTypeOK, threads
  <1>3. CASE SetUpcalls(c) \/ ReplaceSender(c) \/ ReplaceReceiver(c)
    BY <1>3 DEF SetUpcalls, ReplaceSender, ReplaceReceiver, SyncTypeOK, ThreadsTypeOK, threads
  <1>4. CASE SpawnGcThreads(c)
    BY <1>4 DEF SpawnGcThreads, SyncTypeOK, ThreadsTypeOK
  <1>5. CASE \/ LockBuilder(c) \/ SetPlan(c) \/ SetTrigger(c) \/ Process(c)
             \/ ProcessPanics(c) \/ AssertNotInitialized(c) \/ ForceSingleton(c)
             \/ LockToBuild(c) \/ Build(c) \/ StoreInitialized(c) \/ FinishBuild(c)
             \/ SetBinding(c)
    <2>1. UNCHANGED <<sync, gcThread, registered>>
      BY <1>5 DEF LockBuilder, SetPlan, SetTrigger, Process, ProcessPanics,
                  AssertNotInitialized, ForceSingleton, LockToBuild, Build, StoreInitialized, FinishBuild,
                  SetBinding, threads
    <2> QED
      BY <2>1 DEF SyncTypeOK, ThreadsTypeOK
  <1> QED
    BY <1>1, <1>2, <1>3, <1>4, <1>5 DEF CallerStep

\* So does what a synchronizer thread does,
LEMMA ServerKeepsSync ==
    ASSUME SyncTypeOK, ThreadsTypeOK, NEW g \in Channels, ServerStep(g)
    PROVE  SyncTypeOK' /\ ThreadsTypeOK'
  <1> DEFINE ch == sync.channel[g]
  <1>1. /\ ch \in ChannelType /\ sync.channel \in [Channels -> ChannelType]
        /\ \A v \in {"ready", "ended", "panicked"} : [ch EXCEPT !.server = v] \in ChannelType
        /\ ch.answered < ch.asked => [ch EXCEPT !.answered = @ + 1] \in ChannelType
    BY ChannelBounds DEF SyncTypeOK, ChannelType
  <1>2. CASE StartServer(g)
    <2>1. PICK v \in {"ready", "panicked"} :
            sync' = [sync EXCEPT !.channel[g] = [ch EXCEPT !.server = v]]
      BY <1>2 DEF StartServer
    <2> QED
      BY <1>1, <1>2, <2>1, ChannelUpdate
      DEF StartServer, RegisterGcThread, ThreadsTypeOK
  <1>3. CASE Serve(g)
    <2>1. \/ /\ ch.answered < ch.asked
             /\ sync' = [sync EXCEPT !.channel[g] = [ch EXCEPT !.answered = @ + 1]]
          \/ sync' = [sync EXCEPT !.channel[g] = [ch EXCEPT !.server = "panicked"]]
      BY <1>3 DEF Serve
    <2> QED
      BY <1>1, <1>3, <2>1, ChannelUpdate DEF Serve, ThreadsTypeOK, threads
  <1>4. CASE Quit(g)
    <2>1. sync' = [sync EXCEPT !.channel[g] = [ch EXCEPT !.server = "ended"]]
      BY <1>4 DEF Quit
    <2> QED
      BY <1>1, <1>4, <2>1, ChannelUpdate DEF Quit, UnregisterGcThread, ThreadsTypeOK
  <1> QED
    BY <1>2, <1>3, <1>4 DEF ServerStep

\* and what a GC thread does.
LEMMA CollectorKeepsSync ==
    ASSUME SyncTypeOK, ThreadsTypeOK, NEW t \in GcThreads, EnterCore(t) \/ SendRequest(t)
    PROVE  SyncTypeOK' /\ ThreadsTypeOK'
  <1>1. CASE EnterCore(t)
    BY <1>1 DEF EnterCore, RegisterGcThread, SyncTypeOK, ThreadsTypeOK
  <1>2. CASE SendRequest(t)
    <2> DEFINE g == sync.sender
               ch == [sync.channel[g] EXCEPT !.asked = @ + 1]
    <2>1. g \in Channels /\ ch \in ChannelType
      BY <1>2, ChannelBounds DEF SendRequest, SyncTypeOK, ChannelType
    <2>2. sync' = [sync EXCEPT !.channel[g] = ch] /\ UNCHANGED threads
      BY <1>2 DEF SendRequest
    <2> QED
      BY <2>1, <2>2, ChannelUpdate DEF ThreadsTypeOK, threads
  <1> QED
    BY <1>1, <1>2

-----------------------------------------------------------------------------
(* The invariant and what follows from it.                                 *)

\* The invariant holds at the start of the program.
LEMMA InitIInv == Init => IInv
  <1> SUFFICES ASSUME Init PROVE IInv
    OBVIOUS
  <1> USE DEF Init, States, Steps, Held, Building, Ended
  <1>1. CallsTypeOK
    BY DEF CallsTypeOK
  <1>2. BuilderTypeOK
    BY NamesAssumption DEF BuilderTypeOK, Options, DefaultOptions
  <1>3. OnceTypeOK
    BY DEF OnceTypeOK
  <1>4. SyncTypeOK
    BY ChannelBounds DEF SyncTypeOK, ChannelType, DeadChannel
  <1>5. ThreadsTypeOK
    BY DEF ThreadsTypeOK
  <1>6. OneBuilder /\ BuiltInv /\ SizeInv /\ WholeInv /\ LateInv /\ OptionsWhole
    BY DEF OneBuilder, BuiltInv, SizeInv, WholeInv, LateInv, OptionsWhole
  <1> QED
    BY <1>1, <1>2, <1>3, <1>4, <1>5, <1>6 DEF IInv, CoreInv, Init

\* Every step of a caller, a synchronizer thread or a GC thread keeps the invariant.
LEMMA StepIInv == IInv /\ [Next]_vars => IInv'
  <1> SUFFICES ASSUME IInv, [Next]_vars PROVE IInv'
    OBVIOUS
  <1>1. CoreInv /\ SyncTypeOK /\ ThreadsTypeOK
    BY DEF IInv
  <1>2. ASSUME NEW c \in Callers, Call(c) \/ CallerStep(c)
        PROVE  CoreInv' /\ SyncTypeOK' /\ ThreadsTypeOK'
    BY <1>1, <1>2, CallStep, OptionSteps, OnceSteps, OtherSteps, CallerKeepsSync
    DEF CallerStep
  <1>3. ASSUME NEW g \in Channels, ServerStep(g)
        PROVE  CoreInv' /\ SyncTypeOK' /\ ThreadsTypeOK'
    <2>1. UNCHANGED core
      BY <1>3 DEF ServerStep, StartServer, Serve, Quit, core
    <2> QED
      BY <1>1, <1>3, <2>1, CoreUnchanged, ServerKeepsSync
  <1>4. ASSUME NEW t \in GcThreads, EnterCore(t) \/ SendRequest(t)
        PROVE  CoreInv' /\ SyncTypeOK' /\ ThreadsTypeOK'
    <2>1. UNCHANGED core
      BY <1>4 DEF EnterCore, SendRequest, core
    <2> QED
      BY <1>1, <1>4, <2>1, CoreUnchanged, CollectorKeepsSync
  <1>5. CASE UNCHANGED vars
    <2>1. UNCHANGED core /\ UNCHANGED <<sync, gcThread, registered>>
      BY <1>5 DEF vars, core, threads
    <2> QED
      BY <1>1, <2>1, CoreUnchanged DEF IInv, SyncTypeOK, ThreadsTypeOK
  <1> QED
    BY <1>2, <1>3, <1>4, <1>5 DEF IInv, Next, GcThreads

\* The inductive invariant of initialization: options, Once, calls, channels.
THEOREM Invariance == Spec => []IInv
  BY InitIInv, StepIInv, PTL DEF Spec

\* Type correctness: with it, the mutex of BUILDER has the one holder that pc
\* says, and the Once is running just while a caller runs its closure.
THEOREM TypeCorrect == Spec => []TypeOK
  <1>1. IInv => TypeOK
    BY DEF IInv, CoreInv, TypeOK
  <1> QED
    BY <1>1, Invariance, PTL

\* MMTk is never built from options that a mmtk_init has set half of, unless it is
\* a release build and mmtk-core has refused a heap size.
THEOREM OptionsCorrect == Spec => []OptionsWhole
  BY Invariance, PTL DEF IInv, CoreInv

\* With debug assertions a mmtk_init that comes too late never returns.
THEOREM LateInitCorrect == Spec => []LateInitPanics
  <1>1. IInv => LateInitPanics
    BY DEF IInv, CoreInv, LateInv, LateInitPanics
  <1> QED
    BY <1>1, Invariance, PTL
=============================================================================
