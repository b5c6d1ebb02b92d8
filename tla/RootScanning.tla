----------------------------- MODULE RootScanning -----------------------------
(***************************************************************************)
(* The conservative scan of the roots (scanning.rs).  mmtk-core runs a     *)
(* packet for each mutator that stop_all_mutators names to its visitor     *)
(* (scan_roots_in_mutator_thread; as the code is, none: collection.rs:43)  *)
(* and one for the VM (scan_vm_specific_roots: every thread of the         *)
(* runtime's list, then the modules).  A packet reads each word of its     *)
(* ranges, filters it, and marks what looks like an object: first the      *)
(* monitors its class and the object itself are inflated to, by recursion, *)
(* then the object, which goes to the packet's RootsClosure.  The world is *)
(* stopped: nothing writes the memory that is read.  Packets share         *)
(* WEAK_REF_STACK alone, under its mutex, so they are run here one after   *)
(* the other.                                                              *)
(***************************************************************************)
EXTENDS Integers, Sequences, FiniteSets

CONSTANTS
    Objects,             \* addresses whose valid-object bit is set
    HeapStart, HeapEnd,  \* starting_heap_address, last_heap_address
    Alignment,           \* ALLOCATION_ALIGNMENT_LAZY
    Classes, ClassOf,    \* the class of each object
    WeakClasses,         \* WEAK_REF_IDS_MIN..WEAK_REF_IDS_MAX
    MutatorThreads,      \* the list get_mutator_threads returns
    VmRoots,             \* the packet of scan_vm_specific_roots
    Memories,            \* what the words that are read may hold
    WorkPacketCapacity, MaxSlack, MaxHanded, Uninit     \* of RootsClosure

Threads == {MutatorThreads[i] : i \in DOMAIN MutatorThreads}
Packets == Threads \cup {VmRoots}
MaxClosures == Cardinality(Threads) + 2

ASSUME HeapAssumption ==
    /\ HeapStart \in Nat \ {0} /\ HeapEnd \in Nat
    /\ Alignment \in Nat \ {0} /\ Alignment % 2 = 0
    /\ \A o \in Objects :
         o \in Nat /\ o % Alignment = 0 /\ HeapStart <= o /\ o < HeapEnd

ASSUME ClassAssumption == ClassOf \in [Objects -> Classes]

ASSUME PacketAssumption ==
    MutatorThreads \in Seq(Threads) /\ VmRoots \notin Threads

ASSUME ClosureAssumption ==
    /\ WorkPacketCapacity \in Nat \ {0} /\ MaxSlack \in Nat
    /\ Uninit \notin Objects

\* The fields of a memory: the words from stack_top to stack_bottom, those
\* from regs to regs + regs_size (both ends are read), the modules, and the
\* lock words of classes and objects.
ASSUME MemoryAssumption ==
    \A m \in Memories :
      /\ m.stack \in [Threads -> Seq(Nat)] /\ m.regs \in [Threads -> Seq(Nat)]
      /\ m.modules \in Seq(Nat)
      /\ m.classLock \in [Classes -> Nat] /\ m.lockWord \in [Objects -> Nat]

VARIABLES
    memory,        \* the memory of this behaviour; never written
    packet,        \* the packet being run
    phase,         \* where it is
    todo,          \* head: the threads of the list not scanned yet
    current,       \* position in the range being read
    calls,         \* activations of mmtk_mark_object, innermost last
    weakRefStack,  \* WEAK_REF_STACK
    finished,      \* packets done                            (history)
    open, buffer, cursor, capacity, slots, vecs, freed, delivered, handed,
    closures       \* of RootsClosure

Closure == INSTANCE RootsClosure

closure == <<open, buffer, cursor, capacity, slots, vecs, freed, delivered,
             handed, closures>>
vars == <<memory, packet, phase, todo, current, calls, weakRefStack, finished,
          open, buffer, cursor, capacity, slots, vecs, freed, delivered,
          handed, closures>>

Init ==
    /\ memory \in Memories
    /\ packet = VmRoots /\ phase = "idle" /\ todo = <<>> /\ current = 1
    /\ calls = <<>> /\ weakRefStack = <<>> /\ finished = {}
    /\ Closure!Init

-----------------------------------------------------------------------------
(* Words.                                                                  *)

IsMmtkObject(a) == a \in Objects
IsWordInHeap(a) == HeapStart <= a /\ a < HeapEnd
AlignPtr(a) == a - (a % Alignment)
IsPtrAligned(a) == AlignPtr(a) = a

\* Mutant: every lock word counts as a pointer to a monitor.
IsInflatedAlways(lock) == TRUE

\* The lowest bit of a lock word says that the rest points to a monitor.
FieldIsInflatedLock(lock) == lock % 2 = 1

FieldAlignedLockRef(lock) == lock - (lock % 2)

IsWeakReference(o) == ClassOf[o] \in WeakClasses

-----------------------------------------------------------------------------
(* Starting and ending packets and ranges.                                 *)

\* scan_roots_in_mutator_thread: one thread, with a closure of its own.
ScanMutatorThread(t, c) ==
    /\ phase = "idle" /\ t \notin finished
    /\ packet' = t /\ todo' = <<t>> /\ phase' = "threads"
    /\ Closure!New(c)
    /\ UNCHANGED <<memory, current, calls, weakRefStack, finished>>

\* scan_vm_specific_roots: enters scan_roots_in_all_mutator_threads.
ScanVmSpecificRoots(c) ==
    /\ phase = "idle" /\ VmRoots \notin finished
    /\ packet' = VmRoots /\ todo' = MutatorThreads /\ phase' = "threads"
    /\ Closure!New(c)
    /\ UNCHANGED <<memory, current, calls, weakRefStack, finished>>

\* mmtk_mark_program_stack of the thread at the head of the list.
MarkProgramStack ==
    /\ phase = "threads" /\ todo # <<>>
    /\ phase' = "stack" /\ current' = 1
    /\ UNCHANGED <<memory, packet, todo, calls, weakRefStack, finished,
                   closure>>

\* The closure goes out of scope at the end of the list.
ThreadsDone(c) ==
    /\ phase = "threads" /\ todo = <<>>
    /\ Closure!Drop(c)
    /\ IF packet = VmRoots
         THEN phase' = "between" /\ UNCHANGED finished
         ELSE phase' = "idle" /\ finished' = finished \cup {packet}
    /\ UNCHANGED <<memory, packet, todo, current, calls, weakRefStack>>

\* scan_vm_specific_roots makes a second closure for the modules.
MarkModules(c) ==
    /\ phase = "between"
    /\ Closure!New(c)
    /\ phase' = "modules" /\ current' = 1
    /\ UNCHANGED <<memory, packet, todo, calls, weakRefStack, finished>>

-----------------------------------------------------------------------------
(* Reading words and marking objects.                                      *)

Words ==
    CASE phase = "stack" -> memory.stack[Head(todo)]
      [] phase = "regs" -> memory.regs[Head(todo)]
      [] OTHER -> memory.modules

Reading == phase \in {"stack", "regs", "modules"} /\ calls = <<>>

\* Mutant: the range is taken to be half open.
InRangeOpen == current < Len(Words)

\* while current <= to: the ranges are closed.
InRange == current <= Len(Words)

\* A call of mmtk_mark_object(o), and those mmtk_mark_field and
\* mmtk_mark_conservative make for a word: one or none.
Call(o) == [object |-> o, next |-> "classLock"]
MarkConservative(a) ==
    LET object == AlignPtr(a) IN
    IF object # 0 /\ IsMmtkObject(object) THEN <<Call(object)>> ELSE <<>>

\* Mutant: a field is trusted to hold an object if it points into the heap.
MarkFieldUnchecked(a) == IF IsWordInHeap(a) THEN <<Call(a)>> ELSE <<>>

MarkField(a) ==
    IF IsWordInHeap(a) /\ IsMmtkObject(a) THEN <<Call(a)>> ELSE <<>>

\* The word at current: in the heap and aligned, or a module's, it is marked.
ReadWord ==
    /\ Reading /\ InRange
    /\ LET a == Words[current] IN
       calls' = IF phase = "modules" THEN MarkField(a)
                ELSE IF IsWordInHeap(a) /\ IsPtrAligned(a)
                  THEN MarkConservative(a) ELSE <<>>
    /\ current' = current + 1
    /\ UNCHANGED <<memory, packet, phase, todo, weakRefStack, finished,
                   closure>>

StackDone ==
    /\ Reading /\ ~InRange /\ phase = "stack"
    /\ phase' = "regs" /\ current' = 1
    /\ UNCHANGED <<memory, packet, todo, calls, weakRefStack, finished,
                   closure>>

\* Mutant: head = node.next is forgotten.
RegsDoneSameNode ==
    /\ Reading /\ ~InRange /\ phase = "regs"
    /\ phase' = "threads"
    /\ UNCHANGED <<memory, packet, todo, current, calls, weakRefStack, finished,
                   closure>>

\* head = node.next
RegsDone ==
    /\ Reading /\ ~InRange /\ phase = "regs"
    /\ phase' = "threads" /\ todo' = Tail(todo)
    /\ UNCHANGED <<memory, packet, current, calls, weakRefStack, finished,
                   closure>>

\* The second closure goes out of scope.
ModulesDone(c) ==
    /\ Reading /\ ~InRange /\ phase = "modules"
    /\ Closure!Drop(c)
    /\ phase' = "idle" /\ finished' = finished \cup {packet}
    /\ UNCHANGED <<memory, packet, todo, current, calls, weakRefStack>>

Top == calls[Len(calls)]

\* Mutant: the object is marked again instead of its monitor.
MarkLockSelf(lock, next) ==
    calls' = [calls EXCEPT ![Len(calls)].next = next] \o
               (IF FieldIsInflatedLock(lock) THEN MarkField(Top.object) ELSE <<>>)

\* mmtk_mark_lock_words, one word: the monitor an inflated lock word names is
\* marked, in an activation of its own, before the marking of Top goes on.
MarkLock(lock, next) ==
    calls' = [calls EXCEPT ![Len(calls)].next = next] \o
               (IF FieldIsInflatedLock(lock)
                  THEN MarkField(FieldAlignedLockRef(lock)) ELSE <<>>)

MarkClassLock ==
    /\ calls # <<>> /\ Top.next = "classLock"
    /\ MarkLock(memory.classLock[ClassOf[Top.object]], "objectLock")
    /\ UNCHANGED <<memory, packet, phase, todo, current, weakRefStack, finished,
                   closure>>

MarkObjectLock ==
    /\ calls # <<>> /\ Top.next = "objectLock"
    /\ MarkLock(memory.lockWord[Top.object], "report")
    /\ UNCHANGED <<memory, packet, phase, todo, current, weakRefStack, finished,
                   closure>>

\* The rest of mmtk_mark_object, and its return.
MarkObject(c) ==
    /\ calls # <<>> /\ Top.next = "report"
    /\ weakRefStack' = IF IsWeakReference(Top.object)
                         THEN Append(weakRefStack, Top.object) ELSE weakRefStack
    /\ Closure!DoWork(Top.object, c)
    /\ calls' = SubSeq(calls, 1, Len(calls) - 1)
    /\ UNCHANGED <<memory, packet, phase, todo, current, finished>>

-----------------------------------------------------------------------------
\* What a packet does once it has begun.
Step ==
    \/ MarkProgramStack \/ ReadWord \/ StackDone \/ RegsDone
    \/ MarkClassLock \/ MarkObjectLock
    \/ \E c \in Closure!Capacities :
         ThreadsDone(c) \/ MarkModules(c) \/ MarkObject(c) \/ ModulesDone(c)

Next ==
    \/ \E c \in Closure!Capacities :
         (\E t \in Threads : ScanMutatorThread(t, c)) \/ ScanVmSpecificRoots(c)
    \/ Step

\* A packet that runs goes on; mmtk-core need not start another.
Spec == Init /\ [][Next]_vars /\ WF_vars(Step)

-----------------------------------------------------------------------------
(* Properties.                                                             *)

\* The monitors an object's two lock words name: a lock word is inflated to a
\* monitor when it is the monitor's address with the lowest bit set.
Monitors(o) ==
    {q \in Objects : q + 1 \in {memory.classLock[ClassOf[o]], memory.lockWord[o]}}

\* The objects named by a word a packet must read.
ThreadRoots(t) ==
    Objects \cap ({memory.stack[t][i] : i \in DOMAIN memory.stack[t]}
                  \cup {memory.regs[t][i] : i \in DOMAIN memory.regs[t]})
RootsOf(p) ==
    IF p = VmRoots
      THEN (UNION {ThreadRoots(t) : t \in Threads})
             \cup (Objects \cap {memory.modules[i] : i \in DOMAIN memory.modules})
      ELSE ThreadRoots(p)

Delivered == {delivered[i] : i \in 1..Len(delivered)}

\* mmtk_mark_lock_words recurses with no check of what is being marked, so
\* the scan relies on monitors that are not, through lock words, their own.
Acyclic ==
    \E rank \in [Objects -> 1..Cardinality(Objects)] :
      \A o \in Objects : \A q \in Monitors(o) : rank[q] < rank[o]

\* Type invariant.  Only valid objects are ever marked: no word that merely
\* looks like an address is dereferenced as one.
TypeOK ==
    /\ memory \in Memories
    /\ packet \in Packets
    /\ phase \in {"idle", "threads", "stack", "regs", "between", "modules"}
    /\ todo \in Seq(Threads)
    /\ current \in Nat \ {0}
    /\ calls \in Seq([object : Objects,
                      next : {"classLock", "objectLock", "report"}])
    /\ weakRefStack \in Seq(Objects)
    /\ finished \subseteq Packets

\* No root is missed: once a packet is done mmtk-core has every object a word
\* of its ranges names, both ends included, and with each object the
\* monitors it is inflated to (scanning.rs:249-337).
RootsComplete ==
    /\ \A p \in finished : RootsOf(p) \subseteq Delivered
    /\ phase = "idle" => \A o \in Delivered : Monitors(o) \subseteq Delivered

\* Nothing else is reported: every set of objects that holds the roots and is
\* closed under monitors holds what mmtk-core was given (scanning.rs:221-247).
RootsSound ==
    \A S \in SUBSET Objects :
      /\ \A p \in Packets : RootsOf(p) \subseteq S
      /\ \A o \in S : Monitors(o) \subseteq S
      => Delivered \subseteq S

\* The recursion of mmtk_mark_object never enters an object it is already
\* marking: its depth is bounded by the number of objects (scanning.rs:210).
NoReentry ==
    Acyclic => \A i, j \in 1..Len(calls) :
                 calls[i].object = calls[j].object => i = j

\* Every packet comes to its end, if no monitor is its own.
PacketsEnd == Acyclic => (phase # "idle" ~> phase = "idle")
=============================================================================
