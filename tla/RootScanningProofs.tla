-------------------------- MODULE RootScanningProofs --------------------------
(***************************************************************************)
(* Theorems about RootScanning, for every heap, every list of threads and  *)
(* every content of the memory the packets read.  What the closure of a    *)
(* packet does with the objects handed to it is taken from the proofs of   *)
(* RootsClosure.                                                           *)
(***************************************************************************)
EXTENDS RootScanning, TLAPS, SequenceTheorems, FiniteSetTheorems

ClosureProofs == INSTANCE RootsClosureProofs

Handed == {handed[i] : i \in 1..Len(handed)}

\* An activation that marks o is under way above position i.
MarkedAbove(i, o) == \E j \in (i + 1)..Len(calls) : calls[j].object = o

Seen == Handed \cup {calls[i].object : i \in 1..Len(calls)}

\* The monitor of the class of o, and that of o.
ClassMonitor(o) == {q \in Objects : q + 1 = memory.classLock[ClassOf[o]]}
ObjectMonitor(o) == {q \in Objects : q + 1 = memory.lockWord[o]}

\* The threads packet p scans.
ThreadsOf(p) == IF p = VmRoots THEN Threads ELSE {p}

InTodo(t) == \E i \in 1..Len(todo) : todo[i] = t

\* A closure is open in every phase but two, calls are made while words are
\* read, and the list is not at its end while a thread is being scanned.
PhaseInv ==
    /\ open <=> phase \notin {"idle", "between"}
    /\ phase \in {"idle", "threads", "between"} => calls = <<>>
    /\ phase \in {"stack", "regs"} => todo # <<>>
    /\ phase \in {"between", "modules"} => packet = VmRoots

\* The objects the words of s below position n name are seen.
SeenBelow(s, n) == \A i \in 1..Len(s) : i < n /\ s[i] \in Objects => s[i] \in Seen

\* Every word a packet has passed is seen if it names an object.
ProgressInv ==
    /\ phase # "idle" =>
         \A t \in ThreadsOf(packet) :
           (phase \in {"threads", "stack", "regs"} /\ InTodo(t))
             \/ ThreadRoots(t) \subseteq Seen
    /\ phase = "stack" => SeenBelow(memory.stack[Head(todo)], current)
    /\ phase = "regs" =>
         /\ \A i \in 1..Len(memory.stack[Head(todo)]) :
              memory.stack[Head(todo)][i] \in Objects
                => memory.stack[Head(todo)][i] \in Seen
         /\ SeenBelow(memory.regs[Head(todo)], current)
    /\ phase = "modules" => SeenBelow(memory.modules, current)

\* The packets that are done have delivered their roots.
FinishedInv == \A p \in finished : RootsOf(p) \subseteq Delivered

\* An object goes to the closure after its monitors, and an activation that
\* has dealt with a lock word has its monitor marked or in an inner activation.
MonitorsInv ==
    /\ \A o \in Handed : Monitors(o) \subseteq Handed
    /\ \A i \in 1..Len(calls) :
         /\ calls[i].next # "classLock" =>
              \A q \in ClassMonitor(calls[i].object) : q \in Handed \/ MarkedAbove(i, q)
         /\ calls[i].next = "report" =>
              \A q \in ObjectMonitor(calls[i].object) : q \in Handed \/ MarkedAbove(i, q)

\* A set of objects that holds the roots and is closed under monitors.
Closed(S) ==
    /\ \A p \in Packets : RootsOf(p) \subseteq S
    /\ \A o \in S : Monitors(o) \subseteq S

\* All that is being marked or was handed over is in every such set.
SoundInv == \A S \in SUBSET Objects : Closed(S) => Seen \subseteq S

\* rank goes down from an object to its monitors.
IsRank(rank) == \A o \in Objects : \A q \in Monitors(o) : rank[q] < rank[o]

\* It goes down along the activations too.
DepthInv ==
    \A rank \in [Objects -> 1..Cardinality(Objects)] :
      IsRank(rank) =>
        \A i, j \in 1..Len(calls) :
          i < j => rank[calls[j].object] < rank[calls[i].object]

IInv ==
    /\ TypeOK /\ ClosureProofs!IInv
    /\ PhaseInv /\ ProgressInv /\ FinishedInv /\ MonitorsInv
    /\ SoundInv /\ DepthInv

-----------------------------------------------------------------------------
(* The closure of a packet, from the proofs of RootsClosure.               *)

\* The constants of RootScanning meet the assumptions of RootsClosure.
LEMMA ClosureAssumptions ==
    /\ ClosureProofs!CapacityAssumption /\ ClosureProofs!SlackAssumption
    /\ ClosureProofs!MaxClosuresAssumption /\ ClosureProofs!UninitAssumption
  <1>1. Len(MutatorThreads) \in Nat /\ DOMAIN MutatorThreads = 1..Len(MutatorThreads)
    BY PacketAssumption, LenProperties
  <1>2. IsFiniteSet(1..Len(MutatorThreads))
    BY <1>1, FS_Interval
  <1>3. MutatorThreads \in Surjection(1..Len(MutatorThreads), Threads)
    BY <1>1, PacketAssumption DEF Threads, Surjection
  <1>4. MaxClosures \in Nat
    BY <1>2, <1>3, FS_Surjection, FS_CardinalityType DEF MaxClosures
  <1> QED
    BY <1>4, ClosureAssumption
    DEF ClosureProofs!CapacityAssumption, ClosureProofs!SlackAssumption,
        ClosureProofs!MaxClosuresAssumption, ClosureProofs!UninitAssumption

\* What a packet relies on: nothing is delivered that was not handed over, and
\* a closed closure has delivered all of it.
ClosureFacts ==
    /\ open \in BOOLEAN
    /\ handed \in Seq(Objects)
    /\ Delivered \subseteq Handed
    /\ ~open => Delivered = Handed

\* The invariant of the closure gives these facts.
LEMMA ClosureFactsHold == ClosureProofs!IInv => ClosureFacts
  <1> SUFFICES ASSUME ClosureProofs!IInv PROVE ClosureFacts
    OBVIOUS
  <1>1. /\ open \in BOOLEAN /\ cursor \in Nat
        /\ handed \in Seq(Objects) /\ delivered \in Seq(Objects)
        /\ \A i \in 1..cursor : slots[i] \in Objects
        /\ ~open => cursor = 0
        /\ handed = delivered \o SubSeq(slots, 1, cursor)
    BY DEF ClosureProofs!IInv, ClosureProofs!TypeOK, ClosureProofs!BufferInv,
           ClosureProofs!PendingInv
  <1>2. /\ SubSeq(slots, 1, cursor) \in Seq(Objects)
        /\ Len(SubSeq(slots, 1, cursor)) = cursor
    BY <1>1, SubSeqProperties
  <1>3. /\ Len(delivered) \in Nat /\ Len(handed) = Len(delivered) + cursor
        /\ \A i \in 1..Len(delivered) : handed[i] = delivered[i]
    BY <1>1, <1>2, ConcatProperties, LenProperties
  <1>4. 1..Len(delivered) \subseteq 1..Len(handed)
    BY <1>1, <1>3
  <1>5. Delivered \subseteq Handed
    BY <1>3, <1>4 DEF Delivered, Handed
  <1>6. ASSUME ~open PROVE Delivered = Handed
    <2>1. Len(handed) = Len(delivered)
      BY <1>1, <1>3, <1>6
    <2> QED
      BY <1>3, <2>1 DEF Delivered, Handed
  <1> QED
    BY <1>1, <1>5, <1>6 DEF ClosureFacts

\* The same in the state after a step.
LEMMA ClosureFactsHoldNext == ClosureProofs!IInv' => ClosureFacts'
  BY ClosureFactsHold, PTL

\* A new closure changes nothing of what was handed over or delivered.
LEMMA ClosureNew ==
    ASSUME ClosureProofs!IInv, NEW c \in Closure!Capacities, Closure!New(c)
    PROVE  /\ ClosureProofs!IInv' /\ open' /\ ~open
           /\ handed' = handed /\ delivered' = delivered
  <1>1. ClosureProofs!New(c) /\ c \in ClosureProofs!Capacities
    BY DEF ClosureProofs!New, Closure!New, ClosureProofs!Lend, Closure!Lend,
           ClosureProofs!Capacities, Closure!Capacities
  <1>2. ClosureProofs!IInv'
    BY <1>1, ClosureAssumptions, ClosureProofs!NewStep
  <1> QED
    BY <1>2 DEF Closure!New

\* do_work hands one more object over and takes back no delivery.
LEMMA ClosureDoWork ==
    ASSUME ClosureProofs!IInv, NEW p \in Objects, NEW c \in Closure!Capacities,
           Closure!DoWork(p, c)
    PROVE  /\ ClosureProofs!IInv' /\ open' = open
           /\ Handed' = Handed \cup {p} /\ Delivered \subseteq Delivered'
  <1>1. ClosureProofs!DoWork(p, c) /\ c \in ClosureProofs!Capacities
    BY DEF ClosureProofs!DoWork, Closure!DoWork, ClosureProofs!Flush, Closure!Flush,
           ClosureProofs!Reclaim, Closure!Reclaim, ClosureProofs!Deliver,
           Closure!Deliver, ClosureProofs!Lend, Closure!Lend,
           ClosureProofs!Capacities, Closure!Capacities
  <1>2. ClosureProofs!IInv'
    BY <1>1, ClosureAssumptions, ClosureProofs!DoWorkStep
  <1>3. /\ handed' = Append(handed, p)
        /\ delivered' = delivered \/ delivered' = handed'
    BY <1>1, <1>2, ClosureAssumptions, ClosureProofs!DoWorkDelivers
  <1>4. handed \in Seq(Objects) /\ Delivered \subseteq Handed
    BY ClosureFactsHold DEF ClosureFacts
  <1>5. /\ Len(handed) \in Nat /\ Len(handed') = Len(handed) + 1
        /\ \A i \in 1..Len(handed) : handed'[i] = handed[i]
        /\ handed'[Len(handed) + 1] = p
    BY <1>3, <1>4, AppendProperties, LenProperties
  <1>6. Handed' = Handed \cup {p}
    <2>1. 1..Len(handed') = 1..Len(handed) \cup {Len(handed) + 1}
      BY <1>5
    <2> QED
      BY <1>5, <2>1 DEF Handed
  <1>7. Delivered \subseteq Delivered'
    <2>1. CASE delivered' = delivered
      BY <2>1 DEF Delivered
    <2>2. CASE delivered' = handed'
      BY <1>4, <1>6, <2>2 DEF Delivered, Handed
    <2> QED
      BY <1>3, <2>1, <2>2
  <1>8. open' = open
    BY DEF Closure!DoWork
  <1> QED
    BY <1>2, <1>6, <1>7, <1>8

\* Dropping the closure delivers all that was handed over.
LEMMA ClosureDrop ==
    ASSUME ClosureProofs!IInv, NEW c \in Closure!Capacities, Closure!Drop(c)
    PROVE  /\ ClosureProofs!IInv' /\ open /\ ~open' /\ handed' = handed
           /\ Delivered' = Handed /\ Delivered \subseteq Delivered'
  <1>1. ClosureProofs!Drop(c) /\ c \in ClosureProofs!Capacities
    BY DEF ClosureProofs!Drop, Closure!Drop, ClosureProofs!Reclaim, Closure!Reclaim,
           ClosureProofs!Deliver, Closure!Deliver, ClosureProofs!Null, Closure!Null,
           ClosureProofs!Capacities, Closure!Capacities
  <1>2. ClosureProofs!IInv'
    BY <1>1, ClosureAssumptions, ClosureProofs!DropStep
  <1>3. open /\ ~open' /\ handed' = handed
    BY DEF Closure!Drop
  <1>4. Delivered' = Handed' /\ Delivered \subseteq Handed
    BY <1>2, <1>3, ClosureFactsHold, ClosureFactsHoldNext DEF ClosureFacts
  <1>5. Handed' = Handed
    BY <1>3 DEF Handed
  <1> QED
    BY <1>2, <1>3, <1>4, <1>5

-----------------------------------------------------------------------------
(* What is read of the memory.                                             *)

CallRecords == [object : Objects, next : {"classLock", "objectLock", "report"}]

\* A multiple of an even number is even.
LEMMA EvenMultiple ==
    ASSUME NEW a \in Nat \ {0}, a % 2 = 0, NEW o \in Nat, o % a = 0
    PROVE  o % 2 = 0
  <1>1. PICK k \in Nat : a = 2 * k
    <2>1. a = 2 * (a \div 2) /\ a \div 2 \in Nat
      OBVIOUS
    <2> QED
      BY <2>1
  <1>2. PICK m \in Nat : o = a * m
    <2>1. o = a * (o \div a) /\ o \div a \in Nat
      OBVIOUS
    <2> QED
      BY <2>1
  <1>3. o = 2 * (k * m) /\ k * m \in Nat
    BY <1>1, <1>2
  <1> QED
    BY <1>3

\* Objects lie in the heap, at even and aligned addresses other than 0.
LEMMA ObjectAddresses ==
    ASSUME NEW o \in Objects
    PROVE  /\ o \in Nat \ {0} /\ o % 2 = 0 /\ IsWordInHeap(o)
           /\ AlignPtr(o) = o /\ IsPtrAligned(o)
  <1>1. o \in Nat /\ o % Alignment = 0 /\ HeapStart <= o /\ o < HeapEnd
    BY HeapAssumption
  <1>2. o % 2 = 0
    BY <1>1, HeapAssumption, EvenMultiple
  <1> QED
    BY <1>1, <1>2, HeapAssumption DEF IsWordInHeap, AlignPtr, IsPtrAligned

\* What the marking of a word a starts.
MarkingOf(a) == IF a \in Objects THEN <<Call(a)>> ELSE <<>>

\* A word is marked if and only if it names an object, and as that object.
LEMMA ReadWordEffect ==
    ASSUME NEW a, a = Words[current], ReadWord
    PROVE  calls' = MarkingOf(a)
  <1>1. calls' = IF phase = "modules" THEN MarkField(a)
                 ELSE IF IsWordInHeap(a) /\ IsPtrAligned(a)
                   THEN MarkConservative(a) ELSE <<>>
    BY DEF ReadWord
  <1>2. a \in Objects => a # 0 /\ IsWordInHeap(a) /\ AlignPtr(a) = a /\ IsPtrAligned(a)
    BY ObjectAddresses
  <1>3. CASE phase = "modules"
    <2>1. calls' = MarkField(a)
      BY <1>1, <1>3
    <2> QED
      BY <1>2, <2>1 DEF MarkField, IsMmtkObject, MarkingOf
  <1>4. CASE phase # "modules" /\ IsWordInHeap(a) /\ IsPtrAligned(a)
    <2>1. calls' = MarkConservative(a) /\ AlignPtr(a) = a
      BY <1>1, <1>4 DEF IsPtrAligned
    <2> QED
      BY <1>2, <2>1 DEF MarkConservative, IsMmtkObject, MarkingOf
  <1>5. CASE phase # "modules" /\ ~(IsWordInHeap(a) /\ IsPtrAligned(a))
    BY <1>1, <1>2, <1>5 DEF MarkingOf
  <1> QED
    BY <1>3, <1>4, <1>5

\* Marking a lock word moves the innermost activation on and, if the word is
\* an object's address plus one, and only then, starts that object's.
LEMMA MarkLockEffect ==
    ASSUME calls \in Seq(CallRecords), calls # <<>>, NEW lock \in Nat,
           NEW next \in {"objectLock", "report"}, MarkLock(lock, next)
    PROVE  /\ calls' \in Seq(CallRecords)
           /\ Len(calls) \in Nat /\ Len(calls) >= 1
           /\ \A i \in 1..Len(calls) : calls'[i].object = calls[i].object
           /\ \A i \in 1..(Len(calls) - 1) : calls'[i].next = calls[i].next
           /\ calls'[Len(calls)].next = next
           /\ \/ Len(calls') = Len(calls) /\ \A q \in Objects : q + 1 # lock
              \/ \E q \in Objects :
                   /\ \A u \in Objects : u + 1 = lock => u = q
                   /\ q + 1 = lock
                   /\ Len(calls') = Len(calls) + 1
                   /\ calls'[Len(calls) + 1] = Call(q)
  <1> DEFINE n == Len(calls)
             moved == [calls EXCEPT ![n].next = next]
             inner == IF FieldIsInflatedLock(lock)
                        THEN MarkField(FieldAlignedLockRef(lock)) ELSE <<>>
  <1>1. n \in Nat /\ n >= 1
    BY LenProperties, EmptySeq
  <1>2. n \in 1..Len(calls) /\ calls[n] \in CallRecords
    BY <1>1, ElementOfSeq
  <1> DEFINE top == [calls[n] EXCEPT !.next = next]
  <1>3. top \in CallRecords /\ top.next = next /\ top.object = calls[n].object
    BY <1>2 DEF CallRecords
  <1>4. moved = [calls EXCEPT ![n] = top]
    OBVIOUS
  <1> HIDE DEF top
  <1>5. /\ moved \in Seq(CallRecords) /\ Len(moved) = n
        /\ \A i \in 1..n : moved[i] = IF i = n THEN top ELSE calls[i]
    BY <1>2, <1>3, <1>4, ExceptSeq
  <1>6. calls' = moved \o inner
    BY DEF MarkLock
  <1> HIDE DEF moved
  <1>7. CASE \A q \in Objects : q + 1 # lock
    <2>1. inner = <<>>
      <3>1. ASSUME FieldIsInflatedLock(lock) PROVE FieldAlignedLockRef(lock) \notin Objects
        <4>1. FieldAlignedLockRef(lock) + 1 = lock
          BY <3>1 DEF FieldIsInflatedLock, FieldAlignedLockRef
        <4> QED
          BY <1>7, <4>1
      <3> QED
        BY <3>1 DEF MarkField, IsMmtkObject
    <2> HIDE DEF inner
    <2>2. calls' = moved
      BY <1>5, <1>6, <2>1, ConcatEmptySeq
    <2> QED
      BY <1>1, <1>3, <1>5, <1>7, <2>2
  <1>8. CASE \E q \in Objects : q + 1 = lock
    <2>1. PICK q \in Objects : q + 1 = lock
      BY <1>8
    <2>2. q \in Nat /\ q % 2 = 0 /\ IsWordInHeap(q)
      BY ObjectAddresses
    <2>3. FieldIsInflatedLock(lock) /\ FieldAlignedLockRef(lock) = q
      BY <2>1, <2>2 DEF FieldIsInflatedLock, FieldAlignedLockRef
    <2>4. inner = <<Call(q)>>
      BY <2>2, <2>3 DEF MarkField, IsMmtkObject
    <2> HIDE DEF inner
    <2>5. Call(q) \in CallRecords
      BY DEF Call, CallRecords
    <2>6. calls' = Append(moved, Call(q))
      BY <1>5, <1>6, <2>4, <2>5, AppendIsConcat
    <2>7. /\ calls' \in Seq(CallRecords) /\ Len(calls') = n + 1
          /\ \A i \in 1..n : calls'[i] = moved[i]
          /\ calls'[n + 1] = Call(q)
      BY <1>5, <2>5, <2>6, AppendProperties
    <2>8. \A u \in Objects : u + 1 = lock => u = q
      BY <2>1, <2>2, ObjectAddresses
    <2> QED
      BY <1>1, <1>3, <1>5, <2>1, <2>7, <2>8
  <1> QED
    BY <1>7, <1>8

\* A return removes the innermost activation and leaves the others alone.
LEMMA ReturnEffect ==
    ASSUME calls \in Seq(CallRecords), calls # <<>>,
           calls' = SubSeq(calls, 1, Len(calls) - 1)
    PROVE  /\ calls' \in Seq(CallRecords)
           /\ Len(calls) \in Nat /\ Len(calls) >= 1 /\ Len(calls') = Len(calls) - 1
           /\ \A i \in 1..Len(calls') : calls'[i] = calls[i]
  <1>1. Len(calls) \in Nat /\ Len(calls) >= 1
    BY LenProperties, EmptySeq
  <1> DEFINE m == Len(calls) - 1
  <1>2. m \in Nat /\ \A i \in 1..m : calls[i] \in CallRecords
    BY <1>1, ElementOfSeq
  <1>3. calls' = SubSeq(calls, 1, m)
    OBVIOUS
  <1> HIDE DEF m
  <1>4. /\ calls' \in Seq(CallRecords) /\ Len(calls') = m
        /\ \A i \in 1..m : calls'[i] = calls[i]
    BY <1>2, <1>3, SubSeqProperties
  <1> QED
    BY <1>1, <1>4 DEF m

-----------------------------------------------------------------------------
(* What does not depend on the step: the memory is never written.          *)

\* The operators on the memory keep their values.
LEMMA MemoryKept ==
    ASSUME memory' = memory
    PROVE  /\ \A o : /\ Monitors(o)' = Monitors(o)
                     /\ ClassMonitor(o)' = ClassMonitor(o)
                     /\ ObjectMonitor(o)' = ObjectMonitor(o)
           /\ \A t : ThreadRoots(t)' = ThreadRoots(t)
           /\ \A p : RootsOf(p)' = RootsOf(p)
           /\ \A S : Closed(S)' = Closed(S)
           /\ \A rank : IsRank(rank)' = IsRank(rank)
  <1>1. \A o : /\ Monitors(o)' = Monitors(o)
               /\ ClassMonitor(o)' = ClassMonitor(o)
               /\ ObjectMonitor(o)' = ObjectMonitor(o)
    BY DEF Monitors, ClassMonitor, ObjectMonitor
  <1>2. \A t : ThreadRoots(t)' = ThreadRoots(t)
    BY DEF ThreadRoots
  <1>3. \A p : RootsOf(p)' = RootsOf(p)
    BY <1>2 DEF RootsOf
  <1>4. \A S : Closed(S)' = Closed(S)
    BY <1>1, <1>3 DEF Closed
  <1>5. \A rank : IsRank(rank)' = IsRank(rank)
    BY <1>1 DEF IsRank
  <1> QED
    BY <1>1, <1>2, <1>3, <1>4, <1>5

\* The monitors of an object are those of its class and its own.
LEMMA MonitorsSplit ==
    \A o : Monitors(o) = ClassMonitor(o) \cup ObjectMonitor(o)
  BY DEF Monitors, ClassMonitor, ObjectMonitor

\* The lock words are natural numbers.
LEMMA LocksTyped ==
    ASSUME TypeOK, NEW o \in Objects
    PROVE  memory.classLock[ClassOf[o]] \in Nat /\ memory.lockWord[o] \in Nat
  BY MemoryAssumption, ClassAssumption DEF TypeOK

\* A step that neither makes a call nor returns keeps what concerns calls.
LEMMA CallsKept ==
    ASSUME MonitorsInv, SoundInv, DepthInv, memory' = memory, calls' = calls,
           handed' = handed
    PROVE  /\ MonitorsInv' /\ SoundInv' /\ DepthInv'
           /\ Seen' = Seen /\ Handed' = Handed
  <1>1. Seen' = Seen /\ Handed' = Handed
    BY DEF Seen, Handed
  <1>2. \A i, q : MarkedAbove(i, q)' = MarkedAbove(i, q)
    BY DEF MarkedAbove
  <1>3. MonitorsInv'
    BY <1>1, <1>2, MemoryKept DEF MonitorsInv
  <1>4. SoundInv'
    BY <1>1, MemoryKept DEF SoundInv
  <1>5. DepthInv'
    BY MemoryKept DEF DepthInv
  <1> QED
    BY <1>1, <1>3, <1>4, <1>5

\* What is seen is not forgotten while a range is read.
LEMMA ProgressKept ==
    ASSUME ProgressInv, Seen \subseteq Seen',
           UNCHANGED <<memory, packet, phase, todo, current>>
    PROVE  ProgressInv'
  <1>1. \A t : ThreadRoots(t)' = ThreadRoots(t) /\ InTodo(t)' = InTodo(t)
    BY MemoryKept DEF InTodo
  <1>2. \A s, n : SeenBelow(s, n) => SeenBelow(s, n)'
    BY DEF SeenBelow
  <1>3. \A p : ThreadsOf(p)' = ThreadsOf(p)
    BY DEF ThreadsOf
  <1> QED
    BY <1>1, <1>2, <1>3 DEF ProgressInv

\* What a done packet has delivered stays delivered.
LEMMA FinishedKept ==
    ASSUME FinishedInv, Delivered \subseteq Delivered', memory' = memory,
           finished' = finished
    PROVE  FinishedInv'
  BY MemoryKept DEF FinishedInv

\* The roots are in every closed set.
LEMMA RootsInClosed ==
    ASSUME NEW S, Closed(S)
    PROVE  /\ \A t \in Threads : ThreadRoots(t) \subseteq S
           /\ \A i \in DOMAIN memory.modules :
                memory.modules[i] \in Objects => memory.modules[i] \in S
  <1>1. RootsOf(VmRoots) \subseteq S
    BY DEF Closed, Packets
  <1>2. ASSUME NEW t \in Threads PROVE ThreadRoots(t) \subseteq S
    <2>1. ThreadRoots(t) \subseteq UNION {ThreadRoots(u) : u \in Threads}
      OBVIOUS
    <2>2. UNION {ThreadRoots(u) : u \in Threads} \subseteq S
      BY <1>1 DEF RootsOf
    <2> QED
      BY <2>1, <2>2
  <1> DEFINE s == memory.modules
  <1>3. Objects \cap {s[j] : j \in DOMAIN s} \subseteq S
    BY <1>1 DEF RootsOf
  <1> HIDE DEF s
  <1>4. \A i \in DOMAIN s : s[i] \in Objects => s[i] \in S
    BY <1>3
  <1> QED
    BY <1>2, <1>4 DEF s

\* The initial state satisfies the invariant.
LEMMA InitIInv == Init => IInv
  <1> SUFFICES ASSUME Init PROVE IInv
    OBVIOUS
  <1>1. ClosureProofs!Init
    BY DEF Init, Closure!Init, ClosureProofs!Init, Closure!Null, ClosureProofs!Null
  <1>2. ClosureProofs!IInv
    BY <1>1, ClosureAssumptions, ClosureProofs!InitIInv
  <1>3. /\ memory \in Memories /\ packet = VmRoots /\ phase = "idle" /\ todo = <<>>
        /\ current = 1 /\ calls = <<>> /\ weakRefStack = <<>> /\ finished = {}
        /\ open = FALSE /\ handed = <<>>
    BY DEF Init, Closure!Init
  <1>4. TypeOK
    BY <1>3 DEF TypeOK, Packets
  <1>5. Seen = {} /\ Handed = {}
    BY <1>3 DEF Seen, Handed
  <1>6. PhaseInv /\ FinishedInv
    BY <1>3 DEF PhaseInv, FinishedInv
  <1>7. ProgressInv
    BY <1>3 DEF ProgressInv
  <1>8. MonitorsInv /\ SoundInv /\ DepthInv
    BY <1>3, <1>5 DEF MonitorsInv, SoundInv, DepthInv
  <1> QED
    BY <1>2, <1>4, <1>6, <1>7, <1>8 DEF IInv

-----------------------------------------------------------------------------
(* Starting and ending packets and ranges.                                 *)

\* scan_roots_in_mutator_thread keeps the invariant.
LEMMA ScanMutatorThreadStep ==
    ASSUME IInv, NEW t \in Threads, NEW c \in Closure!Capacities,
           ScanMutatorThread(t, c)
    PROVE  IInv'
  <1> USE DEF IInv
  <1>1. /\ phase = "idle" /\ packet' = t /\ todo' = <<t>> /\ phase' = "threads"
        /\ UNCHANGED <<memory, current, calls, weakRefStack, finished>>
        /\ Closure!New(c)
    BY DEF ScanMutatorThread
  <1>2. /\ ClosureProofs!IInv' /\ open' /\ ~open
        /\ handed' = handed /\ delivered' = delivered
    BY <1>1, ClosureNew
  <1>3. <<t>> \in Seq(Threads) /\ Len(<<t>>) = 1 /\ <<t>>[1] = t
    OBVIOUS
  <1>4. TypeOK'
    BY <1>1, <1>3 DEF TypeOK, Packets
  <1>5. PhaseInv'
    BY <1>1, <1>2 DEF PhaseInv
  <1>6. ProgressInv'
    <2>1. InTodo(t)'
      BY <1>1, <1>3 DEF InTodo
    <2>2. t # VmRoots
      BY PacketAssumption
    <2> QED
      BY <1>1, <2>1, <2>2 DEF ProgressInv, ThreadsOf
  <1>7. FinishedInv'
    BY <1>1, <1>2, FinishedKept DEF Delivered
  <1>8. MonitorsInv' /\ SoundInv' /\ DepthInv'
    BY <1>1, <1>2, CallsKept
  <1> QED
    BY <1>2, <1>4, <1>5, <1>6, <1>7, <1>8

\* scan_vm_specific_roots keeps it: its list names every thread.
LEMMA ScanVmSpecificRootsStep ==
    ASSUME IInv, NEW c \in Closure!Capacities, ScanVmSpecificRoots(c)
    PROVE  IInv'
  <1> USE DEF IInv
  <1>1. /\ phase = "idle" /\ packet' = VmRoots /\ todo' = MutatorThreads
        /\ phase' = "threads"
        /\ UNCHANGED <<memory, current, calls, weakRefStack, finished>>
        /\ Closure!New(c)
    BY DEF ScanVmSpecificRoots
  <1>2. /\ ClosureProofs!IInv' /\ open' /\ ~open
        /\ handed' = handed /\ delivered' = delivered
    BY <1>1, ClosureNew
  <1>3. MutatorThreads \in Seq(Threads)
    BY PacketAssumption
  <1>4. TypeOK'
    BY <1>1, <1>3 DEF TypeOK, Packets
  <1>5. PhaseInv'
    BY <1>1, <1>2 DEF PhaseInv
  <1>6. ProgressInv'
    <2>1. \A t \in Threads : InTodo(t)'
      BY <1>1, <1>3, LenProperties DEF InTodo, Threads
    <2> QED
      BY <1>1, <2>1 DEF ProgressInv, ThreadsOf
  <1>7. FinishedInv'
    BY <1>1, <1>2, FinishedKept DEF Delivered
  <1>8. MonitorsInv' /\ SoundInv' /\ DepthInv'
    BY <1>1, <1>2, CallsKept
  <1> QED
    BY <1>2, <1>4, <1>5, <1>6, <1>7, <1>8

\* A step that leaves the closure alone keeps what concerns the closure.
LEMMA ClosureKept ==
    ASSUME IInv, UNCHANGED closure, memory' = memory, finished' = finished
    PROVE  /\ ClosureProofs!IInv' /\ FinishedInv' /\ Handed' = Handed
           /\ open' = open /\ handed' = handed
  <1>1. UNCHANGED <<open, buffer, cursor, capacity, slots, vecs, freed, delivered,
                    handed, closures>>
    BY DEF closure
  <1>2. ClosureProofs!IInv'
    BY <1>1 DEF IInv, ClosureProofs!IInv, ClosureProofs!TypeOK, ClosureProofs!BufferInv,
                ClosureProofs!FreedInv, ClosureProofs!PendingInv
  <1>3. Delivered' = Delivered /\ Handed' = Handed
    BY <1>1 DEF Delivered, Handed
  <1>4. FinishedInv'
    BY <1>3, FinishedKept DEF IInv
  <1> QED
    BY <1>1, <1>2, <1>3, <1>4

\* mmtk_mark_program_stack of the thread at the head of the list.
LEMMA MarkProgramStackStep == IInv /\ MarkProgramStack => IInv'
  <1> SUFFICES ASSUME IInv, MarkProgramStack PROVE IInv'
    OBVIOUS
  <1> USE DEF IInv
  <1>1. /\ phase = "threads" /\ todo # <<>> /\ phase' = "stack" /\ current' = 1
        /\ UNCHANGED <<memory, packet, todo, calls, weakRefStack, finished>>
        /\ UNCHANGED closure
    BY DEF MarkProgramStack
  <1>2. /\ ClosureProofs!IInv' /\ FinishedInv' /\ open' = open /\ handed' = handed
    BY <1>1, ClosureKept
  <1>3. /\ MonitorsInv' /\ SoundInv' /\ DepthInv'
        /\ Seen' = Seen /\ Handed' = Handed
    BY <1>1, <1>2, CallsKept
  <1>4. TypeOK'
    BY <1>1 DEF TypeOK
  <1>5. PhaseInv'
    BY <1>1, <1>2 DEF PhaseInv
  <1>6. ProgressInv'
    <2>1. \A t : ThreadRoots(t)' = ThreadRoots(t) /\ InTodo(t)' = InTodo(t)
      BY <1>1, MemoryKept DEF InTodo
    <2>2. \A s : SeenBelow(s, 1)'
      BY DEF SeenBelow
    <2> QED
      BY <1>1, <1>3, <2>1, <2>2 DEF ProgressInv, ThreadsOf
  <1> QED
    BY <1>2, <1>3, <1>4, <1>5, <1>6

\* The closure goes out of scope at the end of the list: every thread of the
\* packet has been scanned, and a mutator's packet is done.
LEMMA ThreadsDoneStep ==
    ASSUME IInv, NEW c \in Closure!Capacities, ThreadsDone(c)
    PROVE  IInv'
  <1> USE DEF IInv
  <1>1. /\ phase = "threads" /\ todo = <<>> /\ calls = <<>>
        /\ UNCHANGED <<memory, packet, todo, current, calls, weakRefStack>>
        /\ Closure!Drop(c)
    BY DEF ThreadsDone, PhaseInv
  <1>2. \/ packet = VmRoots /\ phase' = "between" /\ finished' = finished
        \/ packet # VmRoots /\ phase' = "idle" /\ finished' = finished \cup {packet}
    BY DEF ThreadsDone
  <1>3. /\ ClosureProofs!IInv' /\ open /\ ~open' /\ handed' = handed
        /\ Delivered' = Handed /\ Delivered \subseteq Delivered'
    BY <1>1, ClosureDrop
  <1>4. /\ MonitorsInv' /\ SoundInv' /\ DepthInv'
        /\ Seen' = Seen /\ Handed' = Handed
    BY <1>1, <1>3, CallsKept
  <1>5. Seen = Handed
    BY <1>1 DEF Seen
  <1>6. \A t \in ThreadsOf(packet) : ThreadRoots(t) \subseteq Seen
    <2>1. \A t : ~InTodo(t)
      BY <1>1 DEF InTodo
    <2> QED
      BY <1>1, <2>1 DEF ProgressInv
  <1>7. TypeOK'
    BY <1>1, <1>2 DEF TypeOK
  <1>8. PhaseInv'
    BY <1>1, <1>2, <1>3 DEF PhaseInv
  <1>9. ProgressInv'
    <2>1. \A t : ThreadRoots(t)' = ThreadRoots(t)
      BY <1>1, MemoryKept
    <2> QED
      BY <1>1, <1>2, <1>4, <1>6, <2>1 DEF ProgressInv, ThreadsOf
  <1>10. FinishedInv'
    <2>1. ASSUME NEW p \in finished' PROVE RootsOf(p) \subseteq Delivered'
      <3>1. CASE p \in finished
        BY <1>3, <3>1 DEF FinishedInv
      <3>2. CASE packet # VmRoots /\ p = packet
        <4>1. RootsOf(p) = ThreadRoots(packet) /\ packet \in ThreadsOf(packet)
          BY <3>2 DEF RootsOf, ThreadsOf
        <4> QED
          BY <1>3, <1>5, <1>6, <4>1
      <3> QED
        BY <1>2, <3>1, <3>2
    <2> QED
      BY <1>1, <2>1, MemoryKept DEF FinishedInv
  <1> QED
    BY <1>3, <1>4, <1>7, <1>8, <1>9, <1>10

\* The modules are read into a closure of their own.
LEMMA MarkModulesStep ==
    ASSUME IInv, NEW c \in Closure!Capacities, MarkModules(c)
    PROVE  IInv'
  <1> USE DEF IInv
  <1>1. /\ phase = "between" /\ phase' = "modules" /\ current' = 1
        /\ UNCHANGED <<memory, packet, todo, calls, weakRefStack, finished>>
        /\ Closure!New(c)
    BY DEF MarkModules
  <1>2. /\ ClosureProofs!IInv' /\ open' /\ ~open
        /\ handed' = handed /\ delivered' = delivered
    BY <1>1, ClosureNew
  <1>3. /\ MonitorsInv' /\ SoundInv' /\ DepthInv'
        /\ Seen' = Seen /\ Handed' = Handed
    BY <1>1, <1>2, CallsKept
  <1>4. TypeOK'
    BY <1>1 DEF TypeOK
  <1>5. PhaseInv'
    BY <1>1, <1>2 DEF PhaseInv
  <1>6. ProgressInv'
    <2>1. \A t : ThreadRoots(t)' = ThreadRoots(t)
      BY <1>1, MemoryKept
    <2>2. SeenBelow(memory.modules, 1)'
      BY DEF SeenBelow
    <2> QED
      BY <1>1, <1>3, <2>1, <2>2 DEF ProgressInv, ThreadsOf, SeenBelow
  <1>7. FinishedInv'
    BY <1>1, <1>2, FinishedKept DEF Delivered
  <1> QED
    BY <1>2, <1>3, <1>4, <1>5, <1>6, <1>7

\* The end of the stack of a thread: its registers are read next.
LEMMA StackDoneStep == IInv /\ StackDone => IInv'
  <1> SUFFICES ASSUME IInv, StackDone PROVE IInv'
    OBVIOUS
  <1> USE DEF IInv
  <1>1. /\ phase = "stack" /\ calls = <<>> /\ ~InRange /\ phase' = "regs" /\ current' = 1
        /\ UNCHANGED <<memory, packet, todo, calls, weakRefStack, finished>>
        /\ UNCHANGED closure
    BY DEF StackDone, Reading
  <1>2. /\ ClosureProofs!IInv' /\ FinishedInv' /\ open' = open /\ handed' = handed
    BY <1>1, ClosureKept
  <1>3. /\ MonitorsInv' /\ SoundInv' /\ DepthInv'
        /\ Seen' = Seen /\ Handed' = Handed
    BY <1>1, <1>2, CallsKept
  <1>4. TypeOK'
    BY <1>1 DEF TypeOK
  <1>5. PhaseInv'
    BY <1>1, <1>2 DEF PhaseInv
  <1>6. ProgressInv'
    <2> DEFINE s == memory.stack[Head(todo)]
    <2>1. s \in Seq(Nat)
      <3>1. todo # <<>> /\ todo \in Seq(Threads)
        BY <1>1 DEF PhaseInv, TypeOK
      <3>2. Head(todo) \in Threads
        BY <3>1, HeadTailProperties
      <3> QED
        BY <3>2, MemoryAssumption DEF TypeOK
    <2>2. ~(current <= Len(s)) /\ SeenBelow(s, current) /\ current \in Nat
      BY <1>1 DEF InRange, Words, ProgressInv, TypeOK
    <2> HIDE DEF s
    <2>3. \A i \in 1..Len(s) : s[i] \in Objects => s[i] \in Seen
      BY <2>1, <2>2, LenProperties DEF SeenBelow
    <2>4. \A t : ThreadRoots(t)' = ThreadRoots(t) /\ InTodo(t)' = InTodo(t)
      BY <1>1, MemoryKept DEF InTodo
    <2>5. SeenBelow(memory.regs[Head(todo)], 1)'
      BY DEF SeenBelow
    <2> QED
      BY <1>1, <1>3, <2>3, <2>4, <2>5 DEF ProgressInv, ThreadsOf, SeenBelow, s
  <1> QED
    BY <1>2, <1>3, <1>4, <1>5, <1>6

\* head = node.next: the thread at the head has been scanned, both ranges.
LEMMA RegsDoneStep == IInv /\ RegsDone => IInv'
  <1> SUFFICES ASSUME IInv, RegsDone PROVE IInv'
    OBVIOUS
  <1> USE DEF IInv
  <1>1. /\ phase = "regs" /\ calls = <<>> /\ ~InRange
        /\ phase' = "threads" /\ todo' = Tail(todo)
        /\ UNCHANGED <<memory, packet, current, calls, weakRefStack, finished>>
        /\ UNCHANGED closure
    BY DEF RegsDone, Reading
  <1>2. /\ ClosureProofs!IInv' /\ FinishedInv' /\ open' = open /\ handed' = handed
    BY <1>1, ClosureKept
  <1>3. /\ MonitorsInv' /\ SoundInv' /\ DepthInv'
        /\ Seen' = Seen /\ Handed' = Handed
    BY <1>1, <1>2, CallsKept
  <1>4. todo # <<>> /\ todo \in Seq(Threads)
    BY <1>1 DEF PhaseInv, TypeOK
  <1>5. /\ Head(todo) \in Threads /\ Head(todo) = todo[1]
        /\ Tail(todo) \in Seq(Threads) /\ Len(todo) \in Nat /\ Len(todo) >= 1
        /\ Len(Tail(todo)) = Len(todo) - 1
        /\ \A i \in 1..Len(Tail(todo)) : Tail(todo)[i] = todo[i + 1]
    BY <1>4, HeadTailProperties, LenProperties, EmptySeq
  <1>6. TypeOK'
    BY <1>1, <1>5 DEF TypeOK
  <1>7. PhaseInv'
    BY <1>1, <1>2 DEF PhaseInv
  <1>8. ThreadRoots(Head(todo)) \subseteq Seen
    <2> DEFINE s == memory.stack[Head(todo)]
               r == memory.regs[Head(todo)]
    <2>1. s \in Seq(Nat) /\ r \in Seq(Nat)
      BY <1>5, MemoryAssumption DEF TypeOK
    <2>2. ~(current <= Len(r)) /\ SeenBelow(r, current) /\ current \in Nat
      BY <1>1 DEF InRange, Words, ProgressInv, TypeOK
    <2>3. \A i \in 1..Len(s) : s[i] \in Objects => s[i] \in Seen
      BY <1>1 DEF ProgressInv
    <2>4. ThreadRoots(Head(todo)) =
            Objects \cap ({s[i] : i \in DOMAIN s} \cup {r[i] : i \in DOMAIN r})
      BY DEF ThreadRoots
    <2> HIDE DEF s, r
    <2>5. \A i \in 1..Len(r) : r[i] \in Objects => r[i] \in Seen
      BY <2>1, <2>2, LenProperties DEF SeenBelow
    <2>6. DOMAIN s = 1..Len(s) /\ DOMAIN r = 1..Len(r)
      BY <2>1, LenProperties
    <2> QED
      BY <2>3, <2>4, <2>5, <2>6
  <1>9. \A t : InTodo(t) => t = Head(todo) \/ InTodo(t)'
    <2> SUFFICES ASSUME NEW t, InTodo(t), t # Head(todo) PROVE InTodo(t)'
      OBVIOUS
    <2>1. PICK i \in 1..Len(todo) : todo[i] = t
      BY DEF InTodo
    <2>2. i # 1 /\ i - 1 \in 1..Len(Tail(todo)) /\ (i - 1) + 1 = i
      BY <1>5, <2>1
    <2>3. Tail(todo)[i - 1] = t
      BY <1>5, <2>1, <2>2
    <2> QED
      BY <1>1, <2>2, <2>3 DEF InTodo
  <1>10. ProgressInv'
    <2>1. \A t : ThreadRoots(t)' = ThreadRoots(t)
      BY <1>1, MemoryKept
    <2>2. ASSUME NEW t \in ThreadsOf(packet)
          PROVE  InTodo(t)' \/ ThreadRoots(t) \subseteq Seen
      BY <1>1, <1>8, <1>9 DEF ProgressInv
    <2> QED
      BY <1>1, <1>3, <2>1, <2>2 DEF ProgressInv, ThreadsOf
  <1> QED
    BY <1>2, <1>3, <1>6, <1>7, <1>10

\* The second closure goes out of scope: the packet of the VM is done.
LEMMA ModulesDoneStep ==
    ASSUME IInv, NEW c \in Closure!Capacities, ModulesDone(c)
    PROVE  IInv'
  <1> USE DEF IInv
  <1>1. /\ phase = "modules" /\ calls = <<>> /\ ~InRange
        /\ phase' = "idle" /\ finished' = finished \cup {packet}
        /\ UNCHANGED <<memory, packet, todo, current, calls, weakRefStack>>
        /\ Closure!Drop(c)
    BY DEF ModulesDone, Reading
  <1>2. /\ ClosureProofs!IInv' /\ open /\ ~open' /\ handed' = handed
        /\ Delivered' = Handed /\ Delivered \subseteq Delivered'
    BY <1>1, ClosureDrop
  <1>3. /\ MonitorsInv' /\ SoundInv' /\ DepthInv'
        /\ Seen' = Seen /\ Handed' = Handed
    BY <1>1, <1>2, CallsKept
  <1>4. Seen = Handed
    BY <1>1 DEF Seen
  <1>5. packet = VmRoots
    BY <1>1 DEF PhaseInv
  <1>6. TypeOK'
    BY <1>1 DEF TypeOK
  <1>7. PhaseInv'
    BY <1>1, <1>2 DEF PhaseInv
  <1>8. ProgressInv'
    BY <1>1 DEF ProgressInv
  <1>9. RootsOf(VmRoots) \subseteq Handed
    <2> DEFINE s == memory.modules
    <2>1. s \in Seq(Nat)
      BY MemoryAssumption DEF TypeOK
    <2>2. ~(current <= Len(s)) /\ SeenBelow(s, current) /\ current \in Nat
      BY <1>1 DEF InRange, Words, ProgressInv, TypeOK
    <2>3. RootsOf(VmRoots) = (UNION {ThreadRoots(t) : t \in Threads})
                               \cup (Objects \cap {s[i] : i \in DOMAIN s})
      BY DEF RootsOf
    <2> HIDE DEF s
    <2>4. DOMAIN s = 1..Len(s) /\ \A i \in 1..Len(s) : s[i] \in Objects => s[i] \in Seen
      BY <2>1, <2>2, LenProperties DEF SeenBelow
    <2>5. \A t \in Threads : ThreadRoots(t) \subseteq Seen
      BY <1>1, <1>5 DEF ProgressInv, ThreadsOf
    <2>6. UNION {ThreadRoots(t) : t \in Threads} \subseteq Seen
      BY <2>5
    <2>7. Objects \cap {s[i] : i \in DOMAIN s} \subseteq Seen
      BY <2>4
    <2> QED
      BY <1>4, <2>3, <2>6, <2>7
  <1>10. FinishedInv'
    <2>1. ASSUME NEW p \in finished' PROVE RootsOf(p) \subseteq Delivered'
      BY <1>1, <1>2, <1>5, <1>9 DEF FinishedInv
    <2> QED
      BY <1>1, <2>1, MemoryKept DEF FinishedInv
  <1> QED
    BY <1>2, <1>3, <1>6, <1>7, <1>8, <1>10

-----------------------------------------------------------------------------
(* Reading words and marking objects.                                      *)

\* The words being read are a sequence of numbers.
LEMMA WordsTyped ==
    ASSUME TypeOK, PhaseInv, Reading
    PROVE  Words \in Seq(Nat)
  <1>1. phase \in {"stack", "regs", "modules"} /\ todo \in Seq(Threads)
    BY DEF Reading, TypeOK
  <1>2. phase \in {"stack", "regs"} => Head(todo) \in Threads
    BY <1>1, HeadTailProperties DEF PhaseInv
  <1> QED
    BY <1>1, <1>2, MemoryAssumption DEF Words, TypeOK

\* A word that names an object names a root, in every closed set.
LEMMA WordInClosed ==
    ASSUME TypeOK, PhaseInv, Reading, InRange, Words[current] \in Objects,
           NEW S, Closed(S)
    PROVE  Words[current] \in S
  <1>1. Words \in Seq(Nat) /\ current \in 1..Len(Words) /\ DOMAIN Words = 1..Len(Words)
    BY WordsTyped, LenProperties DEF TypeOK, InRange
  <1>2. \/ phase = "stack" /\ Words = memory.stack[Head(todo)]
        \/ phase = "regs" /\ Words = memory.regs[Head(todo)]
        \/ phase = "modules" /\ Words = memory.modules
    BY DEF Words, Reading
  <1>3. CASE phase = "modules"
    BY <1>1, <1>2, <1>3, RootsInClosed
  <1>4. CASE phase \in {"stack", "regs"}
    <2>1. Head(todo) \in Threads
      BY <1>4, HeadTailProperties DEF PhaseInv, TypeOK
    <2>2. Words[current] \in ThreadRoots(Head(todo))
      <3> DEFINE s == Words
      <3>1. Words[current] \in {s[i] : i \in DOMAIN s}
        BY <1>1
      <3> QED
        BY <1>2, <1>4, <3>1 DEF ThreadRoots
    <2> QED
      BY <2>1, <2>2, RootsInClosed
  <1> QED
    BY <1>2, <1>3, <1>4

\* Reading a word keeps the invariant: it is passed, and marked if it is a root.
LEMMA ReadWordStep == IInv /\ ReadWord => IInv'
  <1> SUFFICES ASSUME IInv, ReadWord PROVE IInv'
    OBVIOUS
  <1> USE DEF IInv
  <1> DEFINE a == Words[current]
  <1>1. /\ Reading /\ InRange /\ calls = <<>> /\ current' = current + 1
        /\ phase \in {"stack", "regs", "modules"}
        /\ UNCHANGED <<memory, packet, phase, todo, weakRefStack, finished>>
        /\ UNCHANGED closure
    BY DEF ReadWord, Reading
  <1>2. calls' = MarkingOf(a)
    BY ReadWordEffect
  <1>3. /\ ClosureProofs!IInv' /\ FinishedInv' /\ open' = open /\ Handed' = Handed
    BY <1>1, ClosureKept
  <1>4. \A S : Closed(S) /\ a \in Objects => a \in S
    BY <1>1, WordInClosed
  <1> HIDE DEF a
  <1>5. /\ calls' \in Seq(CallRecords) /\ Len(calls') \in Nat
        /\ \A i, j \in 1..Len(calls') : i = j
        /\ \A i \in 1..Len(calls') : calls'[i].next = "classLock" /\ calls'[i].object = a
        /\ a \in Objects <=> 1 \in 1..Len(calls')
        /\ a \notin Objects => calls' = <<>>
    <2>1. CASE a \notin Objects
      BY <1>2, <2>1 DEF MarkingOf
    <2>2. CASE a \in Objects
      <3>1. PICK r : r = Call(a)
        OBVIOUS
      <3>2. r \in CallRecords /\ r.next = "classLock" /\ r.object = a
        BY <2>2, <3>1 DEF Call, CallRecords
      <3>3. calls' = <<r>>
        BY <1>2, <2>2, <3>1 DEF MarkingOf
      <3>4. <<r>> \in Seq(CallRecords) /\ Len(<<r>>) = 1 /\ <<r>>[1] = r
        BY <3>2
      <3>5. Len(calls') = 1 /\ calls'[1] = r
        BY <3>3, <3>4
      <3> QED
        BY <2>2, <3>2, <3>3, <3>4, <3>5
    <2> QED
      BY <2>1, <2>2
  <1>6. calls' \in Seq(CallRecords) /\ Len(calls') \in Nat
    BY <1>5
  <1>7. /\ \A i, j \in 1..Len(calls') : i = j
        /\ \A i \in 1..Len(calls') : calls'[i].next = "classLock" /\ calls'[i].object = a
        /\ a \in Objects => 1 \in 1..Len(calls')
    BY <1>5
  <1>8. TypeOK'
    BY <1>1, <1>6 DEF TypeOK, CallRecords
  <1>9. PhaseInv'
    BY <1>1, <1>3 DEF PhaseInv
  <1>10. /\ Seen' = Handed \cup {calls'[i].object : i \in 1..Len(calls')}
         /\ Seen = Handed
    BY <1>1, <1>3 DEF Seen
  <1>11. /\ Seen \subseteq Seen' /\ (a \in Objects => a \in Seen')
         /\ Seen' \subseteq Seen \cup {a} /\ (a \notin Objects => Seen' = Seen)
    <2>1. a \in Objects => calls'[1].object = a
      BY <1>7
    <2> QED
      BY <1>5, <1>7, <1>10, <2>1
  <1>12. ProgressInv'
    <2>1. \A t : ThreadRoots(t)' = ThreadRoots(t) /\ InTodo(t)' = InTodo(t)
      BY <1>1, MemoryKept DEF InTodo
    <2>2. ASSUME NEW s, SeenBelow(s, current), s[current] = a,
                 NEW i \in 1..Len(s), i < current + 1, s[i] \in Objects
          PROVE  s[i] \in Seen'
      <3>1. i < current \/ i = current
        BY <2>2 DEF TypeOK
      <3> QED
        BY <1>11, <2>2, <3>1 DEF SeenBelow
    <2>3. /\ phase = "stack" => memory.stack[Head(todo)][current] = a
          /\ phase = "regs" => memory.regs[Head(todo)][current] = a
          /\ phase = "modules" => memory.modules[current] = a
      BY <1>1 DEF a, Words
    <2> DEFINE st == memory.stack[Head(todo)]
               rg == memory.regs[Head(todo)]
               md == memory.modules
    <2>4. phase = "stack" =>
            \A i \in 1..Len(st) : i < current + 1 /\ st[i] \in Objects => st[i] \in Seen'
      BY <2>2, <2>3 DEF ProgressInv
    <2>5. phase = "regs" =>
            /\ \A i \in 1..Len(st) : st[i] \in Objects => st[i] \in Seen'
            /\ \A i \in 1..Len(rg) : i < current + 1 /\ rg[i] \in Objects => rg[i] \in Seen'
      BY <1>11, <2>2, <2>3 DEF ProgressInv
    <2>6. phase = "modules" =>
            \A i \in 1..Len(md) : i < current + 1 /\ md[i] \in Objects => md[i] \in Seen'
      BY <2>2, <2>3 DEF ProgressInv
    <2>7. phase # "idle" =>
            \A t \in ThreadsOf(packet) :
              (phase \in {"threads", "stack", "regs"} /\ InTodo(t))
                \/ ThreadRoots(t) \subseteq Seen'
      BY <1>11 DEF ProgressInv
    <2> QED
      BY <1>1, <2>1, <2>4, <2>5, <2>6, <2>7 DEF ProgressInv, ThreadsOf, SeenBelow
  <1>13. MonitorsInv'
    BY <1>1, <1>3, <1>7, MemoryKept DEF MonitorsInv
  <1>14. SoundInv'
    <2>1. \A S : Closed(S)' = Closed(S)
      BY <1>1, MemoryKept
    <2> QED
      BY <1>4, <1>11, <2>1 DEF SoundInv
  <1>15. DepthInv'
    BY <1>7 DEF DepthInv
  <1> QED
    BY <1>3, <1>8, <1>9, <1>12, <1>13, <1>14, <1>15

\* mmtk_mark_lock_words, one word of the innermost object: its monitor, if it
\* has one, is being marked when the step is over.
LEMMA MarkLockStep ==
    ASSUME IInv, calls # <<>>, NEW lock \in Nat, NEW next \in {"objectLock", "report"},
           NEW M, M = {q \in Objects : q + 1 = lock},
           \/ next = "objectLock" /\ M = ClassMonitor(Top.object)
           \/ next = "report" /\ M = ObjectMonitor(Top.object) /\ Top.next = "objectLock",
           MarkLock(lock, next),
           UNCHANGED <<memory, packet, phase, todo, current, weakRefStack, finished>>,
           UNCHANGED closure
    PROVE  IInv'
  <1> USE DEF IInv
  <1>0. PICK n, o : n = Len(calls) /\ o = Top.object
    OBVIOUS
  <1>1. calls \in Seq(CallRecords)
    BY DEF TypeOK, CallRecords
  <1>2. /\ calls' \in Seq(CallRecords)
        /\ n \in Nat /\ n >= 1
        /\ \A i \in 1..n : calls'[i].object = calls[i].object
        /\ \A i \in 1..(n - 1) : calls'[i].next = calls[i].next
        /\ calls'[n].next = next
        /\ \/ Len(calls') = n /\ \A q \in Objects : q + 1 # lock
           \/ \E q \in Objects :
                /\ \A u \in Objects : u + 1 = lock => u = q
                /\ q + 1 = lock
                /\ Len(calls') = n + 1
                /\ calls'[n + 1] = Call(q)
    BY <1>0, <1>1, MarkLockEffect
  <1>3. /\ ClosureProofs!IInv' /\ FinishedInv' /\ open' = open /\ Handed' = Handed
    BY ClosureKept
  <1>4. o = calls[n].object /\ calls[n].next = Top.next /\ o \in Objects
    <2>1. calls[n] \in CallRecords
      BY <1>0, <1>1, <1>2, ElementOfSeq
    <2> QED
      BY <1>0, <2>1 DEF Top, CallRecords
  <1>5. M \subseteq Monitors(o)
    BY <1>0, MonitorsSplit
  <1>6. /\ Len(calls') \in Nat /\ n <= Len(calls') /\ Len(calls') <= n + 1
        /\ \A q \in M : Len(calls') = n + 1 /\ calls'[n + 1].object = q
        /\ Len(calls') = n + 1 =>
             calls'[n + 1].object \in M /\ calls'[n + 1].next = "classLock"
    <2>1. CASE Len(calls') = n /\ \A q \in Objects : q + 1 # lock
      BY <1>2, <2>1
    <2>2. CASE \E q \in Objects :
                 /\ \A u \in Objects : u + 1 = lock => u = q
                 /\ q + 1 = lock
                 /\ Len(calls') = n + 1
                 /\ calls'[n + 1] = Call(q)
      <3>1. PICK q \in Objects :
              /\ \A u \in Objects : u + 1 = lock => u = q
              /\ q + 1 = lock
              /\ Len(calls') = n + 1
              /\ calls'[n + 1] = Call(q)
        BY <2>2
      <3>2. M = {q}
        BY <3>1
      <3> QED
        BY <1>2, <3>1, <3>2 DEF Call
    <2> QED
      BY <1>2, <2>1, <2>2
  <1>7. \A i \in 1..Len(calls') : i \in 1..(n - 1) \/ i = n \/ (i = n + 1 /\ Len(calls') = n + 1)
    BY <1>2, <1>6
  <1>8. 1..n \subseteq 1..Len(calls') /\ n \in 1..n
    BY <1>2, <1>6
  <1>9. TypeOK'
    BY <1>2 DEF TypeOK, CallRecords
  <1>10. PhaseInv'
    BY <1>3 DEF PhaseInv
  <1>11. Seen \subseteq Seen' /\ Seen' \subseteq Seen \cup M
    <2>1. \A i \in 1..n : calls'[i].object \in Seen
      BY <1>0, <1>2 DEF Seen
    <2>2. \A i \in 1..Len(calls') : calls'[i].object \in Seen \cup M
      BY <1>2, <1>6, <1>7, <1>8, <2>1
    <2>3. \A i \in 1..n : calls[i].object \in {calls'[j].object : j \in 1..Len(calls')}
      BY <1>2, <1>8
    <2> QED
      BY <1>0, <1>3, <2>2, <2>3 DEF Seen
  <1>12. ProgressInv'
    BY <1>11, ProgressKept
  <1>13. MonitorsInv'
    <2>1. \A i \in 1..n : \A q : MarkedAbove(i, q) => MarkedAbove(i, q)'
      <3> SUFFICES ASSUME NEW i \in 1..n, NEW q, MarkedAbove(i, q) PROVE MarkedAbove(i, q)'
        OBVIOUS
      <3>1. PICK j \in (i + 1)..n : calls[j].object = q
        BY <1>0 DEF MarkedAbove
      <3>2. j \in 1..n /\ j \in (i + 1)..Len(calls')
        BY <1>2, <1>6
      <3> QED
        BY <1>2, <3>1, <3>2 DEF MarkedAbove
    <2>2. \A q \in M : MarkedAbove(n, q)'
      <3>1. \A q \in M : n + 1 \in (n + 1)..Len(calls') /\ calls'[n + 1].object = q
        BY <1>2, <1>6
      <3> QED
        BY <3>1 DEF MarkedAbove
    <2>3. ASSUME NEW i \in 1..Len(calls')
          PROVE  /\ calls'[i].next # "classLock" =>
                      \A q \in ClassMonitor(calls'[i].object) :
                        q \in Handed \/ MarkedAbove(i, q)'
                 /\ calls'[i].next = "report" =>
                      \A q \in ObjectMonitor(calls'[i].object) :
                        q \in Handed \/ MarkedAbove(i, q)'
      <3>1. CASE i \in 1..(n - 1)
        <4>1. i \in 1..n
          BY <1>2, <3>1
        <4>2. calls'[i].object = calls[i].object
          BY <1>2, <4>1
        <4>3. calls'[i].next = calls[i].next
          BY <1>2, <3>1
        <4> QED
          BY <1>0, <2>1, <4>1, <4>2, <4>3 DEF MonitorsInv
      <3>2. CASE i = n
        <4>1. calls'[i].object = o /\ calls'[i].next = next
          BY <1>2, <1>4, <1>8, <3>2
        <4>2. CASE next = "objectLock"
          <5>1. M = ClassMonitor(o)
            BY <1>0, <4>2
          <5> QED
            BY <2>2, <3>2, <4>1, <4>2, <5>1
        <4>3. CASE next = "report"
          <5>1. M = ObjectMonitor(o) /\ Top.next = "objectLock"
            BY <1>0, <4>3
          <5>2. \A q \in ClassMonitor(o) : q \in Handed \/ MarkedAbove(n, q)
            BY <1>0, <1>4, <1>8, <5>1 DEF MonitorsInv
          <5> QED
            BY <1>8, <2>1, <2>2, <3>2, <4>1, <5>1, <5>2
        <4> QED
          BY <4>2, <4>3
      <3>3. CASE i = n + 1 /\ Len(calls') = n + 1
        BY <1>6, <3>3
      <3> QED
        BY <1>7, <3>1, <3>2, <3>3
    <2> QED
      BY <1>3, <2>3, MemoryKept DEF MonitorsInv
  <1>14. SoundInv'
    <2>1. ASSUME NEW S \in SUBSET Objects, Closed(S) PROVE Seen' \subseteq S
      <3>1. Seen \subseteq S
        BY <2>1 DEF SoundInv
      <3>2. o \in S
        BY <1>0, <1>4, <1>8, <3>1 DEF Seen
      <3>3. M \subseteq S
        BY <1>5, <2>1, <3>2 DEF Closed
      <3> QED
        BY <1>11, <3>1, <3>3
    <2> QED
      BY <2>1, MemoryKept DEF SoundInv
  <1>15. DepthInv'
    <2>1. ASSUME NEW rank \in [Objects -> 1..Cardinality(Objects)], IsRank(rank),
                 NEW i \in 1..Len(calls'), NEW j \in 1..Len(calls'), i < j
          PROVE  rank[calls'[j].object] < rank[calls'[i].object]
      <3>1. \A k, l \in 1..n : k < l => rank[calls[l].object] < rank[calls[k].object]
        BY <1>0, <2>1 DEF DepthInv
      <3>2. i \in 1..n
        BY <1>2, <1>6, <2>1
      <3>3. CASE j \in 1..n
        BY <1>2, <2>1, <3>1, <3>2, <3>3
      <3>4. CASE j = n + 1 /\ Len(calls') = n + 1
        <4>1. calls'[j].object \in M /\ M \subseteq Objects
          BY <1>6, <3>4
        <4>2. rank[calls'[j].object] < rank[o]
          BY <1>4, <1>5, <2>1, <4>1 DEF IsRank
        <4>3. i = n \/ rank[o] < rank[calls[i].object]
          BY <1>2, <1>4, <1>8, <3>1, <3>2
        <4>4. calls[i].object \in Objects /\ calls'[i].object = calls[i].object
          <5>1. calls[i] \in CallRecords
            BY <1>0, <1>1, <3>2, ElementOfSeq
          <5> QED
            BY <1>2, <3>2, <5>1 DEF CallRecords
        <4>5. /\ rank[o] \in Int /\ rank[calls[i].object] \in Int
              /\ rank[calls'[j].object] \in Int
          BY <1>4, <4>1, <4>4
        <4>6. i = n => rank[calls[i].object] = rank[o]
          BY <1>4
        <4> QED
          BY <4>2, <4>3, <4>4, <4>5, <4>6
      <3> QED
        BY <1>7, <1>8, <3>3, <3>4
    <2> QED
      BY <2>1, MemoryKept DEF DepthInv
  <1> QED
    BY <1>3, <1>9, <1>10, <1>12, <1>13, <1>14, <1>15

\* There is an innermost activation, of an object.
LEMMA TopTyped ==
    ASSUME TypeOK, calls # <<>>
    PROVE  /\ Len(calls) \in Nat /\ Len(calls) >= 1
           /\ Top = calls[Len(calls)] /\ Top \in CallRecords /\ Top.object \in Objects
  <1>1. calls \in Seq(CallRecords)
    BY DEF TypeOK, CallRecords
  <1>2. Len(calls) \in Nat /\ Len(calls) >= 1
    BY <1>1, LenProperties, EmptySeq
  <1>3. calls[Len(calls)] \in CallRecords
    BY <1>1, <1>2, ElementOfSeq
  <1> QED
    BY <1>2, <1>3 DEF Top, CallRecords

\* The lock word of the class of the innermost object.
LEMMA MarkClassLockStep == IInv /\ MarkClassLock => IInv'
  <1> SUFFICES ASSUME IInv, MarkClassLock PROVE IInv'
    OBVIOUS
  <1>1. PICK lock : lock = memory.classLock[ClassOf[Top.object]]
    OBVIOUS
  <1>2. /\ calls # <<>> /\ MarkLock(lock, "objectLock")
        /\ UNCHANGED <<memory, packet, phase, todo, current, weakRefStack, finished>>
        /\ UNCHANGED closure
    BY <1>1 DEF MarkClassLock
  <1>3. lock \in Nat
    BY <1>1, <1>2, TopTyped, LocksTyped DEF IInv
  <1>4. PICK M : M = {q \in Objects : q + 1 = lock}
    OBVIOUS
  <1>5. M = ClassMonitor(Top.object)
    BY <1>1, <1>4 DEF ClassMonitor
  <1> QED
    BY <1>2, <1>3, <1>4, <1>5, MarkLockStep

\* The lock word of the innermost object itself.
LEMMA MarkObjectLockStep == IInv /\ MarkObjectLock => IInv'
  <1> SUFFICES ASSUME IInv, MarkObjectLock PROVE IInv'
    OBVIOUS
  <1>1. PICK lock : lock = memory.lockWord[Top.object]
    OBVIOUS
  <1>2. /\ calls # <<>> /\ Top.next = "objectLock" /\ MarkLock(lock, "report")
        /\ UNCHANGED <<memory, packet, phase, todo, current, weakRefStack, finished>>
        /\ UNCHANGED closure
    BY <1>1 DEF MarkObjectLock
  <1>3. lock \in Nat
    BY <1>1, <1>2, TopTyped, LocksTyped DEF IInv
  <1>4. PICK M : M = {q \in Objects : q + 1 = lock}
    OBVIOUS
  <1>5. M = ObjectMonitor(Top.object)
    BY <1>1, <1>4 DEF ObjectMonitor
  <1> QED
    BY <1>2, <1>3, <1>4, <1>5, MarkLockStep

\* The innermost object goes to the closure after its monitors, and its
\* activation returns.
LEMMA MarkObjectStep ==
    ASSUME IInv, NEW c \in Closure!Capacities, MarkObject(c)
    PROVE  IInv'
  <1> USE DEF IInv
  <1>0. PICK n, o : n = Len(calls) /\ o = Top.object
    OBVIOUS
  <1>1. /\ calls # <<>> /\ Top.next = "report"
        /\ calls' = SubSeq(calls, 1, Len(calls) - 1)
        /\ weakRefStack' = IF IsWeakReference(o) THEN Append(weakRefStack, o)
                           ELSE weakRefStack
        /\ Closure!DoWork(o, c)
        /\ UNCHANGED <<memory, packet, phase, todo, current, finished>>
    BY <1>0 DEF MarkObject
  <1>2. calls \in Seq(CallRecords)
    BY DEF TypeOK, CallRecords
  <1>3. /\ calls' \in Seq(CallRecords) /\ n \in Nat /\ n >= 1 /\ Len(calls') = n - 1
        /\ \A i \in 1..(n - 1) : calls'[i] = calls[i]
    BY <1>0, <1>1, <1>2, ReturnEffect
  <1>4. o \in Objects /\ calls[n].object = o /\ calls[n].next = "report"
    BY <1>0, <1>1, TopTyped
  <1>5. /\ ClosureProofs!IInv' /\ open' = open
        /\ Handed' = Handed \cup {o} /\ Delivered \subseteq Delivered'
    BY <1>1, <1>4, ClosureDoWork
  <1>6. 1..n = 1..(n - 1) \cup {n} /\ n \in 1..n
    BY <1>3
  <1>7. Seen' = Seen
    <2>1. {calls[i].object : i \in 1..n}
            = {calls'[i].object : i \in 1..(n - 1)} \cup {o}
      BY <1>3, <1>4, <1>6
    <2> QED
      BY <1>0, <1>3, <1>5, <2>1 DEF Seen
  <1>8. TypeOK'
    <2>1. weakRefStack' \in Seq(Objects)
      BY <1>1, <1>4, AppendProperties DEF TypeOK
    <2> QED
      BY <1>1, <1>3, <2>1 DEF TypeOK, CallRecords
  <1>9. PhaseInv'
    BY <1>1, <1>5 DEF PhaseInv
  <1>10. ProgressInv'
    BY <1>1, <1>7, ProgressKept
  <1>11. FinishedInv'
    BY <1>1, <1>5, FinishedKept
  <1>12. MonitorsInv'
    <2>1. \A i \in 1..(n - 1) : \A q : MarkedAbove(i, q) => q = o \/ MarkedAbove(i, q)'
      <3> SUFFICES ASSUME NEW i \in 1..(n - 1), NEW q, MarkedAbove(i, q), q # o
                   PROVE  MarkedAbove(i, q)'
        OBVIOUS
      <3>1. PICK j \in (i + 1)..n : calls[j].object = q
        BY <1>0 DEF MarkedAbove
      <3>2. j \in (i + 1)..(n - 1) /\ j \in 1..(n - 1)
        BY <1>3, <1>4, <3>1
      <3> QED
        BY <1>3, <3>1, <3>2 DEF MarkedAbove
    <2>2. Monitors(o) \subseteq Handed
      <3>1. \A q : ~MarkedAbove(n, q)
        BY <1>0, <1>3 DEF MarkedAbove
      <3>2. \A q \in ClassMonitor(o) \cup ObjectMonitor(o) : q \in Handed \/ MarkedAbove(n, q)
        BY <1>0, <1>4, <1>6 DEF MonitorsInv
      <3> QED
        BY <3>1, <3>2, MonitorsSplit
    <2>3. \A u \in Handed' : Monitors(u) \subseteq Handed'
      BY <1>5, <2>2 DEF MonitorsInv
    <2>4. ASSUME NEW i \in 1..(n - 1)
          PROVE  /\ calls'[i].next # "classLock" =>
                      \A q \in ClassMonitor(calls'[i].object) :
                        q \in Handed' \/ MarkedAbove(i, q)'
                 /\ calls'[i].next = "report" =>
                      \A q \in ObjectMonitor(calls'[i].object) :
                        q \in Handed' \/ MarkedAbove(i, q)'
      <3>1. i \in 1..Len(calls) /\ calls'[i] = calls[i]
        BY <1>0, <1>3, <1>6
      <3> QED
        BY <1>5, <2>1, <3>1 DEF MonitorsInv
    <2> QED
      BY <1>1, <1>3, <2>3, <2>4, MemoryKept DEF MonitorsInv
  <1>13. SoundInv'
    BY <1>1, <1>7, MemoryKept DEF SoundInv
  <1>14. DepthInv'
    BY <1>0, <1>1, <1>3, <1>6, MemoryKept DEF DepthInv
  <1> QED
    BY <1>5, <1>8, <1>9, <1>10, <1>11, <1>12, <1>13, <1>14

\* A step that changes nothing keeps the invariant.
LEMMA StutterStep == IInv /\ UNCHANGED vars => IInv'
  <1> SUFFICES ASSUME IInv, UNCHANGED vars PROVE IInv'
    OBVIOUS
  <1> USE DEF IInv
  <1>1. /\ UNCHANGED <<memory, packet, phase, todo, current, calls, weakRefStack,
                       finished>>
        /\ UNCHANGED closure
    BY DEF vars, closure
  <1>2. ClosureProofs!IInv' /\ FinishedInv' /\ open' = open /\ handed' = handed
    BY <1>1, ClosureKept
  <1>3. MonitorsInv' /\ SoundInv' /\ DepthInv' /\ Seen' = Seen
    BY <1>1, <1>2, CallsKept
  <1>4. ProgressInv'
    BY <1>1, <1>3, ProgressKept
  <1>5. TypeOK' /\ PhaseInv'
    BY <1>1, <1>2 DEF TypeOK, PhaseInv
  <1> QED
    BY <1>2, <1>3, <1>4, <1>5

-----------------------------------------------------------------------------
(* The theorems.                                                           *)

\* Every step of a packet keeps the invariant.
LEMMA StepIInv == IInv /\ [Next]_vars => IInv'
  <1> SUFFICES ASSUME IInv, [Next]_vars PROVE IInv'
    OBVIOUS
  <1>1. CASE UNCHANGED vars
    BY <1>1, StutterStep
  <1>2. ASSUME NEW c \in Closure!Capacities, NEW t \in Threads, ScanMutatorThread(t, c)
        PROVE  IInv'
    BY <1>2, ScanMutatorThreadStep
  <1>3. ASSUME NEW c \in Closure!Capacities,
               \/ ScanVmSpecificRoots(c) \/ ThreadsDone(c) \/ MarkModules(c)
               \/ MarkObject(c) \/ ModulesDone(c)
        PROVE  IInv'
    BY <1>3, ScanVmSpecificRootsStep, ThreadsDoneStep, MarkModulesStep,
       MarkObjectStep, ModulesDoneStep
  <1>4. CASE MarkProgramStack \/ ReadWord \/ StackDone \/ RegsDone
               \/ MarkClassLock \/ MarkObjectLock
    BY <1>4, MarkProgramStackStep, ReadWordStep, StackDoneStep, RegsDoneStep,
       MarkClassLockStep, MarkObjectLockStep
  <1> QED
    BY <1>1, <1>2, <1>3, <1>4 DEF Next, Step

\* The inductive invariant holds in every state of every behaviour.
THEOREM Invariance == Spec => []IInv
  BY InitIInv, StepIInv, PTL DEF Spec

\* Type correctness: only valid objects are ever marked, whatever the words
\* that are read look like.
THEOREM TypeCorrect == Spec => []TypeOK
  BY Invariance, PTL DEF IInv

\* No root is missed, in any memory: a packet that is done has delivered every
\* object its words name, and the monitors with the objects.
THEOREM CompleteCorrect == Spec => []RootsComplete
  <1>1. IInv => RootsComplete
    <2> SUFFICES ASSUME IInv PROVE RootsComplete
      OBVIOUS
    <2>1. phase = "idle" => Delivered = Handed
      BY ClosureFactsHold DEF IInv, PhaseInv, ClosureFacts
    <2> QED
      BY <2>1 DEF RootsComplete, IInv, FinishedInv, MonitorsInv
  <1> QED
    BY <1>1, Invariance, PTL

\* Nothing but the roots and what follows from them by monitors is delivered.
THEOREM SoundCorrect == Spec => []RootsSound
  <1>1. IInv => RootsSound
    <2> SUFFICES ASSUME IInv PROVE RootsSound
      OBVIOUS
    <2>1. Delivered \subseteq Seen
      BY ClosureFactsHold DEF IInv, ClosureFacts, Seen
    <2> QED
      BY <2>1 DEF RootsSound, IInv, SoundInv, Closed
  <1> QED
    BY <1>1, Invariance, PTL

\* If no monitor is, through lock words, its own, mmtk_mark_object is never
\* entered for an object that is being marked.
THEOREM NoReentryCorrect == Spec => []NoReentry
  <1>1. IInv => NoReentry
    <2> SUFFICES ASSUME IInv, Acyclic,
                        NEW i \in 1..Len(calls), NEW j \in 1..Len(calls),
                        calls[i].object = calls[j].object
                 PROVE  i = j
      BY DEF NoReentry
    <2>1. PICK rank \in [Objects -> 1..Cardinality(Objects)] : IsRank(rank)
      BY DEF Acyclic, IsRank
    <2>2. \A k, l \in 1..Len(calls) :
            k < l => rank[calls[l].object] < rank[calls[k].object]
      BY <2>1 DEF IInv, DepthInv
    <2>3. calls[i].object \in Objects /\ i \in Int /\ j \in Int
      <3>1. calls \in Seq(CallRecords)
        BY DEF IInv, TypeOK, CallRecords
      <3>2. calls[i] \in CallRecords
        BY <3>1, ElementOfSeq
      <3> QED
        BY <3>2 DEF CallRecords
    <2>4. rank[calls[i].object] \in Int
      BY <2>1, <2>3
    <2>5. ~(i < j) /\ ~(j < i)
      BY <2>2, <2>4
    <2> QED
      BY <2>3, <2>5
  <1> QED
    BY <1>1, Invariance, PTL
===============================================================================
