------------------------------- MODULE Tracing --------------------------------
(***************************************************************************)
(* Tracing and moving the heap (object_scanning.rs, object_model.rs).  The *)
(* GC workers of mmtk-core take objects from a queue and call the binding  *)
(* to scan them: scan_object_and_trace_edges hands every reference of the  *)
(* object to trace_object, which may move the referent by calling back     *)
(* into copy, and stores the new address where it read the old one.        *)
(*                                                                         *)
(* The first word of an object is its rtti pointer; mmtk-core keeps the    *)
(* two forwarding bits in the low bits of that same word and, in an object *)
(* it has moved, the forwarding pointer.  The rest of trace_object, Immix  *)
(* with opportunistic copying, is modelled as src/ relies on it.           *)
(***************************************************************************)
EXTENDS Naturals, Sequences, FiniteSets

CONSTANTS
    Workers,         \* GC worker threads
    Objects,         \* objects; <<o, 0>> is the address of o before, <<o, 1>>
                     \* the one alloc_copy gives its copy
    Classes,         \* rtti pointers
    ObjectArray,     \* the class of arrays of objects, __OBJECT_ARRAY_ID
    PrimitiveArrays, \* the other classes in ARRAY_IDS_MIN..ARRAY_IDS_MAX
    WeakClasses,     \* WEAK_REF_IDS_MIN..WEAK_REF_IDS_MAX
    WeakField,       \* the slot at WEAK_REF_FIELD_OFFSET
    Heaps,           \* the heaps a collection may start from
    Null,            \* a field that points to no object of the heap
    Thin             \* a lock word that is not inflated

Addresses == Objects \X {0, 1}
Old(o) == <<o, 0>>
New(o) == <<o, 1>>

\* A lock word inflated to the monitor at address a, and back.
FieldInflateLockRef(a) == [monitor |-> a]
FieldIsInflatedLock(lock) == lock # Thin
FieldAlignedLockRef(lock) == lock.monitor

\* A heap: the class, the reference fields and the monitor of each object,
\* the monitor of each class, the roots (pinned, by the scan of the roots),
\* the objects that lie in blocks being evacuated, and how many of them can be
\* copied before space runs out.  The scan of the roots delivers the monitors
\* of what it delivers (RootScanning, RootsComplete).
ASSUME HeapAssumption ==
    \A h \in Heaps :
      /\ h.class \in [Objects -> Classes]
      /\ h.fields \in [Objects -> Seq(Objects \cup {Null})]
      /\ h.lock \in [Objects -> Objects \cup {Thin}]
      /\ h.classLock \in [Classes -> Objects \cup {Thin}]
      /\ h.roots \subseteq Objects /\ h.moving \subseteq Objects
      /\ \A o \in h.roots :
           {h.lock[o], h.classLock[h.class[o]]} \subseteq h.roots \cup {Thin}
      /\ IsFiniteSet(h.moving) /\ h.reserve \in Nat
ASSUME ClassAssumption == ObjectArray \notin PrimitiveArrays \cup WeakClasses
ASSUME NamesAssumption ==
    /\ Null \notin Addresses \cup Objects
    /\ Thin \notin [monitor : Addresses] \cup Objects

VARIABLES
    heap,       \* the heap at the start; never written
    header,     \* first word of each address: forwarding bits and pointer
    fields,     \* reference fields of each address
    lockWord,   \* lock word of each address
    classLock,  \* (*rtti).rt.lock_word of each class
    marked,     \* mmtk-core: addresses marked
    queue,      \* mmtk-core: objects to scan
    scanned,    \* addresses taken from the queue               (history)
    weakRefs,   \* what WEAK_REF_STACK holds, without order and repetition
    at,         \* where each worker is
    obj, slot,  \* object being scanned, and the field
    arg,        \* argument, then result, of trace_object
    back,       \* where trace_object returns to
    target      \* local object: the traced referent of the field

memory == <<header, fields, lockWord, classLock>>
core == <<marked, queue, scanned>>
local == <<obj, slot, arg, back, target>>
vars == <<heap, header, fields, lockWord, classLock, marked, queue, scanned,
          weakRefs, at, obj, slot, arg, back, target>>

Init ==
    /\ heap \in Heaps
    /\ header = [a \in Addresses |->
                   [bits |-> "none", ptr |-> heap.class[a[1]]]]
    /\ fields = [a \in Addresses |->
                   [i \in DOMAIN heap.fields[a[1]] |->
                      LET f == heap.fields[a[1]][i] IN
                      IF f = Null \/ a[2] = 1 THEN Null ELSE Old(f)]]
    /\ lockWord = [a \in Addresses |->
                     IF heap.lock[a[1]] = Thin \/ a[2] = 1 THEN Thin
                     ELSE [monitor |-> Old(heap.lock[a[1]])]]
    /\ classLock = [c \in Classes |->
                      IF heap.classLock[c] = Thin THEN Thin
                      ELSE [monitor |-> Old(heap.classLock[c])]]
    /\ marked = {Old(o) : o \in heap.roots}
    /\ queue = marked /\ scanned = {} /\ weakRefs = {}
    /\ at = [w \in Workers |-> "idle"]
    /\ obj = [w \in Workers |-> Null] /\ slot = [w \in Workers |-> 1]
    /\ arg = [w \in Workers |-> Null] /\ back = [w \in Workers |-> "idle"]
    /\ target = [w \in Workers |-> Null]

-----------------------------------------------------------------------------
(* trace_object, of mmtk-core.                                             *)

Moving(a) == a[2] = 0 /\ a[1] \in heap.moving

\* The pointer part of the header is a class only while the bits are clear.
RttiAligned(a) == header[a].bits = "none"
Rtti(a) == header[a].ptr

Go(w, place) == at' = [at EXCEPT ![w] = place]

Return(w, a) == Go(w, back[w]) /\ arg' = [arg EXCEPT ![w] = a]

Call(w, a, place) ==
    /\ Go(w, "trace")
    /\ arg' = [arg EXCEPT ![w] = a]
    /\ back' = [back EXCEPT ![w] = place]

\* What worker w reads through an rtti pointer with forwarding bits in it is
\* undefined; a debug build panics.  Nothing is said of w after that.
Undefined(w) ==
    /\ Go(w, "undefined")
    /\ UNCHANGED <<heap, memory, core, weakRefs, local>>

\* Outside the blocks being evacuated an object is marked where it is.
TraceInPlace(w) ==
    /\ at[w] = "trace" /\ ~Moving(arg[w])
    /\ marked' = marked \cup {arg[w]}
    /\ queue' = IF arg[w] \in marked THEN queue ELSE queue \cup {arg[w]}
    /\ Return(w, arg[w])
    /\ UNCHANGED <<heap, memory, scanned, weakRefs, obj, slot, back, target>>

\* The forwarding bits go from none to being by compare-and-swap; a worker
\* that loses waits for the winner.
Claim(w) ==
    /\ at[w] = "trace" /\ Moving(arg[w])
    /\ IF header[arg[w]].bits = "none"
         THEN header' = [header EXCEPT ![arg[w]].bits = "being"] /\ Go(w, "claimed")
         ELSE UNCHANGED header /\ Go(w, "spin")
    /\ UNCHANGED <<heap, fields, lockWord, classLock, core, weakRefs, local>>

Spin(w) ==
    /\ at[w] = "spin" /\ header[arg[w]].bits # "being"
    /\ Return(w, IF header[arg[w]].bits = "forwarded"
                   THEN header[arg[w]].ptr ELSE arg[w])
    /\ UNCHANGED <<heap, memory, core, weakRefs, obj, slot, back, target>>

Exhausted == Cardinality({a \in marked : a[2] = 1}) >= heap.reserve

\* The winner of the claim keeps an object that is marked, which it is only in
\* place, or that there is no space left to copy; the bits are cleared.
KeepInPlace(w) ==
    /\ at[w] = "claimed"
    /\ arg[w] \in marked \/ Exhausted
    /\ header' = [header EXCEPT ![arg[w]].bits = "none"]
    /\ marked' = marked \cup {arg[w]}
    /\ queue' = IF arg[w] \in marked THEN queue ELSE queue \cup {arg[w]}
    /\ Return(w, arg[w])
    /\ UNCHANGED <<heap, fields, lockWord, classLock, scanned, weakRefs, obj,
                   slot, back, target>>

\* Mutant: the size is read by size, which does not mask the rtti pointer.
CopyUnmasked(w) ==
    /\ at[w] = "claimed" /\ arg[w] \notin marked /\ ~Exhausted
    /\ ~RttiAligned(arg[w])
    /\ Undefined(w)

\* Mutant: post_copy is not called.
CopyNoPostCopy(w) ==
    /\ at[w] = "claimed" /\ arg[w] \notin marked /\ ~Exhausted
    /\ LET to == New(arg[w][1]) IN
       /\ header' = [header EXCEPT ![to] = header[arg[w]]]
       /\ fields' = [fields EXCEPT ![to] = fields[arg[w]]]
       /\ lockWord' = [lockWord EXCEPT ![to] = lockWord[arg[w]]]
    /\ Go(w, "copied")
    /\ UNCHANGED <<heap, classLock, core, weakRefs, local>>

\* Mutant: the winner copies the object also when it is marked in place.
CopyMarked(w) ==
    /\ at[w] = "claimed" /\ ~Exhausted
    /\ LET to == New(arg[w][1]) IN
       /\ header' = [header EXCEPT ![to] = [header[arg[w]] EXCEPT !.bits = "none"]]
       /\ fields' = [fields EXCEPT ![to] = fields[arg[w]]]
       /\ lockWord' = [lockWord EXCEPT ![to] = lockWord[arg[w]]]
       /\ marked' = marked \cup {to}
    /\ Go(w, "copied")
    /\ UNCHANGED <<heap, classLock, queue, scanned, weakRefs, local>>

\* VMObjectModel::copy of an object whose bits are being: the size comes from
\* the masked rtti pointer, the bytes are copied, the bits too, and post_copy
\* clears the bits of the copy and marks it.
Copy(w) ==
    /\ at[w] = "claimed" /\ arg[w] \notin marked /\ ~Exhausted
    /\ LET to == New(arg[w][1]) IN
       /\ header' = [header EXCEPT ![to] = [header[arg[w]] EXCEPT !.bits = "none"]]
       /\ fields' = [fields EXCEPT ![to] = fields[arg[w]]]
       /\ lockWord' = [lockWord EXCEPT ![to] = lockWord[arg[w]]]
       /\ marked' = marked \cup {to}
    /\ Go(w, "copied")
    /\ UNCHANGED <<heap, classLock, queue, scanned, weakRefs, local>>

\* The forwarding pointer and the bits forwarded replace the first word.
Forward(w) ==
    /\ at[w] = "copied"
    /\ LET to == New(arg[w][1]) IN
       /\ header' = [header EXCEPT ![arg[w]] = [bits |-> "forwarded", ptr |-> to]]
       /\ queue' = queue \cup {to}
       /\ Return(w, to)
    /\ UNCHANGED <<heap, fields, lockWord, classLock, marked, scanned, weakRefs,
                   obj, slot, back, target>>

-----------------------------------------------------------------------------
(* Scanning an object.                                                     *)

IsPrimitiveArray(c) == c \in PrimitiveArrays
IsWeakReference(c) == c \in WeakClasses

\* scan_object_and_trace_edges: is_array reads the rtti; the elements of an
\* array are looked at only if it is an array of objects.
ScanObject(w, a) ==
    /\ at[w] = "idle" /\ a \in queue
    /\ queue' = queue \ {a} /\ scanned' = scanned \cup {a}
    /\ obj' = [obj EXCEPT ![w] = a] /\ slot' = [slot EXCEPT ![w] = 1]
    /\ Go(w, IF ~RttiAligned(a) THEN "undefined"
             ELSE IF IsPrimitiveArray(Rtti(a)) THEN "idle" ELSE "slot")
    /\ UNCHANGED <<heap, memory, marked, weakRefs, arg, back, target>>

InObject(w) == slot[w] <= Len(fields[obj[w]])
Node(w) == fields[obj[w]][slot[w]]

\* Mutant: the referent is traced like any other field.
IsReferentNever(w) == FALSE

\* is_referant_of_weak_reference reads the rtti again for each field; the loop
\* over an array's elements does not.
FieldReadable(w) == RttiAligned(obj[w]) \/ Rtti(obj[w]) = ObjectArray

IsReferent(w) == IsWeakReference(Rtti(obj[w])) /\ slot[w] = WeakField

\* Mutant: continue without i += 1.
SkipFieldAgain(w) ==
    /\ at[w] = "slot" /\ InObject(w) /\ FieldReadable(w)
    /\ IsReferent(w) \/ Node(w) = Null
    /\ slot' = [slot EXCEPT ![w] = IF IsReferent(w) THEN @ ELSE @ + 1]
    /\ UNCHANGED <<heap, memory, core, weakRefs, at, obj, arg, back, target>>

\* A referent, and a word that points to no object of the heap, are passed.
SkipField(w) ==
    /\ at[w] = "slot" /\ InObject(w) /\ FieldReadable(w)
    /\ IsReferent(w) \/ Node(w) = Null
    /\ slot' = [slot EXCEPT ![w] = @ + 1]
    /\ UNCHANGED <<heap, memory, core, weakRefs, at, obj, arg, back, target>>

\* mmtk_scan_field_and_trace_edges up to the call of trace_object.
TraceField(w) ==
    /\ at[w] = "slot" /\ InObject(w) /\ FieldReadable(w)
    /\ ~IsReferent(w) /\ Node(w) # Null
    /\ Call(w, Node(w), "classLock")
    /\ UNCHANGED <<heap, memory, core, weakRefs, obj, slot, target>>

EndObject(w) ==
    /\ at[w] = "slot" /\ ~InObject(w)
    /\ Go(w, "idle")
    /\ UNCHANGED <<heap, memory, core, weakRefs, local>>

\* mmtk_scan_lock_words_and_trace_edges of the referent: (*rtti).rt.lock_word.
TraceClassLock(w) ==
    /\ at[w] = "classLock" /\ RttiAligned(arg[w])
    /\ target' = [target EXCEPT ![w] = arg[w]]
    /\ LET lock == classLock[Rtti(arg[w])] IN
       IF FieldIsInflatedLock(lock)
         THEN Call(w, FieldAlignedLockRef(lock), "storeClassLock")
         ELSE Go(w, "objectLock") /\ UNCHANGED <<arg, back>>
    /\ UNCHANGED <<heap, memory, core, weakRefs, obj, slot>>

StoreClassLock(w) ==
    /\ at[w] = "storeClassLock" /\ RttiAligned(target[w])
    /\ classLock' = [classLock EXCEPT ![Rtti(target[w])] =
                       FieldInflateLockRef(arg[w])]
    /\ Go(w, "objectLock")
    /\ UNCHANGED <<heap, header, fields, lockWord, core, weakRefs, local>>

\* Mutant: the lock word of the object is left out.
TraceObjectLockSkipped(w) ==
    /\ at[w] = "objectLock"
    /\ Go(w, "store")
    /\ UNCHANGED <<heap, memory, core, weakRefs, local>>

\* The lock word of the object itself.
TraceObjectLock(w) ==
    /\ at[w] = "objectLock"
    /\ LET lock == lockWord[target[w]] IN
       IF FieldIsInflatedLock(lock)
         THEN Call(w, FieldAlignedLockRef(lock), "storeObjectLock")
         ELSE Go(w, "store") /\ UNCHANGED <<arg, back>>
    /\ UNCHANGED <<heap, memory, core, weakRefs, obj, slot, target>>

\* The new address of the object's monitor is stored in the lock word of the
\* object's class: the expression for the address is that of StoreClassLock.
StoreObjectLock(w) ==
    /\ at[w] = "storeObjectLock" /\ RttiAligned(target[w])
    /\ classLock' = [classLock EXCEPT ![Rtti(target[w])] =
                       FieldInflateLockRef(arg[w])]
    /\ Go(w, "store")
    /\ UNCHANGED <<heap, header, fields, lockWord, core, weakRefs, local>>

\* Mutant: the old address of a weak reference is pushed.
StoreFieldPushOld(w) ==
    /\ at[w] = "store" /\ RttiAligned(target[w])
    /\ weakRefs' = IF IsWeakReference(Rtti(target[w]))
                     THEN weakRefs \cup {Node(w)} ELSE weakRefs
    /\ fields' = [fields EXCEPT ![obj[w]][slot[w]] = target[w]]
    /\ slot' = [slot EXCEPT ![w] = @ + 1]
    /\ Go(w, "slot")
    /\ UNCHANGED <<heap, header, lockWord, classLock, core, obj, arg, back, target>>

\* Mutant: the slot is not updated.
StoreFieldNot(w) ==
    /\ at[w] = "store" /\ RttiAligned(target[w])
    /\ weakRefs' = IF IsWeakReference(Rtti(target[w]))
                     THEN weakRefs \cup {target[w]} ELSE weakRefs
    /\ slot' = [slot EXCEPT ![w] = @ + 1]
    /\ Go(w, "slot")
    /\ UNCHANGED <<heap, memory, core, obj, arg, back, target>>

\* The end of mmtk_scan_field_and_trace_edges: a weak reference is pushed and
\* the slot gets the new address.
StoreField(w) ==
    /\ at[w] = "store" /\ RttiAligned(target[w])
    /\ weakRefs' = IF IsWeakReference(Rtti(target[w]))
                     THEN weakRefs \cup {target[w]} ELSE weakRefs
    /\ fields' = [fields EXCEPT ![obj[w]][slot[w]] = target[w]]
    /\ slot' = [slot EXCEPT ![w] = @ + 1]
    /\ Go(w, "slot")
    /\ UNCHANGED <<heap, header, lockWord, classLock, core, obj, arg, back, target>>

\* The same steps when another worker holds the claim on the object whose
\* rtti is read.
Misread(w) ==
    /\ \/ at[w] = "slot" /\ InObject(w) /\ ~FieldReadable(w)
       \/ at[w] = "classLock" /\ ~RttiAligned(arg[w])
       \/ at[w] \in {"storeClassLock", "storeObjectLock", "store"}
            /\ ~RttiAligned(target[w])
    /\ Undefined(w)

-----------------------------------------------------------------------------
Work(w) ==
    \/ \E a \in Addresses : ScanObject(w, a)
    \/ SkipField(w) \/ TraceField(w) \/ EndObject(w)
    \/ TraceClassLock(w) \/ StoreClassLock(w)
    \/ TraceObjectLock(w) \/ StoreObjectLock(w) \/ StoreField(w)
    \/ TraceInPlace(w) \/ Claim(w) \/ Spin(w) \/ KeepInPlace(w)
    \/ Copy(w) \/ Forward(w)
    \/ Misread(w)

Next == \E w \in Workers : Work(w)

\* Every GC worker is scheduled.
Spec == Init /\ [][Next]_vars /\ \A w \in Workers : WF_vars(Work(w))

-----------------------------------------------------------------------------
(* Properties.                                                             *)

Done == queue = {} /\ \A w \in Workers : at[w] = "idle"

\* Where an object is now.
Where(o) == IF header[Old(o)].bits = "forwarded" THEN header[Old(o)].ptr ELSE Old(o)

\* The graph of the heap.  Object o leads to what its fields point to, but a
\* weak referent, if they are references, and to the monitors its own lock word
\* and that of its class are inflated to.
Referents(o) ==
    IF heap.class[o] \in PrimitiveArrays THEN {}
    ELSE {heap.fields[o][i] : i \in
            {j \in DOMAIN heap.fields[o] :
               ~(heap.class[o] \in WeakClasses /\ j = WeakField)}} \ {Null}
Monitors(o) == {heap.lock[o], heap.classLock[heap.class[o]]} \ {Thin}
LeadsTo(o) == Referents(o) \cup Monitors(o)

Locks == {Thin} \cup [monitor : Addresses]

\* Type invariant.  A header without forwarding bits holds a class and one
\* that says forwarded an address; what waits to be scanned is marked.
TypeOK ==
    /\ heap \in Heaps
    /\ header \in [Addresses -> [bits : {"none", "being"}, ptr : Classes]
                                  \cup [bits : {"forwarded"}, ptr : Addresses]]
    /\ fields \in [Addresses -> Seq(Addresses \cup {Null})]
    /\ lockWord \in [Addresses -> Locks]
    /\ classLock \in [Classes -> Locks]
    /\ marked \subseteq Addresses /\ queue \subseteq marked
    /\ scanned \subseteq marked /\ weakRefs \subseteq Addresses
    /\ at \in [Workers -> {"idle", "slot", "trace", "spin", "claimed", "copied",
                           "classLock", "storeClassLock", "objectLock",
                           "storeObjectLock", "store", "undefined"}]
    /\ obj \in [Workers -> Addresses \cup {Null}]
    /\ slot \in [Workers -> Nat \ {0}]
    /\ arg \in [Workers -> Addresses \cup {Null}]
    /\ back \in [Workers -> {"idle", "classLock", "storeClassLock", "storeObjectLock"}]
    /\ target \in [Workers -> Addresses \cup {Null}]

\* Nothing that is to stay in an evacuated block is pointed to: there is space
\* to copy all the rest, and no field or lock word leads to a pinned root there.
Uncontended ==
    /\ heap.reserve >= Cardinality(heap.moving)
    /\ \A o \in Objects : LeadsTo(o) \cap heap.roots \cap heap.moving = {}

\* No worker dereferences an rtti pointer that another one has put forwarding
\* bits in, as long as whatever is pointed to in an evacuated block moves: a
\* copy is reached through the new address only (abi.rs:102-107,
\* object_model.rs:20-22, 35).
RttiReadsAligned == Uncontended => \A w \in Workers : at[w] # "undefined"

\* An object that is kept, but neither as a root nor because of a field: only
\* lock words lead to it.
KeptAsMonitor(o) ==
    /\ o \notin heap.roots
    /\ \A p \in Objects : Where(p) \in scanned => o \notin Referents(p)

\* When the queue is empty and every worker idle, the roots have been scanned
\* and with each scanned object all it leads to, where it is now, with one
\* exception: the monitors of an object that is itself kept only as a monitor
\* may be lost.  mmtk_scan_lock_words_and_trace_edges looks at the lock words of
\* what a field points to and not at those of a monitor it has just traced
\* (object_scanning.rs:139-145, 180-214), unlike the scan of the roots
\* (scanning.rs:249-268).
ReachableScanned ==
    Done => /\ \A o \in heap.roots : Where(o) \in scanned
            /\ \A o \in Objects : Where(o) \in scanned =>
                 \A q \in LeadsTo(o) :
                   Where(q) \in scanned \/ (q \in Monitors(o) /\ KeptAsMonitor(o))

\* Nothing else is kept: every set of objects that holds the roots and all that
\* its members lead to holds every marked object.  A weak
\* reference does not keep its referent (object_scanning.rs:246).
OnlyReachableMarked ==
    \A S \in SUBSET Objects :
      heap.roots \subseteq S /\ (\A o \in S : LeadsTo(o) \subseteq S)
        => \A a \in marked : a[1] \in S

\* When tracing is over no reference field of a scanned object points to an
\* address an object has left, or to another object than it did
\* (object_scanning.rs:151-153).
FieldsFollow ==
    Done => \A o \in Objects : Where(o) \in scanned =>
              \A i \in DOMAIN heap.fields[o] :
                heap.fields[o][i] \in Referents(o) =>
                  (heap.class[o] \in WeakClasses /\ i = WeakField)
                    \/ fields[Where(o)][i] = Where(heap.fields[o][i])

\* WEAK_REF_STACK names weak references where they are now, each one that a
\* field of a scanned object points to (object_scanning.rs:146-148).
WeakRefsCurrent ==
    /\ \A a \in weakRefs : a = Where(a[1]) /\ heap.class[a[1]] \in WeakClasses
    /\ Done => \A o \in Objects : Where(o) \in scanned =>
                 \A q \in Referents(o) :
                   heap.class[q] \in WeakClasses => Where(q) \in weakRefs

\* Tracing ends, unless a worker has read an rtti pointer with forwarding bits
\* in it: none spins on a claim for ever, or scans on and on.
TracingEnds == <>(Done \/ \E w \in Workers : at[w] = "undefined")

\* The step by step promise of trace_object and copy: an object is marked only
\* because something marked leads to it, once, in place or, in an evacuated
\* block, as a copy, and no later step takes that back
\* (object_scanning.rs:140, 191, 204; object_model.rs:30-42).
Follows == [o \in Objects |-> LeadsTo(o)]
LiveObjects == INSTANCE LiveObjects
                 WITH roots <- heap.roots, follows <- Follows,
                      movable <- heap.moving, kept <- marked
Kept == LiveObjects!Spec

-----------------------------------------------------------------------------
(* What the source says and the code does not do.                          *)

\* object_model.rs:21 has the rtti masked whenever it is read with forwarding
\* bits, so no read would go astray, whatever stays in place.
RttiNeverMisread == \A w \in Workers : at[w] # "undefined"

\* object_model.rs:17 has no field of a moved object read or written again: when
\* tracing is over the referent of a weak reference that is kept would not be
\* named by the address it has left.
ReferentsFollow ==
    Done => \A o \in Objects : Where(o) \in scanned /\ heap.class[o] \in WeakClasses
              => \A i \in DOMAIN fields[Where(o)] \cap {WeakField} :
                   LET referent == fields[Where(o)][i] IN
                   referent # Null => header[referent].bits # "forwarded"

\* object_scanning.rs:206 announces "Update the slot" for the lock word of the
\* object: after tracing it would name the monitor where it is now.
LockWordsFollow ==
    Done => \A o \in Objects : Where(o) \in scanned /\ heap.lock[o] # Thin
              /\ (\E q \in Objects : Where(q) \in scanned /\ o \in Referents(q))
              => lockWord[Where(o)] = FieldInflateLockRef(Where(heap.lock[o]))
=============================================================================
