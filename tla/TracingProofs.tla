----------------------------- MODULE TracingProofs -----------------------------
(***************************************************************************)
(* Theorems about Tracing, for any number of workers and every heap: what  *)
(* holds of the forwarding bits and the mark, of what each worker is at,   *)
(* and of the slots of the objects that have been scanned.                 *)
(***************************************************************************)
EXTENDS Tracing, TLAPS, FiniteSetTheorems, SequenceTheorems

\* The places where trace_object runs, and those it returns to.
InTrace == {"trace", "spin", "claimed", "copied"}
Returns == {"classLock", "storeClassLock", "storeObjectLock"}

Forwarded(o) == header[Old(o)].bits = "forwarded"
Claimant(w, o) == at[w] \in {"claimed", "copied"} /\ arg[w] = Old(o)

\* An address that may be held: a new one only once it is published.
Valid(a) == a \in Addresses /\ (a[2] = 1 => Forwarded(a[1]))

\* An address that stays right: the object is marked there and does not move.
Current(a) == a \in marked /\ a = Where(a[1])

Traced(o) == Old(o) \in marked \/ New(o) \in marked

\* What the forwarding bits say, at the old and at the new address.
HeaderInv ==
    \A o \in Objects :
      /\ header[New(o)].bits = "none" /\ header[New(o)].ptr = heap.class[o]
      /\ header[Old(o)].bits # "forwarded" => header[Old(o)].ptr = heap.class[o]
      /\ Forwarded(o) => header[Old(o)].ptr = New(o) /\ New(o) \in marked
      /\ header[Old(o)].bits # "none" => o \in heap.moving
      /\ header[Old(o)].bits = "none" => New(o) \notin marked
      /\ header[Old(o)].bits = "being" => \E w \in Workers : Claimant(w, o)
      /\ Old(o) \in marked => New(o) \notin marked

\* An object has one claimant, which is the only one to copy it.
ClaimInv ==
    /\ \A w \in Workers : at[w] \in {"spin", "claimed", "copied"} =>
         /\ arg[w] \in Addresses /\ Moving(arg[w])
         /\ at[w] = "spin" => (header[arg[w]].bits = "none" => arg[w] \in marked)
         /\ at[w] # "spin" => header[arg[w]].bits = "being"
         /\ at[w] = "claimed" => New(arg[w][1]) \notin marked
         /\ at[w] = "copied" => New(arg[w][1]) \in marked
    /\ \A v, w \in Workers : \A o \in Objects :
         Claimant(v, o) /\ Claimant(w, o) => v = w

\* What is marked waits, or is scanned, or is a copy not published yet.
QueueInv ==
    /\ \A a \in queue \cup scanned : Valid(a)
    /\ \A a \in marked \ (queue \cup scanned) :
         \E w \in Workers : at[w] = "copied" /\ a = New(arg[w][1])
    /\ \A o \in heap.roots : Old(o) \in marked

\* Memory says what the heap said at the start, but for addresses that moved.
Written(a) == a[2] = 0 \/ a \in marked
DataInv ==
    \A a \in Addresses :
      /\ Len(fields[a]) = Len(heap.fields[a[1]])
      /\ \A i \in 1..Len(heap.fields[a[1]]) :
           /\ fields[a][i] # Null =>
                Valid(fields[a][i]) /\ fields[a][i][1] = heap.fields[a[1]][i]
           /\ Written(a) /\ fields[a][i] = Null => heap.fields[a[1]][i] = Null
      /\ lockWord[a] # Thin =>
           /\ heap.lock[a[1]] \in Objects
           /\ lockWord[a] = [monitor |-> Old(heap.lock[a[1]])]
      /\ Written(a) /\ lockWord[a] = Thin => heap.lock[a[1]] = Thin

\* Something kept leads to o.
FollowedNow(o) == \E a \in marked : o \in LeadsTo(a[1])

LockTraced(q) == heap.lock[q] = Thin \/ Traced(heap.lock[q])
ClassTraced(c) == heap.classLock[c] = Thin \/ Traced(heap.classLock[c])

\* The lock word of a class names the class's own monitor until that one is
\* traced; after that maybe the monitor of one of its objects.
ClassLockInv ==
    \A c \in Classes :
      /\ classLock[c] = Thin => heap.classLock[c] = Thin
      /\ classLock[c] # Thin =>
           /\ Valid(classLock[c].monitor)
           /\ \/ classLock[c].monitor[1] = heap.classLock[c]
              \/ ClassTraced(c) /\ FollowedNow(classLock[c].monitor[1])

\* Slot i of the object at a is one that tracing follows.
IsFollowed(a, i) ==
    /\ heap.fields[a[1]][i] # Null
    /\ ~(heap.class[a[1]] \in WeakClasses /\ i = WeakField)

\* All that has to be done for slot i of the object at a is done.
SlotDone(a, i) ==
    IsFollowed(a, i) =>
      /\ Current(fields[a][i])
      /\ heap.class[heap.fields[a[1]][i]] \in WeakClasses => fields[a][i] \in weakRefs
      /\ LockTraced(heap.fields[a[1]][i])
      /\ ClassTraced(heap.class[heap.fields[a[1]][i]])

Slots(a) == 1..Len(heap.fields[a[1]])

\* What holds at a place of scan_object_and_trace_edges, the argument and the
\* result of trace_object being x and the local object t, in slot s of o.
PlaceOK(place, o, s, x, t) ==
    LET q == heap.fields[o[1]][s]
        c == heap.class[q]
    IN
    /\ place # "slot" => s \in Slots(o) /\ IsFollowed(o, s)
    /\ place \in Returns => Valid(x) /\ FollowedNow(x[1])
    /\ place = "classLock" => x[1] = q
    /\ place \notin {"slot", "classLock"} => Current(t) /\ t[1] = q
    /\ place = "storeClassLock" => x[1] = heap.classLock[c] \/ ClassTraced(c)
    /\ place = "storeObjectLock" => x[1] = heap.lock[q]
    /\ place \in {"objectLock", "storeObjectLock", "store"} => ClassTraced(c)
    /\ place = "store" => LockTraced(q)

\* What a worker at p, maybe in trace_object, relies on.
LocalOK(p, b, o, s, x, t) ==
    /\ o \in scanned /\ heap.class[o[1]] \notin PrimitiveArrays
    /\ \A i \in Slots(o) : i < s => SlotDone(o, i)
    /\ p \in InTrace => b \in Returns
    /\ p \in Returns => Current(x)
    /\ PlaceOK(IF p \in InTrace THEN b ELSE p, o, s, x, t)

WorkerInv ==
    \A w \in Workers :
      at[w] \notin {"idle", "undefined"} =>
        LocalOK(at[w], back[w], obj[w], slot[w], arg[w], target[w])

\* An object is being scanned once it has been taken, until all is done.
ScannedInv ==
    \A a \in scanned :
      \/ heap.class[a[1]] \in PrimitiveArrays
      \/ \E w \in Workers : at[w] # "idle" /\ obj[w] = a
      \/ \A i \in Slots(a) : SlotDone(a, i)

WeakInv == \A a \in weakRefs : Current(a) /\ heap.class[a[1]] \in WeakClasses

\* Nothing but a pinned root stays in an evacuated block, if there is space and
\* no such root is pointed to.
StayInv ==
    Uncontended => \A o \in heap.moving : Old(o) \in marked => o \in heap.roots

IInv ==
    /\ TypeOK
    /\ HeaderInv /\ ClaimInv /\ QueueInv /\ DataInv /\ ClassLockInv
    /\ WorkerInv /\ ScannedInv /\ WeakInv
    /\ OnlyReachableMarked /\ StayInv /\ RttiReadsAligned

-----------------------------------------------------------------------------
(* Addresses and heaps.                                                    *)

\* Each object has two addresses, which tell the object.
LEMMA AddressFacts ==
    /\ \A o \in Objects :
         /\ Old(o) \in Addresses /\ Old(o)[1] = o /\ Old(o)[2] = 0
         /\ New(o) \in Addresses /\ New(o)[1] = o /\ New(o)[2] = 1
         /\ \A p \in Objects : Old(o) # New(p)
    /\ \A a \in Addresses :
         /\ a[1] \in Objects
         /\ (a[2] = 0 /\ a = Old(a[1])) \/ (a[2] = 1 /\ a = New(a[1]))
  <1>1. ASSUME NEW o \in Objects
        PROVE  /\ Old(o) \in Addresses /\ Old(o)[1] = o /\ Old(o)[2] = 0
               /\ New(o) \in Addresses /\ New(o)[1] = o /\ New(o)[2] = 1
    BY DEF Addresses, Old, New
  <1>2. ASSUME NEW a \in Addresses
        PROVE  /\ a[1] \in Objects
               /\ (a[2] = 0 /\ a = Old(a[1])) \/ (a[2] = 1 /\ a = New(a[1]))
    BY DEF Addresses, Old, New
  <1>3. ASSUME NEW o \in Objects, NEW p \in Objects PROVE Old(o) # New(p)
    BY <1>1
  <1> QED
    BY <1>1, <1>2, <1>3

\* What a heap assigns to each object and class.
LEMMA HeapFacts ==
    ASSUME heap \in Heaps
    PROVE  /\ \A o \in Objects :
                /\ heap.class[o] \in Classes
                /\ heap.fields[o] \in Seq(Objects \cup {Null})
                /\ Len(heap.fields[o]) \in Nat
                /\ \A i \in 1..Len(heap.fields[o]) : heap.fields[o][i] \in Objects \cup {Null}
                /\ heap.lock[o] \in Objects \cup {Thin}
           /\ \A c \in Classes : heap.classLock[c] \in Objects \cup {Thin}
           /\ heap.roots \subseteq Objects /\ heap.moving \subseteq Objects
           /\ \A o \in heap.roots : Monitors(o) \subseteq heap.roots
           /\ IsFiniteSet(heap.moving) /\ heap.reserve \in Nat
  <1>1. /\ heap.class \in [Objects -> Classes]
        /\ heap.fields \in [Objects -> Seq(Objects \cup {Null})]
        /\ heap.lock \in [Objects -> Objects \cup {Thin}]
        /\ heap.classLock \in [Classes -> Objects \cup {Thin}]
        /\ heap.roots \subseteq Objects /\ heap.moving \subseteq Objects
        /\ IsFiniteSet(heap.moving) /\ heap.reserve \in Nat
    BY HeapAssumption
  <1>3. \A o \in heap.roots : Monitors(o) \subseteq heap.roots
    BY HeapAssumption DEF Monitors
  <1>2. ASSUME NEW o \in Objects
        PROVE  /\ heap.fields[o] \in Seq(Objects \cup {Null})
               /\ Len(heap.fields[o]) \in Nat
               /\ \A i \in 1..Len(heap.fields[o]) : heap.fields[o][i] \in Objects \cup {Null}
    <2>1. heap.fields[o] \in Seq(Objects \cup {Null})
      BY <1>1
    <2> QED
      BY <2>1, LenProperties, ElementOfSeq
  <1> QED
    BY <1>1, <1>2, <1>3

\* What an object leads to are objects.
LEMMA LeadsToObjects ==
    ASSUME heap \in Heaps, NEW o \in Objects
    PROVE  LeadsTo(o) \subseteq Objects
  <1>1. Referents(o) \subseteq Objects
    BY HeapFacts DEF Referents
  <1>2. Monitors(o) \subseteq Objects
    BY HeapFacts DEF Monitors
  <1> QED
    BY <1>1, <1>2 DEF LeadsTo

\* An object leads to the referents of the slots that are followed.
LEMMA FollowedFacts ==
    ASSUME heap \in Heaps, NEW o \in Objects, heap.class[o] \notin PrimitiveArrays,
           NEW i \in 1..Len(heap.fields[o]), heap.fields[o][i] # Null,
           ~(heap.class[o] \in WeakClasses /\ i = WeakField),
           NEW q, q = heap.fields[o][i]
    PROVE  q \in Objects /\ q \in LeadsTo(o)
  <1> DEFINE f == heap.fields[o]
             D == {j \in DOMAIN f : ~(heap.class[o] \in WeakClasses /\ j = WeakField)}
  <1>1. q \in Objects /\ f \in Seq(Objects \cup {Null}) /\ DOMAIN f = 1..Len(f)
    BY HeapFacts, LenProperties
  <1>2. i \in D /\ q = f[i]
    BY <1>1
  <1>3. Referents(o) = {f[j] : j \in D} \ {Null}
    BY DEF Referents
  <1> HIDE DEF D, f
  <1> QED
    BY <1>1, <1>2, <1>3, NamesAssumption DEF LeadsTo

\* It leads to its monitor and to that of its class.
LEMMA MonitorFacts ==
    ASSUME NEW o
    PROVE  /\ heap.lock[o] # Thin => heap.lock[o] \in LeadsTo(o)
           /\ heap.classLock[heap.class[o]] # Thin =>
                heap.classLock[heap.class[o]] \in LeadsTo(o)
  BY DEF LeadsTo, Monitors

-----------------------------------------------------------------------------
(* What lasts.                                                             *)

\* What every step does: it forgets no mark and takes back no forwarding, and
\* an object that is marked at its old address is not forwarded any more.
Grows ==
    /\ heap' = heap
    /\ marked \subseteq marked' /\ scanned \subseteq scanned' /\ weakRefs \subseteq weakRefs'
    /\ \A o \in Objects : Forwarded(o) => header'[Old(o)] = header[Old(o)]
    /\ \A o \in Objects : Old(o) \in marked => ~Forwarded(o)'

\* Hence these stay true.
Lasts ==
    /\ \A a \in Addresses : (Valid(a) => Valid(a)') /\ (Current(a) => Current(a)')
    /\ \A o \in Objects : (Traced(o) => Traced(o)') /\ (LockTraced(o) => LockTraced(o)')
    /\ \A c \in Classes : ClassTraced(c) => ClassTraced(c)'
    /\ \A o : FollowedNow(o) => FollowedNow(o)'
    /\ \A o : LeadsTo(o)' = LeadsTo(o)

\* A published address is right as long as the bits say forwarded, and one that
\* is marked in place as long as they do not.
LEMMA GrowsLasts ==
    ASSUME TypeOK, HeaderInv, Grows
    PROVE  Lasts
  <1>1. heap' = heap /\ heap \in Heaps /\ marked \subseteq Addresses
    BY DEF Grows, TypeOK
  <1>2. \A o : LeadsTo(o)' = LeadsTo(o)
    BY <1>1 DEF LeadsTo, Referents, Monitors
  <1>3. \A o \in Objects : Forwarded(o) => Forwarded(o)' /\ Where(o)' = Where(o)
    BY DEF Grows, Forwarded, Where
  <1>4. ASSUME NEW a \in Addresses, Valid(a) PROVE Valid(a)'
    BY <1>3, <1>4, AddressFacts DEF Valid
  <1>5. ASSUME NEW a \in Addresses, Current(a) PROVE Current(a)'
    <2>1. a \in marked /\ a \in marked' /\ a = Where(a[1]) /\ a[1] \in Objects
      BY <1>5, AddressFacts DEF Current, Grows
    <2>2. CASE a = Old(a[1])
      <3>1. ~Forwarded(a[1])'
        BY <2>1, <2>2 DEF Grows
      <3> QED
        BY <2>1, <2>2, <3>1 DEF Current, Where, Forwarded
    <2>3. CASE a = New(a[1])
      <3>1. Forwarded(a[1])
        BY <2>1, <2>3, AddressFacts DEF Where, Forwarded
      <3> QED
        BY <1>3, <2>1, <3>1 DEF Current
    <2> QED
      BY <2>2, <2>3, AddressFacts
  <1>6. \A o \in Objects : Traced(o) => Traced(o)'
    BY DEF Traced, Grows
  <1>7. \A o \in Objects : LockTraced(o) => LockTraced(o)'
    BY <1>1, <1>6, HeapFacts DEF LockTraced
  <1>8. \A c \in Classes : ClassTraced(c) => ClassTraced(c)'
    BY <1>1, <1>6, HeapFacts DEF ClassTraced
  <1>9. \A o : FollowedNow(o) => FollowedNow(o)'
    BY <1>2 DEF FollowedNow, Grows
  <1> QED
    BY <1>2, <1>4, <1>5, <1>6, <1>7, <1>8, <1>9 DEF Lasts

\* A slot that is done stays done while what it holds stays.
LEMMA SlotLasts ==
    ASSUME TypeOK, Grows, Lasts, NEW a \in Addresses, NEW i \in Slots(a),
           SlotDone(a, i), fields'[a][i] = fields[a][i]
    PROVE  SlotDone(a, i)'
  <1>1. heap' = heap /\ heap \in Heaps /\ weakRefs \subseteq weakRefs' /\ marked \subseteq Addresses
    BY DEF Grows, TypeOK
  <1>2. SUFFICES ASSUME IsFollowed(a, i) PROVE SlotDone(a, i)'
    BY <1>1 DEF SlotDone, IsFollowed
  <1>3. PICK q : q = heap.fields[a[1]][i]
    OBVIOUS
  <1>4. q \in Objects /\ heap.class[q] \in Classes
    BY <1>1, <1>2, <1>3, AddressFacts, HeapFacts DEF IsFollowed, Slots
  <1>5. PICK b : b = fields[a][i]
    OBVIOUS
  <1>6. /\ Current(b) /\ LockTraced(q) /\ ClassTraced(heap.class[q])
        /\ heap.class[q] \in WeakClasses => b \in weakRefs
    BY <1>2, <1>3, <1>5 DEF SlotDone
  <1>7. b \in Addresses
    BY <1>1, <1>6 DEF Current
  <1>8. Current(b)' /\ LockTraced(q)' /\ ClassTraced(heap.class[q])'
    BY <1>1, <1>4, <1>6, <1>7 DEF Lasts
  <1> QED
    BY <1>1, <1>3, <1>5, <1>6, <1>8
    DEF SlotDone, Current, LockTraced, ClassTraced, Traced, Where

\* Every slot that is done stays so.
SlotsLast == \A a \in scanned : \A i \in Slots(a) : SlotDone(a, i) => SlotDone(a, i)'

\* What a place relies on lasts.
LEMMA PlaceLasts ==
    ASSUME TypeOK, Grows, Lasts, NEW place, NEW o \in Addresses, NEW s,
           NEW x, NEW t, PlaceOK(place, o, s, x, t)
    PROVE  PlaceOK(place, o, s, x, t)'
  <1>1. heap' = heap /\ heap \in Heaps /\ marked \subseteq Addresses
    BY DEF Grows, TypeOK
  <1>2. PICK q, c : q = heap.fields[o[1]][s] /\ c = heap.class[q]
    OBVIOUS
  <1>3. ASSUME place # "slot" PROVE q \in Objects /\ c \in Classes
    <2>1. s \in Slots(o) /\ IsFollowed(o, s)
      BY <1>3 DEF PlaceOK
    <2> QED
      BY <1>1, <1>2, <2>1, AddressFacts, HeapFacts DEF IsFollowed, Slots
  <1>4. place # "slot" => s \in Slots(o)' /\ IsFollowed(o, s)'
    BY <1>1 DEF PlaceOK, Slots, IsFollowed
  <1>5. place \in Returns => Valid(x)' /\ FollowedNow(x[1])'
    <2> SUFFICES ASSUME place \in Returns PROVE Valid(x)' /\ FollowedNow(x[1])'
      OBVIOUS
    <2>1. Valid(x) /\ x \in Addresses
      BY DEF PlaceOK, Valid
    <2>2. PICK y : y = x[1]
      OBVIOUS
    <2>3. FollowedNow(y)
      BY <2>2 DEF PlaceOK
    <2> QED
      BY <2>1, <2>2, <2>3 DEF Lasts
  <1>6. place \notin {"slot", "classLock"} => Current(t)' /\ t[1] = q
    BY <1>1, <1>2 DEF PlaceOK, Current, Lasts
  <1>7. /\ place = "classLock" => x[1] = q
        /\ place = "storeClassLock" => x[1] = heap.classLock[c] \/ ClassTraced(c)'
        /\ place = "storeObjectLock" => x[1] = heap.lock[q]
        /\ place \in {"objectLock", "storeObjectLock", "store"} => ClassTraced(c)'
        /\ place = "store" => LockTraced(q)'
    BY <1>2, <1>3 DEF PlaceOK, Lasts
  <1> QED
    BY <1>1, <1>2, <1>4, <1>5, <1>6, <1>7 DEF PlaceOK, LockTraced, ClassTraced, Traced

\* So does what a worker relies on.
LEMMA LocalLasts ==
    ASSUME TypeOK, Grows, Lasts, SlotsLast, NEW p, NEW b, NEW o, NEW s,
           NEW x, NEW t, LocalOK(p, b, o, s, x, t)
    PROVE  LocalOK(p, b, o, s, x, t)'
  <1>1. heap' = heap /\ heap \in Heaps /\ marked \subseteq Addresses /\ scanned \subseteq scanned'
    BY DEF Grows, TypeOK
  <1>2. o \in scanned /\ o \in Addresses
    BY <1>1 DEF LocalOK, TypeOK
  <1>3. \A i \in Slots(o)' : i < s => SlotDone(o, i)'
    BY <1>1, <1>2 DEF LocalOK, SlotsLast, Slots
  <1>4. p \in Returns => Current(x)'
    BY <1>1 DEF LocalOK, Current, Lasts
  <1>5. PICK place : place = IF p \in InTrace THEN b ELSE p
    OBVIOUS
  <1>6. PlaceOK(place, o, s, x, t)'
    BY <1>2, <1>5, PlaceLasts DEF LocalOK
  <1> QED
    BY <1>1, <1>2, <1>3, <1>4, <1>5, <1>6 DEF LocalOK

-----------------------------------------------------------------------------
(* What the forwarding bits and the mark tell of an address.               *)

HeaderRecords ==
    [bits : {"none", "being"}, ptr : Classes] \cup [bits : {"forwarded"}, ptr : Addresses]

\* A pointer that stays right was published, and the header it leads to is
\* that of no forwarded object.
LEMMA CurrentFacts ==
    ASSUME TypeOK, HeaderInv, NEW a, Current(a)
    PROVE  a \in Addresses /\ a \in marked /\ Valid(a) /\ a[1] \in Objects /\ Traced(a[1])
  <1>1. a \in Addresses /\ a \in marked /\ a = Where(a[1])
    BY DEF Current, TypeOK
  <1>2. a[2] = 1 => Forwarded(a[1])
    BY <1>1, AddressFacts DEF Where, Forwarded
  <1> QED
    BY <1>1, <1>2, AddressFacts DEF Valid, Traced

\* The rtti of a marked object is its class, whatever the bits.
LEMMA RttiClass ==
    ASSUME TypeOK, HeaderInv, NEW a \in marked
    PROVE  /\ a \in Addresses /\ a[1] \in Objects /\ Rtti(a) = heap.class[a[1]]
           /\ header[a].bits # "forwarded" /\ Written(a)
  <1>1. a \in Addresses /\ a[1] \in Objects
    BY AddressFacts DEF TypeOK
  <1>2. CASE a = Old(a[1])
    <2>1. ~Forwarded(a[1])
      BY <1>1, <1>2 DEF HeaderInv
    <2> QED
      BY <1>1, <1>2, <2>1 DEF HeaderInv, Forwarded, Rtti, Written
  <1>3. CASE a = New(a[1])
    BY <1>1, <1>3 DEF HeaderInv, Rtti, Written
  <1> QED
    BY <1>1, <1>2, <1>3, AddressFacts

\* No bits are set in the header of a marked object if all that is pointed to
\* in an evacuated block moves: a claim is on an object that something points
\* to, and such an object is marked at its new address only.
LEMMA MarkedAligned ==
    ASSUME IInv, Uncontended, NEW a \in marked
    PROVE  RttiAligned(a)
  <1>1. /\ TypeOK /\ HeaderInv /\ ClaimInv /\ WorkerInv /\ StayInv
        /\ heap \in Heaps /\ scanned \subseteq marked /\ marked \subseteq Addresses
    BY DEF IInv, TypeOK
  <1>2. a \in Addresses /\ a[1] \in Objects /\ header[a].bits # "forwarded"
    BY <1>1, RttiClass
  <1>3. header[a] \in HeaderRecords
    BY <1>1, <1>2 DEF TypeOK, HeaderRecords
  <1>4. header[a].bits \in {"none", "being"}
    BY <1>2, <1>3 DEF HeaderRecords
  <1>5. SUFFICES ASSUME header[a].bits = "being" PROVE FALSE
    BY <1>4 DEF RttiAligned
  <1>6. PICK o \in Objects : a = Old(o)
    <2>1. a # New(a[1])
      BY <1>1, <1>2, <1>5 DEF HeaderInv
    <2> QED
      BY <1>2, <2>1, AddressFacts
  <1>7. PICK w \in Workers : Claimant(w, o)
    BY <1>1, <1>5, <1>6 DEF HeaderInv
  <1>8. FollowedNow(o)
    <2>1. at[w] \in InTrace /\ arg[w] = Old(o) /\ at[w] \notin {"idle", "undefined"}
      BY <1>7 DEF Claimant, InTrace
    <2>2. LocalOK(at[w], back[w], obj[w], slot[w], arg[w], target[w])
      BY <1>1, <2>1 DEF WorkerInv
    <2>3. FollowedNow(arg[w][1])
      BY <2>1, <2>2 DEF LocalOK, PlaceOK
    <2> QED
      BY <2>1, <2>3, AddressFacts
  <1>9. o \in heap.moving /\ o \in heap.roots
    BY <1>1, <1>5, <1>6 DEF HeaderInv, StayInv
  <1>10. PICK b \in marked : o \in LeadsTo(b[1])
    BY <1>8 DEF FollowedNow
  <1>11. b[1] \in Objects
    BY <1>1, AddressFacts
  <1> QED
    BY <1>9, <1>10, <1>11 DEF Uncontended

\* There is space for a copy of any object that is claimed, if there is space
\* for one of each: each copy is of another object of the evacuated blocks.
LEMMA NotExhausted ==
    ASSUME TypeOK, HeaderInv, ClaimInv, Uncontended, NEW w \in Workers, at[w] = "claimed"
    PROVE  ~Exhausted
  <1> DEFINE copies == {a \in marked : a[2] = 1}
             first == [a \in copies |-> a[1]]
  <1>1. heap \in Heaps /\ marked \subseteq Addresses
    BY DEF TypeOK
  <1>2. heap.moving \subseteq Objects /\ IsFiniteSet(heap.moving) /\ heap.reserve \in Nat
    BY <1>1, HeapFacts
  <1>3. PICK o \in Objects : arg[w] = Old(o) /\ o \in heap.moving /\ New(o) \notin marked
    <2>1. arg[w] \in Addresses /\ Moving(arg[w]) /\ New(arg[w][1]) \notin marked
      BY DEF ClaimInv
    <2> QED
      BY <2>1, AddressFacts DEF Moving
  <1>4. ASSUME NEW a \in copies PROVE a[1] \in heap.moving \ {o} /\ a = New(a[1])
    <2>1. a \in Addresses /\ a[1] \in Objects /\ a = New(a[1])
      BY <1>1, AddressFacts
    <2>2. header[Old(a[1])].bits # "none"
      BY <2>1 DEF HeaderInv
    <2> QED
      BY <1>3, <2>1, <2>2 DEF HeaderInv
  <1>5. IsFiniteSet(heap.moving \ {o}) /\ Cardinality(heap.moving \ {o}) = Cardinality(heap.moving) - 1
    BY <1>2, <1>3, FS_RemoveElement
  <1>6. first \in Injection(copies, heap.moving \ {o})
    BY <1>4 DEF Injection, IsInjective
  <1>7. Cardinality(copies) <= Cardinality(heap.moving \ {o}) /\ IsFiniteSet(copies)
    BY <1>5, <1>6, FS_Injection DEF ExistsInjection
  <1>8. Cardinality(heap.moving) \in Nat /\ Cardinality(copies) \in Nat
    BY <1>2, <1>7, FS_CardinalityType
  <1>9. heap.reserve >= Cardinality(heap.moving)
    BY DEF Uncontended
  <1> HIDE DEF copies, first
  <1>10. Cardinality(copies) < heap.reserve
    BY <1>2, <1>5, <1>7, <1>8, <1>9
  <1> QED
    BY <1>2, <1>8, <1>10 DEF Exhausted, copies

-----------------------------------------------------------------------------
(* What a step of one worker leaves alone.                                 *)

Others(w) ==
    \A v \in Workers \ {w} :
      /\ at'[v] = at[v] /\ back'[v] = back[v] /\ obj'[v] = obj[v]
      /\ slot'[v] = slot[v] /\ arg'[v] = arg[v] /\ target'[v] = target[v]

\* LocalOK of what worker w holds, each part of it named.
Relies(w) ==
    \E p, b, o, s, x, t :
      /\ p = at[w] /\ b = back[w] /\ o = obj[w]
      /\ s = slot[w] /\ x = arg[w] /\ t = target[w]
      /\ LocalOK(p, b, o, s, x, t)

WorkersRely == \A w \in Workers : at[w] \notin {"idle", "undefined"} => Relies(w)

\* The two ways of saying what the workers rely on.
LEMMA ReliesFacts == WorkerInv <=> WorkersRely
  BY DEF WorkerInv, WorkersRely, Relies

\* What a step of w must show of the workers is what w relies on after it.
LEMMA WorkerLasts ==
    ASSUME TypeOK, WorkerInv, Grows, Lasts, SlotsLast, NEW w \in Workers, Others(w),
           at'[w] \notin {"idle", "undefined"} => Relies(w)'
    PROVE  WorkerInv'
  <1>1. ASSUME NEW v \in Workers \ {w}, at'[v] \notin {"idle", "undefined"}
        PROVE  Relies(v)'
    <2>1. Relies(v)
      BY <1>1, ReliesFacts DEF Others, WorkersRely
    <2>2. PICK p, b, o, s, x, t :
            /\ p = at[v] /\ b = back[v] /\ o = obj[v]
            /\ s = slot[v] /\ x = arg[v] /\ t = target[v]
            /\ LocalOK(p, b, o, s, x, t)
      BY <2>1 DEF Relies
    <2>3. LocalOK(p, b, o, s, x, t)'
      BY <2>2, LocalLasts
    <2>4. /\ p = at'[v] /\ b = back'[v] /\ o = obj'[v]
          /\ s = slot'[v] /\ x = arg'[v] /\ t = target'[v]
      BY <2>2 DEF Others
    <2> QED
      BY <2>3, <2>4 DEF Relies
  <1>2. WorkersRely'
    BY <1>1 DEF WorkersRely
  <1>3. (WorkerInv <=> WorkersRely)'
    BY ReliesFacts, PTL
  <1> QED
    BY <1>2, <1>3

\* No slot changes when no field does.
LEMMA SlotsKept ==
    ASSUME TypeOK, Grows, Lasts, fields' = fields
    PROVE  SlotsLast
  <1>1. ASSUME NEW a \in scanned, NEW i \in Slots(a), SlotDone(a, i) PROVE SlotDone(a, i)'
    BY <1>1, SlotLasts DEF TypeOK
  <1> QED
    BY <1>1 DEF SlotsLast

\* An object that is being scanned still is, or is done.
LEMMA ScannedLasts ==
    ASSUME TypeOK, ScannedInv, Grows, Lasts, SlotsLast, NEW w \in Workers, Others(w),
           NEW a \in scanned,
           at[w] # "idle" /\ obj[w] = a => at'[w] # "idle" /\ obj'[w] = a
    PROVE  \/ heap'.class[a[1]] \in PrimitiveArrays
           \/ \E v \in Workers : at'[v] # "idle" /\ obj'[v] = a
           \/ \A i \in Slots(a)' : SlotDone(a, i)'
  <1>1. heap' = heap
    BY DEF Grows
  <1>2. ASSUME NEW v \in Workers, at[v] # "idle", obj[v] = a
        PROVE  at'[v] # "idle" /\ obj'[v] = a
    BY <1>2 DEF Others
  <1>3. ASSUME \A i \in Slots(a) : SlotDone(a, i) PROVE \A i \in Slots(a)' : SlotDone(a, i)'
    BY <1>1, <1>3 DEF SlotsLast, Slots
  <1> QED
    BY <1>1, <1>2, <1>3 DEF ScannedInv

\* Memory still says what the heap said, when only marks are added.
LEMMA DataLasts ==
    ASSUME TypeOK, DataInv, Grows, Lasts, fields' = fields, lockWord' = lockWord,
           \A o \in Objects : New(o) \in marked' => New(o) \in marked
    PROVE  DataInv'
  <1>1. heap' = heap
    BY DEF Grows
  <1>2. \A a \in Addresses : Written(a)' => Written(a)
    BY AddressFacts DEF Written
  <1>3. \A a : Valid(a) => Valid(a)'
    BY DEF Lasts, Valid
  <1> QED
    BY <1>1, <1>2, <1>3 DEF DataInv

\* So do the lock words of the classes, and the stack of weak references.
LEMMA ClassLasts ==
    ASSUME TypeOK, ClassLockInv, Grows, Lasts, NEW c \in Classes, classLock'[c] = classLock[c]
    PROVE  /\ classLock'[c] = Thin => heap'.classLock[c] = Thin
           /\ classLock'[c] # Thin =>
                /\ Valid(classLock[c].monitor)'
                /\ \/ classLock'[c].monitor[1] = heap'.classLock[c]
                   \/ ClassTraced(c)' /\ FollowedNow(classLock[c].monitor[1])'
  <1>1. heap' = heap
    BY DEF Grows
  <1>2. classLock[c] = Thin => heap.classLock[c] = Thin
    BY DEF ClassLockInv
  <1> SUFFICES ASSUME classLock[c] # Thin
               PROVE  /\ Valid(classLock[c].monitor)'
                      /\ \/ classLock'[c].monitor[1] = heap'.classLock[c]
                         \/ ClassTraced(c)' /\ FollowedNow(classLock[c].monitor[1])'
    BY <1>1, <1>2
  <1>3. PICK m : m = classLock[c].monitor
    OBVIOUS
  <1>4. PICK o : o = m[1]
    OBVIOUS
  <1>5. Valid(m) /\ (o = heap.classLock[c] \/ (ClassTraced(c) /\ FollowedNow(o)))
    BY <1>3, <1>4 DEF ClassLockInv
  <1>6. Valid(m)' /\ (o = heap.classLock[c] \/ (ClassTraced(c)' /\ FollowedNow(o)'))
    BY <1>5 DEF Lasts, Valid
  <1>7. m = classLock'[c].monitor /\ o = classLock'[c].monitor[1]
    BY <1>3, <1>4
  <1> QED
    BY <1>1, <1>6, <1>7 DEF Valid, Forwarded, FollowedNow

\* The lock words of the classes, when none is written.
LEMMA ClassesLast ==
    ASSUME TypeOK, ClassLockInv, Grows, Lasts, classLock' = classLock
    PROVE  ClassLockInv'
  <1>1. ASSUME NEW c \in Classes
        PROVE  /\ classLock'[c] = Thin => heap'.classLock[c] = Thin
               /\ classLock'[c] # Thin =>
                    /\ Valid(classLock[c].monitor)'
                    /\ \/ classLock'[c].monitor[1] = heap'.classLock[c]
                       \/ ClassTraced(c)' /\ FollowedNow(classLock[c].monitor[1])'
    BY ClassLasts
  <1> QED
    BY <1>1 DEF ClassLockInv

\* The stack of weak references, when nothing is pushed.
LEMMA WeakLasts ==
    ASSUME TypeOK, WeakInv, Grows, Lasts, weakRefs' = weakRefs
    PROVE  WeakInv'
  BY DEF WeakInv, Grows, Lasts, TypeOK

\* A step of w outside trace_object.
Quiet(w) ==
    /\ UNCHANGED <<heap, header, lockWord, marked>>
    /\ scanned \subseteq scanned' /\ weakRefs \subseteq weakRefs'
    /\ Others(w)
    /\ at[w] \notin {"spin", "claimed", "copied"}
    /\ at'[w] \notin {"spin", "claimed", "copied"}

\* It takes no part in what concerns the forwarding bits and the marks.
LEMMA QuietKeeps ==
    ASSUME IInv, NEW w \in Workers, Quiet(w)
    PROVE  /\ Grows /\ Lasts
           /\ HeaderInv' /\ ClaimInv' /\ OnlyReachableMarked' /\ StayInv'
  <1>1. TypeOK /\ HeaderInv /\ ClaimInv /\ OnlyReachableMarked /\ StayInv
    BY DEF IInv
  <1>2. Grows
    BY <1>1 DEF Quiet, Grows, HeaderInv, Forwarded
  <1>3. Lasts
    BY <1>1, <1>2, GrowsLasts
  <1>4. \A v \in Workers, o \in Objects : Claimant(v, o)' <=> Claimant(v, o)
    BY DEF Claimant, Quiet, Others
  <1>5. HeaderInv'
    BY <1>1, <1>4 DEF HeaderInv, Forwarded, Quiet
  <1>6. ClaimInv'
    <2>1. ASSUME NEW v \in Workers, at'[v] \in {"spin", "claimed", "copied"}
          PROVE  at'[v] = at[v] /\ arg'[v] = arg[v]
      BY <2>1 DEF Quiet, Others
    <2>2. ASSUME NEW v \in Workers, at'[v] \in {"spin", "claimed", "copied"}
          PROVE  /\ arg'[v] \in Addresses /\ Moving(arg[v])'
                 /\ at'[v] = "spin" => (header'[arg'[v]].bits = "none" => arg'[v] \in marked')
                 /\ at'[v] # "spin" => header'[arg'[v]].bits = "being"
                 /\ at'[v] = "claimed" => New(arg'[v][1]) \notin marked'
                 /\ at'[v] = "copied" => New(arg'[v][1]) \in marked'
      BY <1>1, <2>1, <2>2 DEF ClaimInv, Moving, Quiet
    <2>3. \A u, v \in Workers : \A o \in Objects : Claimant(u, o)' /\ Claimant(v, o)' => u = v
      BY <1>1, <1>4 DEF ClaimInv
    <2> QED
      BY <2>2, <2>3 DEF ClaimInv
  <1>7. OnlyReachableMarked'
    BY <1>1, <1>3 DEF OnlyReachableMarked, Lasts, Quiet
  <1>8. StayInv'
    BY <1>1, <1>3 DEF StayInv, Uncontended, Lasts, Quiet
  <1> QED
    BY <1>2, <1>3, <1>5, <1>6, <1>7, <1>8

\* What is left to show of such a step.
LEMMA QuietStep ==
    ASSUME IInv, NEW w \in Workers, Quiet(w), SlotsLast,
           TypeOK', QueueInv', DataInv', ClassLockInv', ScannedInv', WeakInv',
           at'[w] \notin {"idle", "undefined"} => Relies(w)',
           at'[w] = "undefined" => ~Uncontended
    PROVE  IInv'
  <1>1. TypeOK /\ WorkerInv /\ RttiReadsAligned
    BY DEF IInv
  <1>2. Grows /\ Lasts /\ HeaderInv' /\ ClaimInv' /\ OnlyReachableMarked' /\ StayInv'
    BY QuietKeeps
  <1>3. WorkerInv'
    BY <1>1, <1>2, WorkerLasts DEF Quiet
  <1>4. Uncontended' => Uncontended
    BY <1>2 DEF Uncontended, Lasts, Quiet
  <1>5. RttiReadsAligned'
    BY <1>1, <1>4 DEF RttiReadsAligned, Quiet, Others
  <1> QED
    BY <1>2, <1>3, <1>5 DEF IInv

\* The queue, when nothing is taken from it.
LEMMA QuietQueue ==
    ASSUME IInv, NEW w \in Workers, Quiet(w), queue' = queue, scanned' = scanned
    PROVE  QueueInv'
  <1>1. QueueInv /\ Lasts
    BY QuietKeeps DEF IInv
  <1>2. \A a \in queue \cup scanned : Valid(a)'
    BY <1>1 DEF QueueInv, Valid, Lasts
  <1>3. ASSUME NEW a \in marked \ (queue \cup scanned)
        PROVE  \E v \in Workers : at'[v] = "copied" /\ a = New(arg'[v][1])
    <2>1. PICK v \in Workers : at[v] = "copied" /\ a = New(arg[v][1])
      BY <1>1 DEF QueueInv
    <2> QED
      BY <2>1 DEF Quiet, Others
  <1> QED
    BY <1>1, <1>2, <1>3 DEF QueueInv, Quiet

\* A step that writes no more than what worker w holds.
LEMMA LocalStep ==
    ASSUME IInv, NEW w \in Workers, Quiet(w), UNCHANGED <<fields, classLock, core, weakRefs>>,
           TypeOK', at'[w] # "idle", obj'[w] = obj[w],
           at'[w] # "undefined" => Relies(w)',
           at'[w] = "undefined" => ~Uncontended
    PROVE  IInv'
  <1>1. /\ TypeOK /\ DataInv /\ ClassLockInv /\ ScannedInv /\ WeakInv
        /\ Grows /\ Lasts /\ scanned' = scanned /\ queue' = queue /\ marked' = marked
    BY QuietKeeps DEF IInv, core
  <1>2. SlotsLast
    BY <1>1, SlotsKept
  <1>3. QueueInv'
    BY <1>1, QuietQueue
  <1>4. DataInv'
    BY <1>1, DataLasts DEF Quiet
  <1>5. ClassLockInv' /\ WeakInv'
    BY <1>1, ClassesLast, WeakLasts
  <1>6. ScannedInv'
    <2>1. ASSUME NEW a \in scanned
          PROVE  \/ heap'.class[a[1]] \in PrimitiveArrays
                 \/ \E v \in Workers : at'[v] # "idle" /\ obj'[v] = a
                 \/ \A i \in Slots(a)' : SlotDone(a, i)'
      BY <1>1, <1>2, ScannedLasts DEF Quiet
    <2> QED
      BY <1>1, <2>1 DEF ScannedInv
  <1> QED
    BY <1>2, <1>3, <1>4, <1>5, <1>6, QuietStep

-----------------------------------------------------------------------------
(* The steps of scan_object_and_trace_edges.                               *)

\* A slot that is passed holds a referent, or pointed to nothing from the start.
LEMMA SkipFieldStep ==
    ASSUME IInv, NEW w \in Workers, SkipField(w)
    PROVE  IInv'
  <1>1. TypeOK /\ HeaderInv /\ DataInv /\ WorkerInv /\ scanned \subseteq marked
    BY DEF IInv, TypeOK
  <1>2. Quiet(w) /\ UNCHANGED <<fields, classLock, core, weakRefs>> /\ at'[w] = "slot"
    BY DEF SkipField, Quiet, Others, memory, core
  <1>3. TypeOK'
    <2>1. slot' \in [Workers -> Nat \ {0}]
      BY <1>1 DEF SkipField, TypeOK
    <2> QED
      BY <1>1, <2>1 DEF SkipField, TypeOK, memory, core, Locks
  <1>4. at[w] = "slot" /\ Relies(w)
    BY <1>1, ReliesFacts DEF SkipField, WorkersRely
  <1>5. PICK b, o, s, x, t :
          /\ b = back[w] /\ o = obj[w] /\ s = slot[w] /\ x = arg[w] /\ t = target[w]
          /\ LocalOK("slot", b, o, s, x, t)
    BY <1>4 DEF Relies
  <1>6. /\ o \in scanned /\ o \in Addresses /\ o[1] \in Objects /\ Written(o)
        /\ Rtti(o) = heap.class[o[1]] /\ s \in Nat
    BY <1>1, <1>5, RttiClass DEF LocalOK, TypeOK
  <1>7. ~IsFollowed(o, s) /\ s \in Slots(o)
    <2>1. s <= Len(fields[o]) /\ s # 0
      BY <1>1, <1>5 DEF SkipField, InObject, TypeOK
    <2>2. s \in Slots(o)
      BY <1>1, <1>6, <2>1, HeapFacts DEF DataInv, Slots, TypeOK
    <2>3. CASE IsReferent(w)
      BY <1>5, <1>6, <2>2, <2>3 DEF IsReferent, IsWeakReference, IsFollowed
    <2>4. CASE Node(w) = Null
      BY <1>1, <1>5, <1>6, <2>2, <2>4 DEF Node, DataInv, IsFollowed, Slots
    <2> QED
      BY <2>2, <2>3, <2>4 DEF SkipField
  <1>8. LocalOK("slot", b, o, s + 1, x, t)
    <2>1. ASSUME NEW i \in Slots(o), i < s + 1 PROVE SlotDone(o, i)
      <3>1. i \in Nat /\ (i < s \/ i = s)
        BY <1>6, <2>1 DEF Slots
      <3> QED
        BY <1>5, <1>7, <3>1 DEF LocalOK, SlotDone
    <2> QED
      BY <1>5, <2>1 DEF LocalOK, PlaceOK, Returns, InTrace
  <1>9. Grows /\ Lasts /\ SlotsLast
    BY <1>1, <1>2, QuietKeeps, SlotsKept
  <1>10. LocalOK("slot", b, o, s + 1, x, t)'
    BY <1>1, <1>8, <1>9, LocalLasts
  <1>11. Relies(w)'
    <2>1. /\ at'[w] = "slot" /\ back'[w] = b /\ obj'[w] = o /\ slot'[w] = s + 1
          /\ arg'[w] = x /\ target'[w] = t
      BY <1>1, <1>2, <1>5 DEF SkipField, TypeOK
    <2> QED
      BY <1>10, <2>1 DEF Relies
  <1> QED
    BY <1>2, <1>3, <1>11, LocalStep DEF SkipField

\* The field of a slot that is followed is handed to trace_object.
LEMMA TraceFieldStep ==
    ASSUME IInv, NEW w \in Workers, TraceField(w)
    PROVE  IInv'
  <1>1. TypeOK /\ HeaderInv /\ DataInv /\ WorkerInv /\ scanned \subseteq marked /\ heap \in Heaps
    BY DEF IInv, TypeOK
  <1>2. Quiet(w) /\ UNCHANGED <<fields, classLock, core, weakRefs>> /\ at'[w] = "trace"
    BY <1>1 DEF TraceField, Call, Go, Quiet, Others, memory, core, TypeOK
  <1>3. at[w] = "slot" /\ Relies(w)
    BY <1>1, ReliesFacts DEF TraceField, WorkersRely
  <1>4. PICK b, o, s, x, t :
          /\ b = back[w] /\ o = obj[w] /\ s = slot[w] /\ x = arg[w] /\ t = target[w]
          /\ LocalOK("slot", b, o, s, x, t)
    BY <1>3 DEF Relies
  <1>5. /\ o \in scanned /\ o \in Addresses /\ o[1] \in Objects
        /\ Rtti(o) = heap.class[o[1]] /\ s \in Nat /\ heap.class[o[1]] \notin PrimitiveArrays
    BY <1>1, <1>4, RttiClass DEF LocalOK, TypeOK
  <1>6. s \in Slots(o)
    <2>1. s <= Len(fields[o]) /\ s # 0
      BY <1>1, <1>4 DEF TraceField, InObject, TypeOK
    <2>2. Len(heap.fields[o[1]]) \in Nat /\ Len(fields[o]) = Len(heap.fields[o[1]])
      BY <1>1, <1>5, HeapFacts DEF DataInv
    <2> QED
      BY <1>5, <2>1, <2>2 DEF Slots
  <1>7. PICK y, q : y = Node(w) /\ q = heap.fields[o[1]][s]
    OBVIOUS
  <1>8. Valid(y) /\ y \in Addresses /\ y[1] = q /\ q \in Objects
    <2>1. y = fields[o][s] /\ y # Null
      BY <1>4, <1>7 DEF TraceField, Node
    <2>2. Valid(y) /\ y[1] = q
      BY <1>1, <1>5, <1>6, <1>7, <2>1 DEF DataInv, Slots
    <2> QED
      BY <2>2, AddressFacts DEF Valid
  <1>9. IsFollowed(o, s)
    BY <1>4, <1>5, <1>7, <1>8, NamesAssumption
    DEF TraceField, IsReferent, IsWeakReference, IsFollowed
  <1>10. FollowedNow(q)
    <2>1. q \in LeadsTo(o[1])
      BY <1>1, <1>5, <1>6, <1>7, <1>9, FollowedFacts DEF IsFollowed, Slots
    <2>2. o \in marked
      BY <1>1, <1>5
    <2> QED
      BY <2>1, <2>2 DEF FollowedNow
  <1>11. LocalOK("trace", "classLock", o, s, y, t)
    BY <1>4, <1>6, <1>7, <1>8, <1>9, <1>10 DEF LocalOK, PlaceOK, Returns, InTrace
  <1>12. Grows /\ Lasts /\ SlotsLast
    BY <1>1, <1>2, QuietKeeps, SlotsKept
  <1>13. LocalOK("trace", "classLock", o, s, y, t)'
    BY <1>1, <1>11, <1>12, LocalLasts
  <1>14. TypeOK' /\ Relies(w)'
    <2>1. /\ at' = [at EXCEPT ![w] = "trace"] /\ arg' = [arg EXCEPT ![w] = y]
          /\ UNCHANGED <<heap, memory, core, weakRefs, obj, slot, target>>
          /\ at[w] = "slot"
      BY <1>7 DEF TraceField, Call, Go
    <2>2. /\ at'[w] = "trace" /\ back'[w] = "classLock" /\ obj'[w] = o /\ slot'[w] = s
          /\ arg'[w] = y /\ target'[w] = t
      <3>1. back'[w] = "classLock"
        BY <1>1 DEF TraceField, Call, TypeOK
      <3> QED
        BY <1>1, <1>4, <2>1, <3>1 DEF TypeOK
    <2>3. Relies(w)'
      BY <1>13, <2>2 DEF Relies
    <2>4. back' = [back EXCEPT ![w] = "classLock"]
      BY DEF TraceField, Call
    <2>5. TypeOK'
      BY <1>1, <1>8, <2>1, <2>4 DEF TypeOK, memory, core, Locks
    <2> QED
      BY <2>3, <2>5
  <1> QED
    BY <1>2, <1>14, LocalStep DEF TraceField

\* A step outside trace_object that goes to p, and assigns b, x and t.
LocalWrite(w, p, b, x, t) ==
    /\ UNCHANGED <<heap, memory, core, weakRefs, obj, slot>>
    /\ at' = [at EXCEPT ![w] = p] /\ back' = [back EXCEPT ![w] = b]
    /\ arg' = [arg EXCEPT ![w] = x] /\ target' = [target EXCEPT ![w] = t]
    /\ p \in {"idle", "slot", "trace", "objectLock", "store", "undefined"}
    /\ b \in {"idle", "classLock", "storeClassLock", "storeObjectLock"}
    /\ x \in Addresses \cup {Null} /\ t \in Addresses \cup {Null}

\* What it does to the state of w, which keeps its type.
LEMMA LocalTypes ==
    ASSUME TypeOK, NEW w \in Workers, NEW p, NEW b, NEW x, NEW t,
           LocalWrite(w, p, b, x, t)
    PROVE  /\ TypeOK'
           /\ at'[w] = p /\ back'[w] = b /\ arg'[w] = x /\ target'[w] = t
           /\ obj'[w] = obj[w] /\ slot'[w] = slot[w]
           /\ Others(w)
  <1>1. /\ at \in [Workers -> {"idle", "slot", "trace", "spin", "claimed", "copied",
                           "classLock", "storeClassLock", "objectLock",
                           "storeObjectLock", "store", "undefined"}]
        /\ back \in [Workers -> {"idle", "classLock", "storeClassLock", "storeObjectLock"}]
        /\ arg \in [Workers -> Addresses \cup {Null}]
        /\ target \in [Workers -> Addresses \cup {Null}]
    BY DEF TypeOK
  <1>2. /\ at'[w] = p /\ back'[w] = b /\ arg'[w] = x /\ target'[w] = t
        /\ obj'[w] = obj[w] /\ slot'[w] = slot[w]
        /\ Others(w)
    BY <1>1 DEF Others, LocalWrite
  <1>3. TypeOK'
    BY <1>1 DEF TypeOK, LocalWrite, memory, core, Locks
  <1> QED
    BY <1>2, <1>3

\* To the monitor that the lock word of a class names leads the traced object,
\* or one traced before.
LEMMA ClassMonitor ==
    ASSUME TypeOK, ClassLockInv, NEW x \in marked,
           NEW c \in Classes, c = heap.class[x[1]],
           NEW m, classLock[c] # Thin, m = classLock[c].monitor
    PROVE  /\ m \in Addresses /\ Valid(m) /\ FollowedNow(m[1])
           /\ m[1] = heap.classLock[c] \/ ClassTraced(c)
  <1>1. Valid(m) /\ m \in Addresses /\ m[1] \in Objects
    BY AddressFacts DEF ClassLockInv, Valid
  <1>2. PICK k : k = m[1]
    OBVIOUS
  <1>3. k = heap.classLock[c] \/ (ClassTraced(c) /\ FollowedNow(k))
    BY <1>2 DEF ClassLockInv
  <1>4. CASE k = heap.classLock[c]
    <2>1. k # Thin
      BY <1>1, <1>2, NamesAssumption
    <2>2. k \in LeadsTo(x[1])
      BY <1>4, <2>1, MonitorFacts
    <2> QED
      BY <1>1, <1>2, <1>4, <2>2 DEF FollowedNow
  <1> QED
    BY <1>1, <1>2, <1>3, <1>4

\* The referent has been traced; now the monitor of its class is.
LEMMA TraceClassLockStep ==
    ASSUME IInv, NEW w \in Workers, TraceClassLock(w)
    PROVE  IInv'
  <1>1. TypeOK /\ HeaderInv /\ ClassLockInv /\ WorkerInv /\ heap \in Heaps /\ scanned \subseteq marked
    BY DEF IInv, TypeOK
  <1>2. at[w] = "classLock" /\ Relies(w)
    BY <1>1, ReliesFacts DEF TraceClassLock, WorkersRely
  <1>3. PICK b, o, s, x, t :
          /\ b = back[w] /\ o = obj[w] /\ s = slot[w] /\ x = arg[w] /\ t = target[w]
          /\ LocalOK("classLock", b, o, s, x, t)
    BY <1>2 DEF Relies
  <1>4. PICK q, c : q = heap.fields[o[1]][s] /\ c = heap.class[q]
    OBVIOUS
  <1>5. /\ o \in scanned /\ s \in Slots(o) /\ IsFollowed(o, s)
        /\ heap.class[o[1]] \notin PrimitiveArrays
        /\ Current(x) /\ x[1] = q
        /\ \A i \in Slots(o) : i < s => SlotDone(o, i)
    BY <1>3, <1>4 DEF LocalOK, PlaceOK, Returns, InTrace
  <1>6. x \in Addresses /\ q \in Objects /\ c \in Classes /\ Rtti(x) = c
    BY <1>1, <1>4, <1>5, CurrentFacts, RttiClass, HeapFacts
  <1>7. b \in {"idle", "classLock", "storeClassLock", "storeObjectLock"}
    BY <1>1, <1>3 DEF TypeOK
  <1>8. /\ target' = [target EXCEPT ![w] = x]
        /\ UNCHANGED <<heap, memory, core, weakRefs, obj, slot>>
    BY <1>3 DEF TraceClassLock
  <1>9. CASE classLock[c] # Thin
    <2>1. PICK m : m = classLock[c].monitor
      OBVIOUS
    <2>2. /\ m \in Addresses /\ Valid(m) /\ FollowedNow(m[1])
          /\ m[1] = heap.classLock[c] \/ ClassTraced(c)
      <3>1. x \in marked /\ c = heap.class[x[1]]
        BY <1>4, <1>5 DEF Current
      <3> QED
        BY <1>1, <1>6, <1>9, <2>1, <3>1, ClassMonitor
    <2>3. /\ at' = [at EXCEPT ![w] = "trace"] /\ arg' = [arg EXCEPT ![w] = m]
          /\ back' = [back EXCEPT ![w] = "storeClassLock"]
      BY <1>3, <1>6, <1>9, <2>1
      DEF TraceClassLock, FieldIsInflatedLock, FieldAlignedLockRef, Call, Go
    <2>4. /\ TypeOK' /\ Others(w) /\ at'[w] = "trace" /\ back'[w] = "storeClassLock"
          /\ arg'[w] = m /\ target'[w] = x /\ obj'[w] = o /\ slot'[w] = s
      <3>1. LocalWrite(w, "trace", "storeClassLock", m, x)
        BY <1>1, <1>3, <1>6, <1>8, <2>2, <2>3 DEF LocalWrite
      <3> QED
        BY <1>1, <1>3, <1>8, <3>1, LocalTypes
    <2>5. Quiet(w)
      BY <1>2, <1>8, <2>4 DEF Quiet, memory, core
    <2>6. LocalOK("trace", "storeClassLock", o, s, m, x)
      BY <1>4, <1>5, <2>2 DEF LocalOK, PlaceOK, Returns, InTrace
    <2>7. Grows /\ Lasts /\ SlotsLast
      BY <1>1, <1>8, <2>5, QuietKeeps, SlotsKept DEF memory
    <2>8. LocalOK("trace", "storeClassLock", o, s, m, x)'
      BY <1>1, <2>6, <2>7, LocalLasts
    <2>9. Relies(w)'
      BY <2>4, <2>8 DEF Relies
    <2> QED
      BY <1>8, <2>4, <2>5, <2>9, LocalStep, <1>3 DEF memory
  <1>10. CASE classLock[c] = Thin
    <2>1. at' = [at EXCEPT ![w] = "objectLock"] /\ UNCHANGED <<arg, back>>
      BY <1>3, <1>6, <1>10 DEF TraceClassLock, FieldIsInflatedLock, Go
    <2>2. arg' = [arg EXCEPT ![w] = x] /\ back' = [back EXCEPT ![w] = b]
      BY <1>1, <1>3, <2>1 DEF TypeOK
    <2>3. /\ TypeOK' /\ Others(w) /\ at'[w] = "objectLock" /\ back'[w] = b
          /\ arg'[w] = x /\ target'[w] = x /\ obj'[w] = o /\ slot'[w] = s
      <3>1. LocalWrite(w, "objectLock", b, x, x)
        BY <1>1, <1>3, <1>6, <1>7, <1>8, <2>1, <2>2 DEF LocalWrite
      <3> QED
        BY <1>1, <1>3, <1>8, <3>1, LocalTypes
    <2>4. Quiet(w)
      BY <1>2, <1>8, <2>3 DEF Quiet, memory, core
    <2>5. ClassTraced(c)
      BY <1>1, <1>6, <1>10 DEF ClassLockInv, ClassTraced
    <2>6. LocalOK("objectLock", b, o, s, x, x)
      BY <1>4, <1>5, <2>5 DEF LocalOK, PlaceOK, Returns, InTrace
    <2>7. Grows /\ Lasts /\ SlotsLast
      BY <1>1, <1>8, <2>4, QuietKeeps, SlotsKept DEF memory
    <2>8. LocalOK("objectLock", b, o, s, x, x)'
      BY <1>1, <2>6, <2>7, LocalLasts
    <2>9. Relies(w)'
      BY <2>3, <2>8 DEF Relies
    <2> QED
      BY <1>8, <2>3, <2>4, <2>9, LocalStep, <1>3 DEF memory
  <1> QED
    BY <1>9, <1>10

\* Then the monitor of the referent is.
LEMMA TraceObjectLockStep ==
    ASSUME IInv, NEW w \in Workers, TraceObjectLock(w)
    PROVE  IInv'
  <1>1. TypeOK /\ HeaderInv /\ DataInv /\ WorkerInv /\ heap \in Heaps /\ scanned \subseteq marked
    BY DEF IInv, TypeOK
  <1>2. at[w] = "objectLock" /\ Relies(w)
    BY <1>1, ReliesFacts DEF TraceObjectLock, WorkersRely
  <1>3. PICK b, o, s, x, t :
          /\ b = back[w] /\ o = obj[w] /\ s = slot[w] /\ x = arg[w] /\ t = target[w]
          /\ LocalOK("objectLock", b, o, s, x, t)
    BY <1>2 DEF Relies
  <1>4. PICK q, c : q = heap.fields[o[1]][s] /\ c = heap.class[q]
    OBVIOUS
  <1>5. /\ o \in scanned /\ s \in Slots(o) /\ IsFollowed(o, s)
        /\ heap.class[o[1]] \notin PrimitiveArrays
        /\ Current(t) /\ t[1] = q /\ ClassTraced(c)
        /\ \A i \in Slots(o) : i < s => SlotDone(o, i)
    BY <1>3, <1>4 DEF LocalOK, PlaceOK, Returns, InTrace
  <1>6. /\ t \in Addresses /\ Written(t) /\ q \in Objects /\ c \in Classes
        /\ o \in Addresses /\ o[1] \in Objects
    BY <1>1, <1>4, <1>5, CurrentFacts, RttiClass, HeapFacts
  <1>7. /\ b \in {"idle", "classLock", "storeClassLock", "storeObjectLock"}
        /\ x \in Addresses \cup {Null}
    BY <1>1, <1>3 DEF TypeOK
  <1>8. /\ target' = [target EXCEPT ![w] = t]
        /\ UNCHANGED <<heap, memory, core, weakRefs, obj, slot>>
    BY <1>1, <1>3 DEF TraceObjectLock, TypeOK
  <1>9. CASE lockWord[t] # Thin
    <2>1. PICK m : m = lockWord[t].monitor
      OBVIOUS
    <2>2. heap.lock[q] \in Objects /\ m = Old(heap.lock[q])
      <3>1. heap.lock[t[1]] \in Objects /\ lockWord[t] = [monitor |-> Old(heap.lock[t[1]])]
        BY <1>1, <1>6, <1>9 DEF DataInv
      <3> QED
        BY <1>5, <2>1, <3>1
    <2>3. m \in Addresses /\ Valid(m) /\ m[1] = heap.lock[q]
      BY <2>2, AddressFacts DEF Valid
    <2>4. FollowedNow(m[1])
      <3>1. heap.lock[q] # Thin
        BY <2>2, NamesAssumption
      <3>2. heap.lock[q] \in LeadsTo(t[1]) /\ t \in marked
        BY <1>5, <3>1, MonitorFacts DEF Current
      <3> QED
        BY <2>3, <3>2 DEF FollowedNow
    <2>5. /\ at' = [at EXCEPT ![w] = "trace"] /\ arg' = [arg EXCEPT ![w] = m]
          /\ back' = [back EXCEPT ![w] = "storeObjectLock"]
      BY <1>3, <1>6, <1>9, <2>1
      DEF TraceObjectLock, FieldIsInflatedLock, FieldAlignedLockRef, Call, Go
    <2>6. /\ TypeOK' /\ Others(w) /\ at'[w] = "trace" /\ back'[w] = "storeObjectLock"
          /\ arg'[w] = m /\ target'[w] = t /\ obj'[w] = o /\ slot'[w] = s
      <3>1. LocalWrite(w, "trace", "storeObjectLock", m, t)
        BY <1>1, <1>3, <1>6, <1>8, <2>3, <2>5 DEF LocalWrite
      <3> QED
        BY <1>1, <1>3, <1>8, <3>1, LocalTypes
    <2>7. Quiet(w)
      BY <1>2, <1>8, <2>6 DEF Quiet, memory, core
    <2>8. LocalOK("trace", "storeObjectLock", o, s, m, t)
      BY <1>4, <1>5, <2>3, <2>4 DEF LocalOK, PlaceOK, Returns, InTrace
    <2>9. Grows /\ Lasts /\ SlotsLast
      BY <1>1, <1>8, <2>7, QuietKeeps, SlotsKept DEF memory
    <2>10. LocalOK("trace", "storeObjectLock", o, s, m, t)'
      BY <1>1, <2>8, <2>9, LocalLasts
    <2>11. Relies(w)'
      BY <2>6, <2>10 DEF Relies
    <2> QED
      BY <1>8, <2>6, <2>7, <2>11, LocalStep, <1>3 DEF memory
  <1>10. CASE lockWord[t] = Thin
    <2>1. at' = [at EXCEPT ![w] = "store"] /\ UNCHANGED <<arg, back>>
      BY <1>3, <1>10 DEF TraceObjectLock, FieldIsInflatedLock, Go
    <2>2. arg' = [arg EXCEPT ![w] = x] /\ back' = [back EXCEPT ![w] = b]
      BY <1>1, <1>3, <2>1 DEF TypeOK
    <2>3. /\ TypeOK' /\ Others(w) /\ at'[w] = "store" /\ back'[w] = b
          /\ arg'[w] = x /\ target'[w] = t /\ obj'[w] = o /\ slot'[w] = s
      <3>1. LocalWrite(w, "store", b, x, t)
        BY <1>1, <1>3, <1>6, <1>7, <1>8, <2>1, <2>2 DEF LocalWrite
      <3> QED
        BY <1>1, <1>3, <1>8, <3>1, LocalTypes
    <2>4. Quiet(w)
      BY <1>2, <1>8, <2>3 DEF Quiet, memory, core
    <2>5. LockTraced(q)
      BY <1>1, <1>5, <1>6, <1>10 DEF DataInv, LockTraced
    <2>6. LocalOK("store", b, o, s, x, t)
      BY <1>4, <1>5, <2>5 DEF LocalOK, PlaceOK, Returns, InTrace
    <2>7. Grows /\ Lasts /\ SlotsLast
      BY <1>1, <1>8, <2>4, QuietKeeps, SlotsKept DEF memory
    <2>8. LocalOK("store", b, o, s, x, t)'
      BY <1>1, <2>6, <2>7, LocalLasts
    <2>9. Relies(w)'
      BY <2>3, <2>8 DEF Relies
    <2> QED
      BY <1>8, <2>3, <2>4, <2>9, LocalStep, <1>3 DEF memory
  <1> QED
    BY <1>9, <1>10

\* All slots are done when the last one is passed.
LEMMA EndObjectStep ==
    ASSUME IInv, NEW w \in Workers, EndObject(w)
    PROVE  IInv'
  <1>1. /\ TypeOK /\ DataInv /\ ClassLockInv /\ WorkerInv /\ ScannedInv /\ WeakInv
        /\ heap \in Heaps /\ scanned \subseteq Addresses /\ slot[w] \in Nat
    BY DEF IInv, TypeOK
  <1>2. PICK b, o, s, x, t :
          /\ b = back[w] /\ o = obj[w] /\ s = slot[w] /\ x = arg[w] /\ t = target[w]
          /\ LocalOK("slot", b, o, s, x, t)
    BY <1>1, ReliesFacts DEF EndObject, WorkersRely, Relies
  <1>3. LocalWrite(w, "idle", b, x, t)
    <2>1. /\ back[w] \in {"idle", "classLock", "storeClassLock", "storeObjectLock"}
          /\ arg[w] \in Addresses \cup {Null} /\ target[w] \in Addresses \cup {Null}
          /\ back = [back EXCEPT ![w] = b] /\ arg = [arg EXCEPT ![w] = x]
          /\ target = [target EXCEPT ![w] = t]
      BY <1>1, <1>2 DEF TypeOK
    <2> QED
      BY <1>2, <2>1 DEF LocalWrite, EndObject, local, Go
  <1>4. /\ at'[w] = "idle" /\ TypeOK' /\ Others(w)
        /\ UNCHANGED <<heap, header, fields, lockWord, classLock, marked, queue, scanned, weakRefs>>
    BY <1>1, <1>3, LocalTypes DEF LocalWrite, memory, core
  <1>5. Quiet(w)
    BY <1>4 DEF EndObject, Quiet
  <1>6. Grows /\ Lasts /\ SlotsLast
    BY <1>1, <1>4, <1>5, QuietKeeps, SlotsKept
  <1>7. QueueInv' /\ DataInv' /\ ClassLockInv' /\ WeakInv'
    BY <1>1, <1>4, <1>5, <1>6, QuietQueue, DataLasts, ClassesLast, WeakLasts
  <1>8. \A i \in Slots(o)' : SlotDone(o, i)'
    <2>1. o \in scanned /\ o \in Addresses /\ o[1] \in Objects
      BY <1>1, <1>2, AddressFacts DEF LocalOK
    <2>2. Len(heap.fields[o[1]]) \in Nat /\ Len(fields[o]) = Len(heap.fields[o[1]])
      BY <1>1, <2>1, HeapFacts DEF DataInv
    <2>3. s > Len(heap.fields[o[1]])
      BY <1>1, <1>2, <2>2 DEF EndObject, InObject
    <2>4. \A i \in Slots(o) : i < s
      BY <1>1, <1>2, <2>2, <2>3 DEF Slots
    <2>5. \A i \in Slots(o) : SlotDone(o, i)'
      BY <1>2, <1>6, <2>1, <2>4 DEF LocalOK, SlotsLast
    <2> QED
      BY <1>4, <2>5 DEF Slots
  <1>9. ScannedInv'
    <2>1. ASSUME NEW a \in scanned
          PROVE  \/ heap'.class[a[1]] \in PrimitiveArrays
                 \/ \E v \in Workers : at'[v] # "idle" /\ obj'[v] = a
                 \/ \A i \in Slots(a)' : SlotDone(a, i)'
      <3>1. CASE a = o
        BY <1>8, <3>1
      <3>2. CASE a # o
        BY <1>1, <1>2, <1>4, <1>6, <3>2, ScannedLasts
      <3> QED
        BY <3>1, <3>2
    <2> QED
      BY <1>4, <2>1 DEF ScannedInv
  <1> QED
    BY <1>4, <1>5, <1>6, <1>7, <1>9, QuietStep

\* A misread rtti is that of a marked object.
LEMMA MisreadStep ==
    ASSUME IInv, NEW w \in Workers, Misread(w)
    PROVE  IInv'
  <1>1. TypeOK /\ HeaderInv /\ WorkerInv /\ scanned \subseteq marked
    BY DEF IInv, TypeOK
  <1>2. LocalWrite(w, "undefined", back[w], arg[w], target[w])
    BY <1>1 DEF TypeOK, LocalWrite, Misread, Undefined, local, Go
  <1>3. /\ at'[w] = "undefined" /\ TypeOK' /\ Others(w) /\ obj'[w] = obj[w]
        /\ UNCHANGED <<heap, memory, core, weakRefs>>
    BY <1>1, <1>2, LocalTypes DEF LocalWrite
  <1>4. Quiet(w)
    BY <1>3 DEF Misread, Quiet, memory, core
  <1>5. ~Uncontended
    <2>1. at[w] \in {"slot", "classLock", "storeClassLock", "storeObjectLock", "store"}
      BY DEF Misread
    <2>2. PICK p, b, o, s, x, t :
            /\ p = at[w] /\ b = back[w] /\ o = obj[w] /\ s = slot[w] /\ x = arg[w] /\ t = target[w]
            /\ LocalOK(p, b, o, s, x, t)
      BY <1>1, <2>1, ReliesFacts DEF WorkersRely, Relies
    <2>3. /\ o \in marked
          /\ p = "classLock" => Current(x)
          /\ p \in {"storeClassLock", "storeObjectLock", "store"} => Current(t)
      BY <1>1, <2>2 DEF LocalOK, PlaceOK, Returns, InTrace
    <2>4. \E a \in marked : ~RttiAligned(a)
      <3>1. CASE p = "slot"
        BY <2>2, <2>3, <3>1 DEF Misread, FieldReadable
      <3>2. CASE p = "classLock"
        BY <2>2, <2>3, <3>2 DEF Misread, Current
      <3>3. CASE p \in {"storeClassLock", "storeObjectLock", "store"}
        BY <2>2, <2>3, <3>3 DEF Misread, Current
      <3> QED
        BY <2>1, <2>2, <3>1, <3>2, <3>3
    <2> QED
      BY <2>4, MarkedAligned
  <1> QED
    BY <1>3, <1>4, <1>5, LocalStep DEF memory

\* An object taken from the queue is marked, and nothing of it is done yet.
LEMMA ScanObjectStep ==
    ASSUME IInv, NEW w \in Workers, NEW a \in Addresses, ScanObject(w, a)
    PROVE  IInv'
  <1>1. /\ TypeOK /\ HeaderInv /\ QueueInv /\ DataInv /\ ClassLockInv /\ ScannedInv /\ WeakInv
        /\ WorkerInv /\ a \in queue /\ a \in marked /\ heap \in Heaps
    BY DEF IInv, TypeOK, ScanObject
  <1>2. /\ UNCHANGED <<heap, header, fields, lockWord, classLock, marked, weakRefs>>
        /\ queue' = queue \ {a} /\ scanned' = scanned \cup {a}
        /\ at[w] = "idle"
    BY DEF ScanObject, memory
  <1>3. Rtti(a) = heap.class[a[1]]
    BY <1>1, RttiClass
  <1>4. PICK p : p = IF ~RttiAligned(a) THEN "undefined"
                     ELSE IF IsPrimitiveArray(Rtti(a)) THEN "idle" ELSE "slot"
    OBVIOUS
  <1>5. p \in {"undefined", "idle", "slot"} /\ at' = [at EXCEPT ![w] = p]
    BY <1>4 DEF ScanObject, Go
  <1>6. /\ at'[w] = p /\ obj'[w] = a /\ slot'[w] = 1 /\ Others(w)
        /\ back'[w] = back[w] /\ arg'[w] = arg[w] /\ target'[w] = target[w]
    BY <1>1, <1>5 DEF ScanObject, TypeOK, Others
  <1>7. TypeOK'
    <2>1. /\ queue' \subseteq marked' /\ scanned' \subseteq marked' /\ marked' \subseteq Addresses
          /\ obj' \in [Workers -> Addresses \cup {Null}] /\ slot' \in [Workers -> Nat \ {0}]
      BY <1>1, <1>2 DEF TypeOK, ScanObject
    <2> QED
      BY <1>1, <1>2, <1>5, <2>1 DEF TypeOK, Locks, ScanObject
  <1>8. Quiet(w)
    BY <1>2, <1>5, <1>6 DEF Quiet
  <1>9. Grows /\ Lasts /\ SlotsLast
    BY <1>1, <1>2, <1>8, QuietKeeps, SlotsKept
  <1>10. DataInv' /\ ClassLockInv' /\ WeakInv'
    BY <1>1, <1>2, <1>9, DataLasts, ClassesLast, WeakLasts
  <1>11. QueueInv'
    <2>1. queue' \cup scanned' = queue \cup scanned
      BY <1>1, <1>2
    <2>2. \A c \in queue \cup scanned : Valid(c)'
      BY <1>1, <1>9 DEF QueueInv, Valid, Lasts
    <2>3. ASSUME NEW c \in marked \ (queue \cup scanned)
          PROVE  \E v \in Workers : at'[v] = "copied" /\ c = New(arg'[v][1])
      <3>1. PICK v \in Workers : at[v] = "copied" /\ c = New(arg[v][1])
        BY <1>1 DEF QueueInv
      <3> QED
        BY <1>2, <1>6, <3>1 DEF Others
    <2> QED
      BY <1>1, <1>2, <2>1, <2>2, <2>3 DEF QueueInv
  <1>12. ScannedInv'
    <2>1. ASSUME NEW c \in scanned
          PROVE  \/ heap'.class[c[1]] \in PrimitiveArrays
                 \/ \E v \in Workers : at'[v] # "idle" /\ obj'[v] = c
                 \/ \A i \in Slots(c)' : SlotDone(c, i)'
      BY <1>1, <1>2, <1>6, <1>9, ScannedLasts
    <2>2. \/ heap'.class[a[1]] \in PrimitiveArrays
          \/ \E v \in Workers : at'[v] # "idle" /\ obj'[v] = a
      BY <1>2, <1>3, <1>4, <1>6 DEF IsPrimitiveArray
    <2> QED
      BY <1>2, <2>1, <2>2 DEF ScannedInv
  <1>13. p \notin {"idle", "undefined"} => Relies(w)'
    <2> SUFFICES ASSUME p \notin {"idle", "undefined"} PROVE Relies(w)'
      OBVIOUS
    <2>1. p = "slot" /\ heap.class[a[1]] \notin PrimitiveArrays
      BY <1>3, <1>4 DEF IsPrimitiveArray
    <2>2. PICK b, x, t : b = back[w] /\ x = arg[w] /\ t = target[w]
      OBVIOUS
    <2>3. \A i \in Slots(a) : ~(i < 1)
      BY DEF Slots
    <2>4. LocalOK("slot", b, a, 1, x, t)'
      BY <1>2, <2>1, <2>3 DEF LocalOK, PlaceOK, Slots, Returns, InTrace
    <2> QED
      BY <1>6, <2>1, <2>2, <2>4 DEF Relies
  <1>14. p = "undefined" => ~Uncontended
    BY <1>1, <1>4, MarkedAligned
  <1> QED
    BY <1>6, <1>7, <1>8, <1>9, <1>10, <1>11, <1>12, <1>13, <1>14, QuietStep

\* A step that stores arg in the lock word of the class of target, and goes on.
StoreLock(w, p) ==
    /\ classLock' = [classLock EXCEPT ![Rtti(target[w])] = FieldInflateLockRef(arg[w])]
    /\ at' = [at EXCEPT ![w] = p]
    /\ UNCHANGED <<heap, header, fields, lockWord, core, weakRefs, local>>

\* The lock word may only get the monitor of the class, or that of another
\* object once the monitor of the class is traced.
LEMMA StoreLockStep ==
    ASSUME IInv, NEW w \in Workers, NEW p, StoreLock(w, p), p \in {"objectLock", "store"},
           at[w] \in {"storeClassLock", "storeObjectLock"},
           NEW b, NEW o, NEW s, NEW x, NEW t, NEW q, NEW c,
           b = back[w], o = obj[w], s = slot[w], x = arg[w], t = target[w],
           q = heap.fields[o[1]][s], c = heap.class[q],
           LocalOK(at[w], b, o, s, x, t), LocalOK(p, b, o, s, x, t),
           x[1] = heap.classLock[c] \/ ClassTraced(c)
    PROVE  IInv'
  <1>1. /\ TypeOK /\ HeaderInv /\ DataInv /\ ClassLockInv /\ ScannedInv /\ WeakInv
        /\ heap \in Heaps
    BY DEF IInv, TypeOK
  <1>2. /\ Current(x) /\ Valid(x) /\ x \in Addresses /\ FollowedNow(x[1])
        /\ Current(t) /\ t[1] = q
    <2>1. Current(x) /\ FollowedNow(x[1]) /\ Current(t) /\ t[1] = q
      BY DEF LocalOK, PlaceOK, Returns, InTrace
    <2> QED
      BY <1>1, <2>1, CurrentFacts
  <1>3. Rtti(t) = c /\ c \in Classes
    BY <1>1, <1>2, CurrentFacts, RttiClass, HeapFacts
  <1>4. classLock' = [classLock EXCEPT ![c] = [monitor |-> x]]
    BY <1>3 DEF StoreLock, FieldInflateLockRef
  <1>5. /\ at'[w] = p /\ back'[w] = b /\ obj'[w] = o /\ slot'[w] = s /\ arg'[w] = x
        /\ target'[w] = t /\ Others(w)
        /\ UNCHANGED <<heap, header, fields, lockWord, marked, queue, scanned, weakRefs>>
    BY <1>1 DEF StoreLock, TypeOK, Others, core, local
  <1>6. TypeOK'
    <2>1. classLock' \in [Classes -> Locks]
      BY <1>1, <1>2, <1>4 DEF TypeOK, Locks
    <2> QED
      BY <1>1, <1>5, <2>1 DEF TypeOK, StoreLock, local, Locks
  <1>7. Quiet(w)
    BY <1>5 DEF Quiet
  <1>8. Grows /\ Lasts /\ SlotsLast
    BY <1>1, <1>5, <1>7, QuietKeeps, SlotsKept
  <1>9. DataInv' /\ WeakInv' /\ QueueInv'
    BY <1>1, <1>5, <1>7, <1>8, DataLasts, WeakLasts, QuietQueue
  <1>10. ScannedInv'
    <2>1. ASSUME NEW a \in scanned
          PROVE  \/ heap'.class[a[1]] \in PrimitiveArrays
                 \/ \E v \in Workers : at'[v] # "idle" /\ obj'[v] = a
                 \/ \A i \in Slots(a)' : SlotDone(a, i)'
      BY <1>1, <1>5, <1>8, ScannedLasts
    <2> QED
      BY <1>5, <2>1 DEF ScannedInv
  <1>11. ClassLockInv'
    <2>1. ASSUME NEW d \in Classes
          PROVE  /\ classLock'[d] = Thin => heap'.classLock[d] = Thin
                 /\ classLock'[d] # Thin =>
                      /\ Valid(classLock[d].monitor)'
                      /\ \/ classLock'[d].monitor[1] = heap'.classLock[d]
                         \/ ClassTraced(d)' /\ FollowedNow(classLock[d].monitor[1])'
      <3>1. CASE d # c
        <4>1. classLock'[d] = classLock[d]
          BY <1>1, <1>4, <3>1 DEF TypeOK
        <4> QED
          BY <1>1, <1>8, <4>1, ClassLasts
      <3>2. CASE d = c
        <4>1. PICK r : r = [monitor |-> x]
          OBVIOUS
        <4>2. r \in [monitor : Addresses] /\ r.monitor = x
          BY <1>2, <4>1
        <4>3. classLock'[d] = r /\ r # Thin
          BY <1>1, <1>4, <3>2, <4>1, <4>2, NamesAssumption DEF TypeOK
        <4>4. PICK k : k = x[1]
          OBVIOUS
        <4>5. Valid(x)' /\ FollowedNow(k)' /\ (k = heap'.classLock[d] \/ ClassTraced(d)')
          BY <1>2, <1>3, <1>5, <1>8, <3>2, <4>4 DEF Lasts
        <4> QED
          BY <4>2, <4>3, <4>4, <4>5 DEF Valid, Forwarded, FollowedNow
      <3> QED
        BY <3>1, <3>2
    <2> QED
      BY <2>1 DEF ClassLockInv
  <1>12. Relies(w)'
    <2>1. LocalOK(p, b, o, s, x, t)'
      BY <1>1, <1>8, LocalLasts
    <2> QED
      BY <1>5, <2>1 DEF Relies
  <1> QED
    BY <1>5, <1>6, <1>7, <1>8, <1>9, <1>10, <1>11, <1>12, QuietStep

\* The class's own monitor is stored, or a later one over a later one.
LEMMA StoreClassLockStep ==
    ASSUME IInv, NEW w \in Workers, StoreClassLock(w)
    PROVE  IInv'
  <1>1. TypeOK /\ HeaderInv /\ WorkerInv /\ heap \in Heaps /\ at[w] = "storeClassLock"
    BY DEF IInv, TypeOK, StoreClassLock
  <1>2. PICK b, o, s, x, t :
          /\ b = back[w] /\ o = obj[w] /\ s = slot[w] /\ x = arg[w] /\ t = target[w]
          /\ LocalOK("storeClassLock", b, o, s, x, t)
    BY <1>1, ReliesFacts DEF WorkersRely, Relies
  <1>3. PICK q, c : q = heap.fields[o[1]][s] /\ c = heap.class[q]
    OBVIOUS
  <1>4. Current(x) /\ (x[1] = heap.classLock[c] \/ ClassTraced(c))
    BY <1>2, <1>3 DEF LocalOK, PlaceOK, Returns, InTrace
  <1>5. ClassTraced(c)
    BY <1>1, <1>4, CurrentFacts DEF ClassTraced
  <1>6. LocalOK("objectLock", b, o, s, x, t)
    BY <1>2, <1>3, <1>5 DEF LocalOK, PlaceOK, Returns, InTrace
  <1>7. StoreLock(w, "objectLock")
    BY DEF StoreClassLock, StoreLock, Go
  <1> QED
    BY <1>1, <1>2, <1>3, <1>4, <1>6, <1>7, StoreLockStep

\* The object's monitor is stored where the class's was, which is traced.
LEMMA StoreObjectLockStep ==
    ASSUME IInv, NEW w \in Workers, StoreObjectLock(w)
    PROVE  IInv'
  <1>1. TypeOK /\ HeaderInv /\ WorkerInv /\ heap \in Heaps /\ at[w] = "storeObjectLock"
    BY DEF IInv, TypeOK, StoreObjectLock
  <1>2. PICK b, o, s, x, t :
          /\ b = back[w] /\ o = obj[w] /\ s = slot[w] /\ x = arg[w] /\ t = target[w]
          /\ LocalOK("storeObjectLock", b, o, s, x, t)
    BY <1>1, ReliesFacts DEF WorkersRely, Relies
  <1>3. PICK q, c : q = heap.fields[o[1]][s] /\ c = heap.class[q]
    OBVIOUS
  <1>4. Current(x) /\ x[1] = heap.lock[q] /\ ClassTraced(c)
    BY <1>2, <1>3 DEF LocalOK, PlaceOK, Returns, InTrace
  <1>5. LockTraced(q)
    BY <1>1, <1>4, CurrentFacts DEF LockTraced
  <1>6. LocalOK("store", b, o, s, x, t)
    BY <1>2, <1>3, <1>4, <1>5 DEF LocalOK, PlaceOK, Returns, InTrace
  <1>7. StoreLock(w, "store")
    BY DEF StoreObjectLock, StoreLock, Go
  <1> QED
    BY <1>1, <1>2, <1>3, <1>4, <1>6, <1>7, StoreLockStep

\* The slot gets the address the referent is at, and all is done for it.
LEMMA StoreFieldStep ==
    ASSUME IInv, NEW w \in Workers, StoreField(w)
    PROVE  IInv'
  <1>1. /\ TypeOK /\ HeaderInv /\ DataInv /\ ClassLockInv /\ ScannedInv /\ WeakInv /\ WorkerInv
        /\ heap \in Heaps /\ scanned \subseteq Addresses
        /\ fields \in [Addresses -> Seq(Addresses \cup {Null})]
    BY DEF IInv, TypeOK
  <1>2. at[w] = "store"
    BY DEF StoreField
  <1>3. PICK b, o, s, x, t :
          /\ b = back[w] /\ o = obj[w] /\ s = slot[w] /\ x = arg[w] /\ t = target[w]
          /\ LocalOK("store", b, o, s, x, t)
    BY <1>1, <1>2, ReliesFacts DEF WorkersRely, Relies
  <1>4. PICK q, c : q = heap.fields[o[1]][s] /\ c = heap.class[q]
    OBVIOUS
  <1>5. /\ o \in scanned /\ s \in Slots(o) /\ heap.class[o[1]] \notin PrimitiveArrays
        /\ Current(t) /\ t[1] = q /\ ClassTraced(c) /\ LockTraced(q)
        /\ \A i \in Slots(o) : i < s => SlotDone(o, i)
    BY <1>3, <1>4 DEF LocalOK, PlaceOK, Returns, InTrace
  <1>6. /\ t \in Addresses /\ Valid(t) /\ q \in Objects /\ Rtti(t) = c /\ c \in Classes
        /\ o \in Addresses /\ o[1] \in Objects
    BY <1>1, <1>4, <1>5, CurrentFacts, RttiClass, HeapFacts, AddressFacts
  <1>7. /\ Len(heap.fields[o[1]]) \in Nat /\ Len(fields[o]) = Len(heap.fields[o[1]])
        /\ s \in 1..Len(fields[o]) /\ s \in Nat
    <2>1. Len(heap.fields[o[1]]) \in Nat
      BY <1>1, <1>6, HeapFacts
    <2>2. Len(fields[o]) = Len(heap.fields[o[1]])
      BY <1>1, <1>6 DEF DataInv
    <2> QED
      BY <1>5, <2>1, <2>2 DEF Slots
  <1>8. PICK f : f = [fields[o] EXCEPT ![s] = t]
    OBVIOUS
  <1>9. /\ f \in Seq(Addresses \cup {Null}) /\ Len(f) = Len(fields[o])
        /\ \A i \in 1..Len(fields[o]) : f[i] = IF i = s THEN t ELSE fields[o][i]
    BY <1>1, <1>6, <1>7, <1>8, ExceptSeq
  <1>10. fields' = [fields EXCEPT ![o] = f]
    BY <1>3, <1>8 DEF StoreField
  <1>11. /\ fields' \in [Addresses -> Seq(Addresses \cup {Null})] /\ fields'[o] = f
         /\ \A a \in Addresses : a # o => fields'[a] = fields[a]
    BY <1>1, <1>6, <1>9, <1>10
  <1>12. /\ at' = [at EXCEPT ![w] = "slot"] /\ slot' = [slot EXCEPT ![w] = s + 1]
         /\ UNCHANGED <<heap, header, lockWord, classLock, marked, queue, scanned,
                        obj, arg, back, target>>
         /\ weakRefs' = IF c \in WeakClasses THEN weakRefs \cup {t} ELSE weakRefs
    <2>1. slot' = [slot EXCEPT ![w] = s + 1]
      BY <1>3 DEF StoreField
    <2>2. weakRefs' = IF c \in WeakClasses THEN weakRefs \cup {t} ELSE weakRefs
      BY <1>3, <1>6 DEF StoreField, IsWeakReference
    <2> QED
      BY <2>1, <2>2 DEF StoreField, core, Go
  <1>13. /\ at'[w] = "slot" /\ back'[w] = b /\ obj'[w] = o /\ slot'[w] = s + 1 /\ arg'[w] = x
         /\ target'[w] = t /\ Others(w)
    BY <1>1, <1>3, <1>12 DEF TypeOK, Others
  <1>14. TypeOK'
    <2>1. slot' \in [Workers -> Nat \ {0}]
      BY <1>1, <1>7, <1>12 DEF TypeOK
    <2>2. weakRefs' \subseteq Addresses
      BY <1>1, <1>6, <1>12 DEF TypeOK
    <2>3. heap' \in Heaps
      BY <1>1, <1>12
    <2> HIDE <1>1
    <2>4. TypeOK
      BY <1>1
    <2> QED
      BY <1>11, <1>12, <2>1, <2>2, <2>3, <2>4 DEF TypeOK, Locks
  <1>15. Quiet(w)
    BY <1>2, <1>12, <1>13 DEF Quiet
  <1>16. Grows /\ Lasts
    BY <1>1, <1>15, QuietKeeps
  <1>17. QueueInv' /\ ClassLockInv'
    BY <1>1, <1>12, <1>15, <1>16, QuietQueue, ClassesLast
  <1>18. SlotDone(o, s)'
    <2>1. Current(t)' /\ LockTraced(q)' /\ ClassTraced(c)'
      BY <1>5, <1>6, <1>16 DEF Lasts
    <2>2. fields'[o][s] = t
      BY <1>7, <1>9, <1>11
    <2>3. c \in WeakClasses => t \in weakRefs'
      BY <1>12
    <2> QED
      BY <1>4, <1>12, <2>1, <2>2, <2>3
      DEF SlotDone, Current, Where, LockTraced, ClassTraced, Traced
  <1>19. SlotsLast
    <2>1. ASSUME NEW a \in scanned, NEW i \in Slots(a), SlotDone(a, i)
          PROVE  SlotDone(a, i)'
      <3>1. a \in Addresses
        BY <1>1
      <3>2. CASE a = o /\ i = s
        BY <1>18, <3>2
      <3>3. CASE ~(a = o /\ i = s)
        <4>1. fields'[a][i] = fields[a][i]
          BY <1>7, <1>9, <1>11, <3>1, <3>3 DEF Slots
        <4> QED
          BY <1>1, <1>16, <2>1, <3>1, <4>1, SlotLasts
      <3> QED
        BY <3>2, <3>3
    <2> QED
      BY <2>1 DEF SlotsLast
  <1>20. ScannedInv'
    <2>1. ASSUME NEW a \in scanned
          PROVE  \/ heap'.class[a[1]] \in PrimitiveArrays
                 \/ \E v \in Workers : at'[v] # "idle" /\ obj'[v] = a
                 \/ \A i \in Slots(a)' : SlotDone(a, i)'
      BY <1>1, <1>3, <1>13, <1>16, <1>19, ScannedLasts
    <2> QED
      BY <1>12, <2>1 DEF ScannedInv
  <1>21. WeakInv'
    <2>1. \A a \in weakRefs : Current(a)'
      BY <1>1, <1>16 DEF WeakInv, Lasts, TypeOK
    <2>2. Current(t)'
      BY <1>5, <1>6, <1>16 DEF Lasts
    <2> QED
      BY <1>1, <1>4, <1>5, <1>12, <2>1, <2>2 DEF WeakInv
  <1>22. DataInv'
    <2>1. \A a : Valid(a) => Valid(a)'
      BY <1>16 DEF Lasts, Valid
    <2>2. \A a \in Addresses : Written(a)' => Written(a)
      BY <1>12 DEF Written
    <2>3. ASSUME NEW a \in Addresses
          PROVE  Len(fields'[a]) = Len(heap.fields[a[1]])
      BY <1>1, <1>7, <1>9, <1>11 DEF DataInv
    <2>4. ASSUME NEW a \in Addresses, NEW i \in 1..Len(heap.fields[a[1]])
          PROVE  /\ fields'[a][i] # Null =>
                      Valid(fields[a][i])' /\ fields'[a][i][1] = heap.fields[a[1]][i]
                 /\ Written(a)' /\ fields'[a][i] = Null => heap.fields[a[1]][i] = Null
      <3>1. PICK y : y = fields'[a][i]
        OBVIOUS
      <3>2. CASE a = o /\ i = s
        <4>1. y = t /\ y # Null
          BY <1>6, <1>7, <1>9, <1>11, <3>1, <3>2, NamesAssumption
        <4>2. Valid(y)' /\ y[1] = heap.fields[a[1]][i]
          BY <1>4, <1>5, <1>6, <2>1, <3>2, <4>1
        <4> QED
          BY <3>1, <4>1, <4>2 DEF Valid, Forwarded
      <3>3. CASE ~(a = o /\ i = s)
        <4>1. y = fields[a][i]
          BY <1>7, <1>9, <1>11, <3>1, <3>3
        <4>2. /\ y # Null => Valid(y) /\ y[1] = heap.fields[a[1]][i]
              /\ Written(a) /\ y = Null => heap.fields[a[1]][i] = Null
          BY <1>1, <4>1 DEF DataInv
        <4>3. y # Null => Valid(y)'
          BY <2>1, <4>2
        <4> QED
          BY <2>2, <3>1, <4>2, <4>3 DEF Valid, Forwarded
      <3> QED
        BY <3>2, <3>3
    <2> QED
      BY <1>1, <1>12, <2>2, <2>3, <2>4 DEF DataInv
  <1>23. Relies(w)'
    <2>1. \A i \in Slots(o) : i < s + 1 => SlotDone(o, i)'
      <3>1. ASSUME NEW i \in Slots(o), i < s + 1 PROVE SlotDone(o, i)'
        <4>1. i < s \/ i = s
          BY <1>7, <3>1 DEF Slots
        <4> QED
          BY <1>5, <1>18, <1>19, <4>1 DEF SlotsLast
      <3> QED
        BY <3>1
    <2>2. LocalOK("slot", b, o, s + 1, x, t)'
      BY <1>5, <1>12, <2>1 DEF LocalOK, PlaceOK, Slots, Returns, InTrace
    <2> QED
      BY <1>13, <2>2 DEF Relies
  <1> QED
    BY <1>13, <1>14, <1>15, <1>17, <1>19, <1>20, <1>21, <1>22, <1>23, QuietStep

-----------------------------------------------------------------------------
(* The steps of trace_object.                                              *)

\* A step of trace_object that goes to p, with y its argument or result.
TraceWrite(w, p, y) ==
    /\ UNCHANGED <<heap, classLock, scanned, weakRefs, obj, slot, back, target>>
    /\ at[w] \in InTrace
    /\ at' = [at EXCEPT ![w] = p] /\ arg' = [arg EXCEPT ![w] = y]

\* It stays in trace_object with the same argument, or returns with an address
\* that stays right, of the same object.
TraceResult(w, p, y) ==
    \/ p \in InTrace /\ y = arg[w]
    \/ p = back[w] /\ Current(y)' /\ y[1] = arg[w][1]

\* What the steps of trace_object have in common.
LEMMA TraceFacts ==
    ASSUME IInv, NEW w \in Workers, at[w] \in InTrace
    PROVE  /\ arg[w] \in Addresses /\ Valid(arg[w]) /\ arg[w][1] \in Objects
           /\ FollowedNow(arg[w][1]) /\ back[w] \in Returns
           /\ Moving(arg[w]) => arg[w] = Old(arg[w][1]) /\ arg[w][1] \in heap.moving
  <1>1. TypeOK /\ WorkerInv
    BY DEF IInv
  <1>2. LocalOK(at[w], back[w], obj[w], slot[w], arg[w], target[w])
    BY <1>1 DEF WorkerInv, InTrace
  <1>3. Valid(arg[w]) /\ FollowedNow(arg[w][1]) /\ back[w] \in Returns
    BY <1>2 DEF LocalOK, PlaceOK
  <1> QED
    BY <1>3, AddressFacts DEF Valid, Moving

\* The types of what such a step assigns.
LEMMA TraceTypes ==
    ASSUME TypeOK, NEW w \in Workers, NEW p, NEW y, TraceWrite(w, p, y),
           p \in {"trace", "spin", "claimed", "copied"} \cup Returns, y \in Addresses,
           header' \in [Addresses -> HeaderRecords],
           fields' \in [Addresses -> Seq(Addresses \cup {Null})],
           lockWord' \in [Addresses -> Locks],
           marked \subseteq marked', marked' \subseteq Addresses, queue' \subseteq marked'
    PROVE  /\ TypeOK' /\ Others(w)
           /\ at'[w] = p /\ arg'[w] = y /\ back'[w] = back[w] /\ obj'[w] = obj[w]
           /\ slot'[w] = slot[w] /\ target'[w] = target[w]
  <1>1. /\ at \in [Workers -> {"idle", "slot", "trace", "spin", "claimed", "copied",
                           "classLock", "storeClassLock", "objectLock",
                           "storeObjectLock", "store", "undefined"}]
        /\ arg \in [Workers -> Addresses \cup {Null}]
    BY DEF TypeOK
  <1>2. Others(w) /\ at'[w] = p /\ arg'[w] = y
    BY <1>1 DEF TraceWrite, Others
  <1>3. /\ at' \in [Workers -> {"idle", "slot", "trace", "spin", "claimed", "copied",
                           "classLock", "storeClassLock", "objectLock",
                           "storeObjectLock", "store", "undefined"}]
        /\ arg' \in [Workers -> Addresses \cup {Null}]
    BY <1>1 DEF TraceWrite, Returns
  <1>4. TypeOK'
    BY <1>3 DEF TypeOK, TraceWrite, HeaderRecords, Locks
  <1> QED
    BY <1>2, <1>4 DEF TraceWrite

\* What is left to show of a step of trace_object.
LEMMA TraceStep ==
    ASSUME IInv, NEW w \in Workers, NEW p, NEW y,
           TraceWrite(w, p, y), TraceResult(w, p, y),
           Grows, SlotsLast,
           TypeOK', HeaderInv', ClaimInv', QueueInv', DataInv',
           OnlyReachableMarked', StayInv'
    PROVE  IInv'
  <1>1. /\ TypeOK /\ HeaderInv /\ ClassLockInv /\ WorkerInv /\ ScannedInv /\ WeakInv
        /\ RttiReadsAligned
    BY DEF IInv
  <1>2. Lasts
    BY <1>1, GrowsLasts
  <1>3. /\ Others(w) /\ at'[w] = p /\ arg'[w] = y /\ back'[w] = back[w] /\ obj'[w] = obj[w]
        /\ slot'[w] = slot[w] /\ target'[w] = target[w] /\ scanned' = scanned
    BY <1>1 DEF TraceWrite, TypeOK, Others
  <1>4. PICK p0, b, o, s, x, t :
          /\ p0 = at[w] /\ b = back[w] /\ o = obj[w] /\ s = slot[w] /\ x = arg[w]
          /\ t = target[w] /\ LocalOK(p0, b, o, s, x, t)
    BY <1>1, ReliesFacts DEF TraceWrite, InTrace, WorkersRely, Relies
  <1>5. p0 \in InTrace /\ b \in Returns
    BY <1>4, TraceFacts DEF TraceWrite
  <1>6. LocalOK(p0, b, o, s, x, t)'
    BY <1>1, <1>2, <1>4, LocalLasts
  <1>7. LocalOK(p, b, o, s, y, t)' /\ p \notin {"idle", "undefined"}
    <2>1. CASE p \in InTrace /\ y = x
      BY <1>5, <1>6, <2>1 DEF LocalOK, InTrace, Returns
    <2>2. CASE p = b /\ Current(y)' /\ y[1] = x[1]
      <3>1. Valid(y)'
        <4>1. y \in Addresses /\ y = Where(y[1])'
          BY <2>2 DEF Current, TypeOK
        <4> QED
          BY <4>1, AddressFacts DEF Valid, Where, Forwarded
      <3>2. PICK k : k = x[1]
        OBVIOUS
      <3>3. p \notin InTrace
        BY <1>5, <2>2 DEF InTrace, Returns
      <3>4. PlaceOK(b, o, s, x, t)'
        BY <1>5, <1>6 DEF LocalOK
      <3>5. FollowedNow(k)'
        BY <1>5, <3>2, <3>4 DEF PlaceOK
      <3>6. PlaceOK(b, o, s, y, t)'
        BY <2>2, <3>1, <3>2, <3>4, <3>5 DEF PlaceOK, FollowedNow
      <3> QED
        BY <1>5, <1>6, <2>2, <3>3, <3>6 DEF LocalOK, InTrace, Returns
    <2> QED
      BY <1>4, <2>1, <2>2 DEF TraceResult
  <1>8. Relies(w)'
    BY <1>3, <1>4, <1>7 DEF Relies
  <1>9. WorkerInv'
    BY <1>1, <1>2, <1>3, <1>8, WorkerLasts
  <1>10. ScannedInv'
    <2>1. ASSUME NEW a \in scanned
          PROVE  \/ heap'.class[a[1]] \in PrimitiveArrays
                 \/ \E v \in Workers : at'[v] # "idle" /\ obj'[v] = a
                 \/ \A i \in Slots(a)' : SlotDone(a, i)'
      BY <1>1, <1>2, <1>3, <1>7, ScannedLasts
    <2> QED
      BY <1>3, <2>1 DEF ScannedInv
  <1>11. ClassLockInv' /\ WeakInv'
    BY <1>1, <1>2, ClassesLast, WeakLasts DEF TraceWrite
  <1>12. RttiReadsAligned'
    <2>1. Uncontended' => Uncontended
      BY <1>2 DEF Uncontended, Lasts, TraceWrite
    <2> QED
      BY <1>1, <1>3, <1>7, <2>1 DEF RttiReadsAligned, Others
  <1> QED
    BY <1>9, <1>10, <1>11, <1>12 DEF IInv

\* Marking what something kept leads to marks nothing unreachable.
LEMMA ReachableLasts ==
    ASSUME TypeOK, OnlyReachableMarked, heap' = heap, NEW a, FollowedNow(a[1]),
           marked' \subseteq marked \cup {a}
    PROVE  OnlyReachableMarked'
  <1>1. PICK b \in marked : a[1] \in LeadsTo(b[1])
    BY DEF FollowedNow
  <1>2. b[1] \in Objects
    BY AddressFacts DEF TypeOK
  <1>3. ASSUME NEW S \in SUBSET Objects, heap.roots \subseteq S,
               \A o \in S : LeadsTo(o) \subseteq S
        PROVE  \A c \in marked' : c[1] \in S
    <2>1. \A c \in marked : c[1] \in S
      BY <1>3 DEF OnlyReachableMarked
    <2>2. a[1] \in S
      BY <1>1, <1>2, <1>3, <2>1
    <2> QED
      BY <2>1, <2>2
  <1>4. \A o : LeadsTo(o)' = LeadsTo(o)
    BY DEF LeadsTo, Referents, Monitors
  <1> QED
    BY <1>3, <1>4 DEF OnlyReachableMarked

\* Nothing more stays in an evacuated block.
LEMMA StayLasts ==
    ASSUME StayInv, Lasts, heap' = heap,
           Uncontended => \A o \in heap.moving : Old(o) \in marked' => Old(o) \in marked
    PROVE  StayInv'
  <1>1. Uncontended' => Uncontended
    BY DEF Uncontended, Lasts
  <1> QED
    BY <1>1 DEF StayInv

\* What is marked is put in the queue, or is the copy w has just made.
LEMMA QueueLasts ==
    ASSUME TypeOK, QueueInv, Lasts, NEW w \in Workers, Others(w), heap' = heap,
           scanned' = scanned, queue \subseteq queue', marked \subseteq marked',
           \A a \in queue' : a \in queue \/ Valid(a)',
           \A a \in marked' : \/ a \in marked \cup queue'
                              \/ at'[w] = "copied" /\ a = New(arg'[w][1]),
           at[w] = "copied" => New(arg[w][1]) \in queue'
    PROVE  QueueInv'
  <1>1. \A a \in queue' \cup scanned' : Valid(a)'
    BY DEF QueueInv, Lasts, Valid
  <1>2. ASSUME NEW a \in marked' \ (queue' \cup scanned')
        PROVE  \E v \in Workers : at'[v] = "copied" /\ a = New(arg'[v][1])
    <2>1. CASE a \in marked
      <3>1. PICK v \in Workers : at[v] = "copied" /\ a = New(arg[v][1])
        BY <2>1 DEF QueueInv
      <3>2. v # w
        BY <3>1
      <3> QED
        BY <3>1, <3>2 DEF Others
    <2> QED
      BY <2>1
  <1>3. \A o \in heap'.roots : Old(o) \in marked'
    BY DEF QueueInv
  <1> QED
    BY <1>1, <1>2, <1>3 DEF QueueInv

\* The forwarding bits are part of the first word.
LEMMA BitsUpdate ==
    ASSUME TypeOK, NEW a \in Addresses, header[a].bits # "forwarded",
           NEW b \in {"none", "being"}, header' = [header EXCEPT ![a].bits = b]
    PROVE  /\ header' \in [Addresses -> HeaderRecords]
           /\ header'[a].bits = b /\ header'[a].ptr = header[a].ptr
           /\ \A c \in Addresses : c # a => header'[c] = header[c]
  <1>1. header \in [Addresses -> HeaderRecords]
    BY DEF TypeOK, HeaderRecords
  <1>2. PICK r : r = [header[a] EXCEPT !.bits = b]
    OBVIOUS
  <1>3. header[a] \in [bits : {"none", "being"}, ptr : Classes]
    <2>1. header[a] \in HeaderRecords
      BY <1>1
    <2> QED
      BY <2>1 DEF HeaderRecords
  <1>4. r \in HeaderRecords /\ r.bits = b /\ r.ptr = header[a].ptr
    BY <1>2, <1>3 DEF HeaderRecords
  <1>5. header' = [header EXCEPT ![a] = r]
    BY <1>2
  <1> QED
    BY <1>1, <1>4, <1>5

\* An object that is not being evacuated is marked where it is.
LEMMA TraceInPlaceStep ==
    ASSUME IInv, NEW w \in Workers, TraceInPlace(w)
    PROVE  IInv'
  <1>1. /\ TypeOK /\ HeaderInv /\ ClaimInv /\ QueueInv /\ DataInv /\ OnlyReachableMarked
        /\ StayInv /\ heap \in Heaps /\ at[w] = "trace"
    BY DEF IInv, TypeOK, TraceInPlace
  <1>2. PICK x, o, b : x = arg[w] /\ o = x[1] /\ b = back[w]
    OBVIOUS
  <1>3. /\ x \in Addresses /\ Valid(x) /\ o \in Objects /\ FollowedNow(o) /\ b \in Returns
        /\ ~Moving(x)
    BY <1>1, <1>2, TraceFacts DEF InTrace, TraceInPlace
  <1>4. /\ TraceWrite(w, b, x)
        /\ UNCHANGED <<heap, header, fields, lockWord, scanned>>
        /\ marked' = marked \cup {x}
        /\ queue' = IF x \in marked THEN queue ELSE queue \cup {x}
    BY <1>1, <1>2 DEF TraceInPlace, TraceWrite, Return, Go, InTrace, memory
  <1>5. /\ x = Where(o)
        /\ x \in marked \/ (x = Old(o) /\ header[x].bits = "none" /\ o \notin heap.moving)
    <2>1. CASE x = New(o)
      BY <1>2, <1>3, <2>1, AddressFacts, <1>1 DEF Valid, HeaderInv, Where, Forwarded
    <2>2. CASE x = Old(o)
      <3>1. o \notin heap.moving
        BY <1>2, <1>3, <2>2, AddressFacts DEF Moving
      <3>2. header[Old(o)].bits = "none"
        BY <1>1, <1>3, <3>1 DEF HeaderInv
      <3> QED
        BY <2>2, <3>1, <3>2 DEF Where
    <2> QED
      BY <1>2, <1>3, <2>1, <2>2, AddressFacts
  <1>6. \A p \in Objects : New(p) \in marked' <=> New(p) \in marked
    BY <1>3, <1>4, <1>5, AddressFacts
  <1>7. \A p \in Objects : Old(p) \in marked' =>
          Old(p) \in marked \/ (p = o /\ header[Old(o)].bits = "none" /\ o \notin heap.moving)
    BY <1>2, <1>3, <1>4, <1>5, AddressFacts
  <1>8. Grows /\ Lasts
    <2>1. Grows
      BY <1>1, <1>3, <1>4, <1>7 DEF Grows, TraceWrite, HeaderInv, Forwarded
    <2> QED
      BY <1>1, <2>1, GrowsLasts
  <1>9. /\ TypeOK' /\ Others(w) /\ at'[w] = b /\ arg'[w] = x
    <2>1. /\ header' \in [Addresses -> HeaderRecords]
          /\ fields' \in [Addresses -> Seq(Addresses \cup {Null})]
          /\ lockWord' \in [Addresses -> Locks]
      BY <1>1, <1>4 DEF TypeOK, HeaderRecords
    <2>2. marked' \subseteq Addresses /\ queue' \subseteq marked' /\ marked \subseteq marked'
      BY <1>1, <1>3, <1>4 DEF TypeOK
    <2> QED
      BY <1>1, <1>3, <1>4, <2>1, <2>2, TraceTypes
  <1>10. TraceResult(w, b, x)
    <2>1. Current(x)'
      BY <1>2, <1>4, <1>5 DEF Current, Where
    <2> QED
      BY <1>2, <2>1 DEF TraceResult
  <1>11. DataInv' /\ SlotsLast
    BY <1>1, <1>4, <1>6, <1>8, DataLasts, SlotsKept
  <1>12. HeaderInv'
    <2>1. \A v \in Workers, p \in Objects : Claimant(v, p) => Claimant(v, p)'
      BY <1>1, <1>9 DEF Claimant, Others
    <2> QED
      BY <1>1, <1>3, <1>4, <1>6, <1>7, <2>1 DEF HeaderInv, Forwarded
  <1>13. ClaimInv'
    <2>1. ASSUME NEW v \in Workers, at'[v] \in {"spin", "claimed", "copied"}
          PROVE  v # w /\ at'[v] = at[v] /\ arg'[v] = arg[v]
      BY <1>3, <1>9, <2>1 DEF Others, Returns
    <2>2. \A v \in Workers, p \in Objects : Claimant(v, p)' => Claimant(v, p)
      BY <2>1 DEF Claimant
    <2>3. ASSUME NEW v \in Workers, at'[v] \in {"spin", "claimed", "copied"}
          PROVE  /\ arg'[v] \in Addresses /\ Moving(arg[v])'
                 /\ at'[v] = "spin" => (header'[arg'[v]].bits = "none" => arg'[v] \in marked')
                 /\ at'[v] # "spin" => header'[arg'[v]].bits = "being"
                 /\ at'[v] = "claimed" => New(arg'[v][1]) \notin marked'
                 /\ at'[v] = "copied" => New(arg'[v][1]) \in marked'
      <3>1. arg[v] \in Addresses /\ arg[v][1] \in Objects /\ Moving(arg[v])
        BY <1>1, <2>1, <2>3, AddressFacts DEF ClaimInv
      <3> QED
        BY <1>1, <1>4, <1>6, <2>1, <2>3, <3>1 DEF ClaimInv, Moving
    <2> QED
      BY <1>1, <2>2, <2>3 DEF ClaimInv
  <1>14. QueueInv'
    <2>1. Valid(x)'
      BY <1>3, <1>8 DEF Lasts
    <2> QED
      BY <1>1, <1>4, <1>8, <1>9, <2>1, QueueLasts
  <1>15. OnlyReachableMarked'
    BY <1>1, <1>2, <1>3, <1>4, ReachableLasts
  <1>16. StayInv'
    <2>1. \A p \in heap.moving : Old(p) \in marked' => Old(p) \in marked
      BY <1>1, <1>7, HeapFacts
    <2> QED
      BY <1>1, <1>4, <1>8, <2>1, StayLasts
  <1> QED
    BY <1>4, <1>8, <1>9, <1>10, <1>11, <1>12, <1>13, <1>14, <1>15, <1>16, TraceStep

\* What the steps on an object in an evacuated block start from.
LEMMA MovingFacts ==
    ASSUME IInv, NEW w \in Workers, at[w] \in InTrace, Moving(arg[w]), NEW o, o = arg[w][1]
    PROVE  /\ o \in Objects /\ o \in heap.moving /\ arg[w] = Old(o) /\ Old(o) \in Addresses
           /\ Valid(Old(o)) /\ FollowedNow(o) /\ Old(o)[1] = o
           /\ header[Old(o)] \in HeaderRecords
           /\ header[Old(o)].bits \in {"none", "being", "forwarded"}
  <1>1. header \in [Addresses -> HeaderRecords]
    BY DEF IInv, TypeOK, HeaderRecords
  <1>2. /\ o \in Objects /\ o \in heap.moving /\ arg[w] = Old(o) /\ Old(o) \in Addresses
        /\ Valid(Old(o)) /\ FollowedNow(o)
    BY TraceFacts
  <1>3. header[Old(o)] \in HeaderRecords
    BY <1>1, <1>2
  <1>4. header[Old(o)].bits \in {"none", "being", "forwarded"}
    BY <1>3 DEF HeaderRecords
  <1> QED
    BY <1>2, <1>3, <1>4, AddressFacts

\* A worker that is in trace_object still is, or is w.
LEMMA ClaimLasts ==
    ASSUME TypeOK, HeaderInv, ClaimInv, NEW w \in Workers, Others(w), heap' = heap,
           NEW o \in Objects,
           \A p \in Objects : p # o => /\ header'[Old(p)] = header[Old(p)]
                                       /\ New(p) \in marked' <=> New(p) \in marked,
           marked \subseteq marked',
           NEW v \in Workers, v # w, at[v] \in {"spin", "claimed", "copied"}, arg[v] # Old(o)
    PROVE  /\ arg'[v] \in Addresses /\ Moving(arg[v])'
           /\ at'[v] = "spin" => (header'[arg'[v]].bits = "none" => arg'[v] \in marked')
           /\ at'[v] # "spin" => header'[arg'[v]].bits = "being"
           /\ at'[v] = "claimed" => New(arg'[v][1]) \notin marked'
           /\ at'[v] = "copied" => New(arg'[v][1]) \in marked'
  <1>1. arg[v] \in Addresses /\ Moving(arg[v])
    BY DEF ClaimInv
  <1>2. PICK p : p = arg[v][1]
    OBVIOUS
  <1>3. p \in Objects /\ arg[v] = Old(p) /\ p # o
    BY <1>1, <1>2, AddressFacts DEF Moving
  <1>4. at'[v] = at[v] /\ arg'[v] = arg[v]
    BY DEF Others
  <1>5. header'[Old(p)] = header[Old(p)] /\ (New(p) \in marked' <=> New(p) \in marked)
    BY <1>3
  <1>6. /\ at[v] = "spin" => (header[Old(p)].bits = "none" => Old(p) \in marked)
        /\ at[v] # "spin" => header[Old(p)].bits = "being"
        /\ at[v] = "claimed" => New(p) \notin marked
        /\ at[v] = "copied" => New(p) \in marked
    BY <1>2, <1>3 DEF ClaimInv
  <1> QED
    BY <1>1, <1>2, <1>3, <1>4, <1>5, <1>6 DEF Moving

\* The forwarding bits are taken, or the worker waits for the one that has.
LEMMA ClaimStep ==
    ASSUME IInv, NEW w \in Workers, Claim(w)
    PROVE  IInv'
  <1>1. /\ TypeOK /\ HeaderInv /\ ClaimInv /\ QueueInv /\ DataInv /\ OnlyReachableMarked
        /\ StayInv /\ heap \in Heaps /\ at[w] = "trace"
        /\ header \in [Addresses -> HeaderRecords]
    BY DEF IInv, TypeOK, Claim, HeaderRecords
  <1>2. PICK o : o = arg[w][1]
    OBVIOUS
  <1>3. /\ o \in Objects /\ o \in heap.moving /\ arg[w] = Old(o) /\ Old(o) \in Addresses
        /\ FollowedNow(o) /\ Old(o)[1] = o
        /\ header[Old(o)].bits \in {"none", "being", "forwarded"}
    BY <1>1, <1>2, MovingFacts DEF Claim, InTrace
  <1>4. PICK p : p = IF header[Old(o)].bits = "none" THEN "claimed" ELSE "spin"
    OBVIOUS
  <1>5. /\ UNCHANGED <<heap, fields, lockWord, classLock, marked, queue, scanned, weakRefs,
                       obj, slot, arg, back, target>>
        /\ at' = [at EXCEPT ![w] = p] /\ p \in {"claimed", "spin"}
        /\ arg = [arg EXCEPT ![w] = Old(o)]
    BY <1>1, <1>3, <1>4 DEF Claim, Go, core, local, TypeOK
  <1>6. /\ header' \in [Addresses -> HeaderRecords]
        /\ header'[Old(o)].bits \in {"being", "forwarded"}
        /\ header'[Old(o)].bits = "forwarded" => header' = header
        /\ p = "claimed" => header[Old(o)].bits = "none" /\ header'[Old(o)].bits = "being"
        /\ p = "spin" => header' = header
        /\ header'[Old(o)].ptr = header[Old(o)].ptr
        /\ \A a \in Addresses : a # Old(o) => header'[a] = header[a]
    <2>1. CASE header[Old(o)].bits = "none"
      <3>1. header' = [header EXCEPT ![Old(o)].bits = "being"]
        BY <1>3, <2>1 DEF Claim
      <3> QED
        BY <1>1, <1>3, <1>4, <2>1, <3>1, BitsUpdate
    <2>2. CASE header[Old(o)].bits # "none"
      <3>1. header' = header
        BY <1>3, <2>2 DEF Claim
      <3> QED
        BY <1>1, <1>3, <1>4, <2>2, <3>1
    <2> QED
      BY <2>1, <2>2
  <1>7. \A q \in Objects : /\ header'[New(q)] = header[New(q)]
                           /\ q # o => header'[Old(q)] = header[Old(q)]
    BY <1>3, <1>6, AddressFacts
  <1>8. TraceWrite(w, p, Old(o)) /\ TraceResult(w, p, Old(o))
    BY <1>1, <1>3, <1>5 DEF TraceWrite, TraceResult, InTrace
  <1>9. /\ TypeOK' /\ Others(w) /\ at'[w] = p /\ arg'[w] = Old(o)
    <2>1. /\ fields' \in [Addresses -> Seq(Addresses \cup {Null})]
          /\ lockWord' \in [Addresses -> Locks]
          /\ marked \subseteq marked' /\ marked' \subseteq Addresses /\ queue' \subseteq marked'
      BY <1>1, <1>5 DEF TypeOK
    <2> QED
      BY <1>1, <1>3, <1>5, <1>6, <1>8, <2>1, TraceTypes
  <1>10. Grows /\ Lasts
    <2>1. ASSUME NEW q \in Objects
          PROVE  /\ Forwarded(q) => header'[Old(q)] = header[Old(q)]
                 /\ Old(q) \in marked => ~Forwarded(q)'
      BY <1>1, <1>3, <1>4, <1>6, <1>7 DEF Forwarded, HeaderInv
    <2>2. Grows
      BY <1>5, <2>1 DEF Grows
    <2> QED
      BY <1>1, <2>2, GrowsLasts
  <1>11. DataInv' /\ SlotsLast
    BY <1>1, <1>5, <1>10, DataLasts, SlotsKept
  <1>12. HeaderInv'
    <2>1. ASSUME NEW q \in Objects, header'[Old(q)].bits = "being"
          PROVE  \E v \in Workers : Claimant(v, q)'
      <3>1. CASE p = "claimed" /\ q = o
        BY <1>9, <3>1 DEF Claimant
      <3>2. CASE ~(p = "claimed" /\ q = o)
        <4>1. header[Old(q)].bits = "being"
          BY <1>5, <1>6, <1>7, <2>1, <3>2
        <4>2. PICK v \in Workers : Claimant(v, q)
          BY <1>1, <4>1 DEF HeaderInv
        <4>3. v # w
          BY <1>1, <4>2 DEF Claimant
        <4> QED
          BY <1>9, <4>2, <4>3 DEF Claimant, Others
      <3> QED
        BY <3>1, <3>2
    <2>2. ASSUME NEW q \in Objects
          PROVE  /\ header'[New(q)].bits = "none" /\ header'[New(q)].ptr = heap'.class[q]
                 /\ header'[Old(q)].bits # "forwarded" => header'[Old(q)].ptr = heap'.class[q]
                 /\ Forwarded(q)' => header'[Old(q)].ptr = New(q) /\ New(q) \in marked'
                 /\ header'[Old(q)].bits # "none" => q \in heap'.moving
                 /\ header'[Old(q)].bits = "none" => New(q) \notin marked'
                 /\ Old(q) \in marked' => New(q) \notin marked'
      <3>1. CASE q = o
        BY <1>1, <1>3, <1>4, <1>5, <1>6, <1>7, <3>1 DEF HeaderInv, Forwarded
      <3>2. CASE q # o
        BY <1>1, <1>5, <1>7, <3>2 DEF HeaderInv, Forwarded
      <3> QED
        BY <3>1, <3>2
    <2> QED
      BY <2>1, <2>2 DEF HeaderInv
  <1>13. ClaimInv'
    <2>1. \A v \in Workers : p = "claimed" => ~Claimant(v, o)
      BY <1>1, <1>3, <1>6 DEF Claimant, ClaimInv
    <2>2. ASSUME NEW u \in Workers, NEW v \in Workers, NEW q \in Objects,
                 Claimant(u, q)', Claimant(v, q)'
          PROVE  u = v
      <3>1. \A x \in Workers : x # w /\ Claimant(x, q)' => Claimant(x, q)
        BY <1>9 DEF Claimant, Others
      <3>2. Claimant(w, q)' => p = "claimed" /\ q = o
        BY <1>3, <1>5, <1>9, AddressFacts DEF Claimant
      <3> QED
        BY <1>1, <2>1, <2>2, <3>1, <3>2 DEF ClaimInv
    <2>3. ASSUME NEW v \in Workers, at'[v] \in {"spin", "claimed", "copied"}
          PROVE  /\ arg'[v] \in Addresses /\ Moving(arg[v])'
                 /\ at'[v] = "spin" => (header'[arg'[v]].bits = "none" => arg'[v] \in marked')
                 /\ at'[v] # "spin" => header'[arg'[v]].bits = "being"
                 /\ at'[v] = "claimed" => New(arg'[v][1]) \notin marked'
                 /\ at'[v] = "copied" => New(arg'[v][1]) \in marked'
      <3>1. CASE v = w
        <4>1. p = "claimed" => New(o) \notin marked
          BY <1>1, <1>3, <1>6 DEF HeaderInv
        <4>2. Moving(arg[v])'
          BY <1>5, <1>9, <3>1 DEF Claim, Moving
        <4> QED
          BY <1>2, <1>3, <1>5, <1>6, <1>9, <3>1, <4>1, <4>2
      <3>2. CASE v # w /\ arg[v] # Old(o)
        <4>1. at[v] \in {"spin", "claimed", "copied"}
          BY <1>9, <2>3, <3>2 DEF Others
        <4> QED
          BY <1>1, <1>3, <1>5, <1>7, <1>9, <3>2, <4>1, ClaimLasts
      <3>3. CASE v # w /\ arg[v] = Old(o)
        <4>1. /\ at'[v] = at[v] /\ arg'[v] = Old(o)
              /\ at[v] \in {"spin", "claimed", "copied"}
          BY <1>9, <2>3, <3>3 DEF Others
        <4>2. Moving(arg[v])'
          BY <1>3, <1>5, <4>1, AddressFacts DEF Moving
        <4>3. header' = header \/ at[v] = "spin"
          BY <1>1, <1>3, <1>5, <1>6, <3>3, <4>1 DEF ClaimInv
        <4> QED
          BY <1>1, <1>3, <1>5, <1>6, <3>3, <4>1, <4>2, <4>3 DEF ClaimInv
      <3> QED
        BY <3>1, <3>2, <3>3
    <2> QED
      BY <2>2, <2>3 DEF ClaimInv
  <1>14. QueueInv'
    BY <1>1, <1>5, <1>9, <1>10, QueueLasts
  <1>15. OnlyReachableMarked'
    BY <1>1, <1>3, <1>5, ReachableLasts
  <1>16. StayInv'
    BY <1>1, <1>5, <1>10, StayLasts
  <1> QED
    BY <1>8, <1>9, <1>10, <1>11, <1>12, <1>13, <1>14, <1>15, <1>16, TraceStep

\* Once the bits are not being any more, the object stays where it is.
LEMMA SpinStep ==
    ASSUME IInv, NEW w \in Workers, Spin(w)
    PROVE  IInv'
  <1>1. /\ TypeOK /\ HeaderInv /\ ClaimInv /\ QueueInv /\ DataInv /\ OnlyReachableMarked
        /\ StayInv /\ heap \in Heaps /\ at[w] = "spin" /\ Moving(arg[w])
        /\ header \in [Addresses -> HeaderRecords]
    BY DEF IInv, TypeOK, Spin, HeaderRecords, ClaimInv
  <1>2. PICK o, b : o = arg[w][1] /\ b = back[w]
    OBVIOUS
  <1>3. /\ o \in Objects /\ o \in heap.moving /\ arg[w] = Old(o) /\ Old(o) \in Addresses
        /\ FollowedNow(o) /\ Old(o)[1] = o /\ b \in Returns
        /\ header[Old(o)].bits \in {"none", "being", "forwarded"}
    BY <1>1, <1>2, MovingFacts, TraceFacts DEF InTrace
  <1>4. PICK y : y = Where(o)
    OBVIOUS
  <1>5. y \in Addresses /\ y[1] = o /\ y \in marked
    <2>1. CASE header[Old(o)].bits = "forwarded"
      BY <1>1, <1>3, <1>4, <2>1, AddressFacts DEF Where, HeaderInv, Forwarded
    <2>2. CASE header[Old(o)].bits = "none"
      BY <1>1, <1>3, <1>4, <2>2 DEF Where, ClaimInv
    <2>3. header[Old(o)].bits # "being"
      BY <1>3 DEF Spin
    <2> QED
      BY <1>3, <2>1, <2>2, <2>3
  <1>6. /\ UNCHANGED <<heap, header, fields, lockWord, classLock, marked, queue, scanned,
                       weakRefs, obj, slot, back, target>>
        /\ at' = [at EXCEPT ![w] = b] /\ arg' = [arg EXCEPT ![w] = y]
    <2>1. y = IF header[arg[w]].bits = "forwarded" THEN header[arg[w]].ptr ELSE arg[w]
      BY <1>3, <1>4 DEF Where
    <2> QED
      BY <1>2, <2>1 DEF Spin, Return, Go, memory, core
  <1>7. TraceWrite(w, b, y) /\ TraceResult(w, b, y)
    <2>1. Current(y)'
      BY <1>4, <1>5, <1>6 DEF Current, Where
    <2> QED
      BY <1>1, <1>2, <1>5, <1>6, <2>1 DEF TraceWrite, TraceResult, InTrace
  <1>8. /\ TypeOK' /\ Others(w) /\ at'[w] = b /\ arg'[w] = y
    <2>1. /\ header' \in [Addresses -> HeaderRecords]
          /\ fields' \in [Addresses -> Seq(Addresses \cup {Null})]
          /\ lockWord' \in [Addresses -> Locks]
          /\ marked \subseteq marked' /\ marked' \subseteq Addresses /\ queue' \subseteq marked'
      BY <1>1, <1>6 DEF TypeOK
    <2>2. TypeOK /\ b \in {"trace", "spin", "claimed", "copied"} \cup Returns /\ y \in Addresses
      BY <1>1, <1>3, <1>5
    <2> QED
      BY <1>7, <2>1, <2>2, TraceTypes
  <1>9. Grows /\ Lasts
    <2>1. Grows
      BY <1>1, <1>6 DEF Grows, HeaderInv, Forwarded
    <2> QED
      BY <1>1, <2>1, GrowsLasts
  <1>10. DataInv' /\ SlotsLast
    BY <1>1, <1>6, <1>9, DataLasts, SlotsKept
  <1>11. ASSUME NEW v \in Workers, NEW q \in Objects
         PROVE  Claimant(v, q)' <=> Claimant(v, q)
    BY <1>1, <1>3, <1>8 DEF Claimant, Others, Returns
  <1>12. HeaderInv'
    BY <1>1, <1>6, <1>11 DEF HeaderInv, Forwarded
  <1>13. ClaimInv'
    <2>1. ASSUME NEW v \in Workers, at'[v] \in {"spin", "claimed", "copied"}
          PROVE  v # w /\ at'[v] = at[v] /\ arg'[v] = arg[v]
      BY <1>3, <1>8, <2>1 DEF Others, Returns
    <2>2. ASSUME NEW v \in Workers, at'[v] \in {"spin", "claimed", "copied"}
          PROVE  /\ arg'[v] \in Addresses /\ Moving(arg[v])'
                 /\ at'[v] = "spin" => (header'[arg'[v]].bits = "none" => arg'[v] \in marked')
                 /\ at'[v] # "spin" => header'[arg'[v]].bits = "being"
                 /\ at'[v] = "claimed" => New(arg'[v][1]) \notin marked'
                 /\ at'[v] = "copied" => New(arg'[v][1]) \in marked'
      BY <1>1, <1>6, <2>1, <2>2 DEF ClaimInv, Moving
    <2> QED
      BY <1>1, <1>11, <2>2 DEF ClaimInv
  <1>14. QueueInv'
    BY <1>1, <1>6, <1>8, <1>9, QueueLasts
  <1>15. OnlyReachableMarked'
    BY <1>1, <1>3, <1>6, ReachableLasts
  <1>16. StayInv'
    BY <1>1, <1>6, <1>9, StayLasts
  <1> QED
    BY <1>7, <1>8, <1>9, <1>10, <1>12, <1>13, <1>14, <1>15, <1>16, TraceStep

\* What the claimant starts from.
LEMMA ClaimantFacts ==
    ASSUME IInv, NEW w \in Workers, at[w] \in {"claimed", "copied"}, NEW o, o = arg[w][1]
    PROVE  /\ o \in Objects /\ o \in heap.moving /\ arg[w] = Old(o) /\ Old(o) \in Addresses
           /\ New(o) \in Addresses /\ New(o)[1] = o /\ Old(o)[1] = o /\ Old(o) # New(o)
           /\ Old(o)[2] = 0 /\ New(o)[2] = 1
           /\ FollowedNow(o) /\ back[w] \in Returns
           /\ header[Old(o)].bits = "being" /\ header[Old(o)].ptr = heap.class[o]
           /\ header[Old(o)] \in HeaderRecords
           /\ at[w] = "claimed" => New(o) \notin marked
           /\ at[w] = "copied" => New(o) \in marked /\ Old(o) \notin marked
           /\ \A v \in Workers : Claimant(v, o) => v = w
  <1>1. HeaderInv /\ ClaimInv
    BY DEF IInv
  <1>2. Moving(arg[w])
    BY <1>1 DEF ClaimInv
  <1>3. /\ o \in Objects /\ o \in heap.moving /\ arg[w] = Old(o) /\ Old(o) \in Addresses
        /\ FollowedNow(o) /\ back[w] \in Returns /\ header[Old(o)] \in HeaderRecords
    BY <1>2, MovingFacts, TraceFacts DEF InTrace
  <1>4. /\ header[Old(o)].bits = "being"
        /\ at[w] = "claimed" => New(o) \notin marked
        /\ at[w] = "copied" => New(o) \in marked
    BY <1>1, <1>3 DEF ClaimInv
  <1>5. header[Old(o)].ptr = heap.class[o] /\ (New(o) \in marked => Old(o) \notin marked)
    BY <1>1, <1>3, <1>4 DEF HeaderInv
  <1>6. \A v \in Workers : Claimant(v, o) => v = w
    BY <1>1, <1>3 DEF ClaimInv, Claimant
  <1> QED
    BY <1>3, <1>4, <1>5, <1>6, AddressFacts

\* An object that was marked when its bits were taken stays, and one for which
\* there is no space.
LEMMA KeepInPlaceStep ==
    ASSUME IInv, NEW w \in Workers, KeepInPlace(w)
    PROVE  IInv'
  <1>1. /\ TypeOK /\ HeaderInv /\ ClaimInv /\ QueueInv /\ DataInv /\ OnlyReachableMarked
        /\ StayInv /\ heap \in Heaps /\ at[w] = "claimed"
        /\ header \in [Addresses -> HeaderRecords]
    BY DEF IInv, TypeOK, KeepInPlace, HeaderRecords
  <1>2. PICK o, b : o = arg[w][1] /\ b = back[w]
    OBVIOUS
  <1>3. /\ o \in Objects /\ o \in heap.moving /\ arg[w] = Old(o) /\ Old(o) \in Addresses
        /\ FollowedNow(o) /\ Old(o)[1] = o /\ Old(o)[2] = 0 /\ b \in Returns
        /\ header[Old(o)].bits = "being" /\ header[Old(o)].ptr = heap.class[o]
        /\ New(o) \notin marked /\ \A v \in Workers : Claimant(v, o) => v = w
    BY <1>1, <1>2, ClaimantFacts
  <1>4. /\ UNCHANGED <<heap, fields, lockWord, classLock, scanned, weakRefs,
                       obj, slot, back, target>>
        /\ at' = [at EXCEPT ![w] = b] /\ arg' = [arg EXCEPT ![w] = Old(o)]
        /\ header' = [header EXCEPT ![Old(o)].bits = "none"]
        /\ marked' = marked \cup {Old(o)}
        /\ queue' = IF Old(o) \in marked THEN queue ELSE queue \cup {Old(o)}
        /\ Old(o) \in marked \/ Exhausted
    BY <1>2, <1>3 DEF KeepInPlace, Return, Go
  <1>5. /\ header' \in [Addresses -> HeaderRecords]
        /\ header'[Old(o)].bits = "none" /\ header'[Old(o)].ptr = heap.class[o]
        /\ \A a \in Addresses : a # Old(o) => header'[a] = header[a]
    BY <1>1, <1>3, <1>4, BitsUpdate
  <1>6. \A q \in Objects : /\ header'[New(q)] = header[New(q)]
                           /\ q # o => header'[Old(q)] = header[Old(q)]
                           /\ New(q) \in marked' <=> New(q) \in marked
                           /\ q # o => (Old(q) \in marked' <=> Old(q) \in marked)
    BY <1>3, <1>4, <1>5, AddressFacts
  <1>7. TraceWrite(w, b, Old(o)) /\ TraceResult(w, b, Old(o))
    <2>1. Current(Old(o))'
      BY <1>3, <1>4, <1>5 DEF Current, Where
    <2> QED
      BY <1>1, <1>2, <1>3, <1>4, <2>1 DEF TraceWrite, TraceResult, InTrace
  <1>8. TypeOK' /\ Others(w) /\ at'[w] = b /\ arg'[w] = Old(o)
    <2>1. /\ fields' \in [Addresses -> Seq(Addresses \cup {Null})]
          /\ lockWord' \in [Addresses -> Locks]
          /\ marked \subseteq marked' /\ marked' \subseteq Addresses /\ queue' \subseteq marked'
      BY <1>1, <1>3, <1>4 DEF TypeOK
    <2> QED
      BY <1>1, <1>3, <1>5, <1>7, <2>1, TraceTypes
  <1>9. Grows /\ Lasts
    <2>1. ASSUME NEW q \in Objects
          PROVE  /\ Forwarded(q) => header'[Old(q)] = header[Old(q)]
                 /\ Old(q) \in marked => ~Forwarded(q)'
      <3>1. CASE q = o
        BY <1>3, <1>5, <3>1 DEF Forwarded
      <3>2. CASE q # o
        BY <1>1, <1>6, <3>2 DEF Forwarded, HeaderInv
      <3> QED
        BY <3>1, <3>2
    <2>2. Grows
      BY <1>4, <2>1 DEF Grows
    <2> QED
      BY <1>1, <2>2, GrowsLasts
  <1>10. DataInv' /\ SlotsLast
    BY <1>1, <1>4, <1>6, <1>9, DataLasts, SlotsKept
  <1>11. HeaderInv'
    <2>1. ASSUME NEW q \in Objects, header'[Old(q)].bits = "being"
          PROVE  \E v \in Workers : Claimant(v, q)'
      <3>1. q # o
        BY <1>5, <2>1
      <3>2. PICK v \in Workers : Claimant(v, q)
        BY <1>1, <1>6, <2>1, <3>1 DEF HeaderInv
      <3>3. v # w
        BY <1>3, <3>1, <3>2, AddressFacts DEF Claimant
      <3> QED
        BY <1>8, <3>2, <3>3 DEF Claimant, Others
    <2>2. ASSUME NEW q \in Objects
          PROVE  /\ header'[New(q)].bits = "none" /\ header'[New(q)].ptr = heap'.class[q]
                 /\ header'[Old(q)].bits # "forwarded" => header'[Old(q)].ptr = heap'.class[q]
                 /\ Forwarded(q)' => header'[Old(q)].ptr = New(q) /\ New(q) \in marked'
                 /\ header'[Old(q)].bits # "none" => q \in heap'.moving
                 /\ header'[Old(q)].bits = "none" => New(q) \notin marked'
                 /\ Old(q) \in marked' => New(q) \notin marked'
      <3>1. CASE q = o
        BY <1>1, <1>3, <1>4, <1>5, <1>6, <3>1 DEF HeaderInv, Forwarded
      <3>2. CASE q # o
        BY <1>1, <1>4, <1>6, <3>2 DEF HeaderInv, Forwarded
      <3> QED
        BY <3>1, <3>2
    <2> QED
      BY <2>1, <2>2 DEF HeaderInv
  <1>12. ClaimInv'
    <2>1. \A v \in Workers, q \in Objects : Claimant(v, q)' => Claimant(v, q)
      BY <1>3, <1>8 DEF Claimant, Others, Returns
    <2>2. ASSUME NEW v \in Workers, at'[v] \in {"spin", "claimed", "copied"}
          PROVE  /\ arg'[v] \in Addresses /\ Moving(arg[v])'
                 /\ at'[v] = "spin" => (header'[arg'[v]].bits = "none" => arg'[v] \in marked')
                 /\ at'[v] # "spin" => header'[arg'[v]].bits = "being"
                 /\ at'[v] = "claimed" => New(arg'[v][1]) \notin marked'
                 /\ at'[v] = "copied" => New(arg'[v][1]) \in marked'
      <3>1. v # w
        BY <1>3, <1>8, <2>2 DEF Returns
      <3>2. at'[v] = at[v] /\ arg'[v] = arg[v]
        BY <1>8, <3>1 DEF Others
      <3>3. CASE arg[v] # Old(o)
        BY <1>1, <1>3, <1>4, <1>6, <1>8, <2>2, <3>1, <3>2, <3>3, ClaimLasts
      <3>4. CASE arg[v] = Old(o)
        <4>1. at[v] = "spin"
          BY <1>3, <2>2, <3>1, <3>2, <3>4 DEF Claimant
        <4>2. Moving(arg[v])'
          BY <1>3, <1>4, <3>2, <3>4 DEF Moving
        <4> QED
          BY <1>3, <1>4, <3>2, <3>4, <4>1, <4>2
      <3> QED
        BY <3>3, <3>4
    <2> QED
      BY <1>1, <2>1, <2>2 DEF ClaimInv
  <1>13. QueueInv'
    <2>1. Valid(Old(o))'
      BY <1>3 DEF Valid
    <2> QED
      BY <1>1, <1>4, <1>8, <1>9, <2>1, QueueLasts
  <1>14. OnlyReachableMarked'
    BY <1>1, <1>3, <1>4, ReachableLasts
  <1>15. StayInv'
    <2>1. Uncontended => Old(o) \in marked
      BY <1>1, <1>4, NotExhausted
    <2>2. Uncontended => \A q \in heap.moving : Old(q) \in marked' => Old(q) \in marked
      BY <1>4, <2>1
    <2> QED
      BY <1>1, <1>4, <1>9, <2>2, StayLasts
  <1> QED
    BY <1>7, <1>8, <1>9, <1>10, <1>11, <1>12, <1>13, <1>14, <1>15, TraceStep

\* The copy has what the object had, and is not known to anybody yet.
LEMMA CopyStep ==
    ASSUME IInv, NEW w \in Workers, Copy(w)
    PROVE  IInv'
  <1>1. /\ TypeOK /\ HeaderInv /\ ClaimInv /\ QueueInv /\ DataInv /\ OnlyReachableMarked
        /\ StayInv /\ heap \in Heaps /\ at[w] = "claimed" /\ scanned \subseteq marked
        /\ header \in [Addresses -> HeaderRecords]
        /\ fields \in [Addresses -> Seq(Addresses \cup {Null})]
        /\ lockWord \in [Addresses -> Locks] /\ marked \subseteq Addresses
        /\ queue \subseteq marked
    BY DEF IInv, TypeOK, Copy, HeaderRecords
  <1>2. PICK o : o = arg[w][1]
    OBVIOUS
  <1>3. /\ o \in Objects /\ o \in heap.moving /\ arg[w] = Old(o) /\ Old(o) \in Addresses
        /\ New(o) \in Addresses /\ New(o)[1] = o /\ Old(o)[1] = o /\ Old(o) # New(o)
        /\ Old(o)[2] = 0 /\ FollowedNow(o)
        /\ header[Old(o)].bits = "being" /\ header[Old(o)].ptr = heap.class[o]
        /\ header[Old(o)] \in HeaderRecords
        /\ New(o) \notin marked /\ \A v \in Workers : Claimant(v, o) => v = w
    BY <1>1, <1>2, ClaimantFacts
  <1>4. Old(o) \notin marked
    BY <1>3 DEF Copy
  <1>5. /\ UNCHANGED <<heap, classLock, queue, scanned, weakRefs, obj, slot, back, target>>
        /\ at' = [at EXCEPT ![w] = "copied"] /\ arg' = [arg EXCEPT ![w] = Old(o)]
        /\ header' = [header EXCEPT ![New(o)] = [header[Old(o)] EXCEPT !.bits = "none"]]
        /\ fields' = [fields EXCEPT ![New(o)] = fields[Old(o)]]
        /\ lockWord' = [lockWord EXCEPT ![New(o)] = lockWord[Old(o)]]
        /\ marked' = marked \cup {New(o)}
    <2>1. arg' = [arg EXCEPT ![w] = Old(o)]
      BY <1>1, <1>3 DEF Copy, local, TypeOK
    <2> QED
      BY <1>2, <1>3, <2>1 DEF Copy, Go, local
  <1>6. /\ header' \in [Addresses -> HeaderRecords]
        /\ header'[New(o)].bits = "none" /\ header'[New(o)].ptr = heap.class[o]
        /\ \A a \in Addresses : a # New(o) => header'[a] = header[a]
    <2>1. PICK r : r = [header[Old(o)] EXCEPT !.bits = "none"]
      OBVIOUS
    <2>2. header[Old(o)] \in [bits : {"none", "being"}, ptr : Classes]
      BY <1>3 DEF HeaderRecords
    <2>3. r \in HeaderRecords /\ r.bits = "none" /\ r.ptr = heap.class[o]
      BY <1>3, <2>1, <2>2 DEF HeaderRecords
    <2>4. header' = [header EXCEPT ![New(o)] = r]
      BY <1>5, <2>1
    <2> QED
      BY <1>1, <1>3, <2>3, <2>4
  <1>7. /\ fields' \in [Addresses -> Seq(Addresses \cup {Null})]
        /\ fields'[New(o)] = fields[Old(o)]
        /\ \A a \in Addresses : a # New(o) => fields'[a] = fields[a]
    BY <1>1, <1>3, <1>5
  <1>8. /\ lockWord' \in [Addresses -> Locks]
        /\ lockWord'[New(o)] = lockWord[Old(o)]
        /\ \A a \in Addresses : a # New(o) => lockWord'[a] = lockWord[a]
    BY <1>1, <1>3, <1>5
  <1>9. \A q \in Objects : /\ header'[Old(q)] = header[Old(q)]
                           /\ q # o => header'[New(q)] = header[New(q)]
                           /\ q # o => (New(q) \in marked' <=> New(q) \in marked)
                           /\ Old(q) \in marked' <=> Old(q) \in marked
    BY <1>3, <1>5, <1>6, AddressFacts
  <1>10. TraceWrite(w, "copied", Old(o)) /\ TraceResult(w, "copied", Old(o))
    BY <1>1, <1>3, <1>5 DEF TraceWrite, TraceResult, InTrace
  <1>11. TypeOK' /\ Others(w) /\ at'[w] = "copied" /\ arg'[w] = Old(o)
    <2>1. marked \subseteq marked' /\ marked' \subseteq Addresses /\ queue' \subseteq marked'
      BY <1>1, <1>3, <1>5
    <2>2. /\ header' \in [Addresses -> HeaderRecords]
          /\ fields' \in [Addresses -> Seq(Addresses \cup {Null})]
          /\ lockWord' \in [Addresses -> Locks]
      BY <1>6, <1>7, <1>8
    <2>3. TypeOK /\ Old(o) \in Addresses
      BY <1>1, <1>3
    <2> QED
      BY <1>10, <2>1, <2>2, <2>3, TraceTypes
  <1>12. Grows /\ Lasts
    <2>1. Grows
      BY <1>1, <1>5, <1>9 DEF Grows, HeaderInv, Forwarded
    <2> QED
      BY <1>1, <2>1, GrowsLasts
  <1>13. SlotsLast
    <2>1. ASSUME NEW a \in scanned, NEW i \in Slots(a), SlotDone(a, i)
          PROVE  SlotDone(a, i)'
      <3>1. a \in Addresses /\ a # New(o)
        BY <1>1, <1>3
      <3> QED
        BY <1>1, <1>7, <1>12, <2>1, <3>1, SlotLasts
    <2> QED
      BY <2>1 DEF SlotsLast
  <1>14. DataInv'
    <2>1. \A a : Valid(a) => Valid(a)'
      BY <1>12 DEF Lasts, Valid
    <2>2. ASSUME NEW a \in Addresses
          PROVE  \E c \in Addresses : /\ c[1] = a[1] /\ fields'[a] = fields[c]
                                      /\ lockWord'[a] = lockWord[c]
                                      /\ Written(a)' => Written(c)
      <3>1. CASE a = New(o)
        BY <1>3, <1>7, <1>8, <3>1 DEF Written
      <3>2. CASE a # New(o)
        BY <1>5, <1>7, <1>8, <3>2 DEF Written
      <3> QED
        BY <3>1, <3>2
    <2>3. ASSUME NEW a \in Addresses
          PROVE  /\ Len(fields'[a]) = Len(heap'.fields[a[1]])
                 /\ lockWord'[a] # Thin =>
                      /\ heap'.lock[a[1]] \in Objects
                      /\ lockWord'[a] = [monitor |-> Old(heap'.lock[a[1]])]
                 /\ Written(a)' /\ lockWord'[a] = Thin => heap'.lock[a[1]] = Thin
      <3>1. PICK c \in Addresses : /\ c[1] = a[1] /\ fields'[a] = fields[c]
                                   /\ lockWord'[a] = lockWord[c]
                                   /\ Written(a)' => Written(c)
        BY <2>2
      <3>2. heap' = heap
        BY <1>5
      <3>3. /\ Len(fields[c]) = Len(heap.fields[c[1]])
            /\ lockWord[c] # Thin =>
                 /\ heap.lock[c[1]] \in Objects
                 /\ lockWord[c] = [monitor |-> Old(heap.lock[c[1]])]
            /\ Written(c) /\ lockWord[c] = Thin => heap.lock[c[1]] = Thin
        BY <1>1 DEF DataInv
      <3> QED
        BY <3>1, <3>2, <3>3
    <2>4. ASSUME NEW a \in Addresses, NEW i \in 1..Len(heap.fields[a[1]])
          PROVE  /\ fields'[a][i] # Null =>
                      Valid(fields[a][i])' /\ fields'[a][i][1] = heap.fields[a[1]][i]
                 /\ Written(a)' /\ fields'[a][i] = Null => heap.fields[a[1]][i] = Null
      <3>1. PICK c \in Addresses : /\ c[1] = a[1] /\ fields'[a] = fields[c]
                                   /\ Written(a)' => Written(c)
        BY <2>2
      <3>2. PICK y : y = fields[c][i]
        OBVIOUS
      <3>3. /\ y # Null => Valid(y) /\ y[1] = heap.fields[a[1]][i]
            /\ Written(c) /\ y = Null => heap.fields[a[1]][i] = Null
        <4>1. \A j \in 1..Len(heap.fields[c[1]]) :
                /\ fields[c][j] # Null =>
                     Valid(fields[c][j]) /\ fields[c][j][1] = heap.fields[c[1]][j]
                /\ Written(c) /\ fields[c][j] = Null => heap.fields[c[1]][j] = Null
          BY <1>1 DEF DataInv
        <4>2. c[1] = a[1]
          BY <3>1
        <4> QED
          BY <3>2, <4>1, <4>2
      <3>4. y # Null => Valid(y)'
        BY <2>1, <3>3
      <3> QED
        BY <3>1, <3>2, <3>3, <3>4 DEF Valid, Forwarded
    <2> QED
      BY <1>5, <2>3, <2>4 DEF DataInv
  <1>15. HeaderInv'
    <2>1. ASSUME NEW q \in Objects, header'[Old(q)].bits = "being"
          PROVE  \E v \in Workers : Claimant(v, q)'
      <3>1. PICK v \in Workers : Claimant(v, q)
        BY <1>1, <1>9, <2>1 DEF HeaderInv
      <3>2. CASE v = w
        BY <1>3, <1>11, <3>1, <3>2 DEF Claimant
      <3>3. CASE v # w
        BY <1>11, <3>1, <3>3 DEF Claimant, Others
      <3> QED
        BY <3>2, <3>3
    <2>2. ASSUME NEW q \in Objects
          PROVE  /\ header'[New(q)].bits = "none" /\ header'[New(q)].ptr = heap'.class[q]
                 /\ header'[Old(q)].bits # "forwarded" => header'[Old(q)].ptr = heap'.class[q]
                 /\ Forwarded(q)' => header'[Old(q)].ptr = New(q) /\ New(q) \in marked'
                 /\ header'[Old(q)].bits # "none" => q \in heap'.moving
                 /\ header'[Old(q)].bits = "none" => New(q) \notin marked'
                 /\ Old(q) \in marked' => New(q) \notin marked'
      <3>1. CASE q = o
        BY <1>3, <1>4, <1>5, <1>6, <1>9, <3>1 DEF Forwarded
      <3>2. CASE q # o
        <4>1. /\ header'[New(q)] = header[New(q)] /\ header'[Old(q)] = header[Old(q)]
              /\ New(q) \in marked' <=> New(q) \in marked
              /\ Old(q) \in marked' <=> Old(q) \in marked
              /\ heap' = heap
          BY <1>5, <1>9, <3>2
        <4>2. /\ header[New(q)].bits = "none" /\ header[New(q)].ptr = heap.class[q]
              /\ header[Old(q)].bits # "forwarded" => header[Old(q)].ptr = heap.class[q]
              /\ Forwarded(q) => header[Old(q)].ptr = New(q) /\ New(q) \in marked
              /\ header[Old(q)].bits # "none" => q \in heap.moving
              /\ header[Old(q)].bits = "none" => New(q) \notin marked
              /\ Old(q) \in marked => New(q) \notin marked
          BY <1>1 DEF HeaderInv
        <4> QED
          BY <4>1, <4>2 DEF Forwarded
      <3> QED
        BY <3>1, <3>2
    <2> QED
      BY <2>1, <2>2 DEF HeaderInv
  <1>16. ClaimInv'
    <2>1. \A v \in Workers, q \in Objects : Claimant(v, q)' => Claimant(v, q)
      BY <1>1, <1>3, <1>11 DEF Claimant, Others
    <2>2. ASSUME NEW v \in Workers, at'[v] \in {"spin", "claimed", "copied"}
          PROVE  /\ arg'[v] \in Addresses /\ Moving(arg[v])'
                 /\ at'[v] = "spin" => (header'[arg'[v]].bits = "none" => arg'[v] \in marked')
                 /\ at'[v] # "spin" => header'[arg'[v]].bits = "being"
                 /\ at'[v] = "claimed" => New(arg'[v][1]) \notin marked'
                 /\ at'[v] = "copied" => New(arg'[v][1]) \in marked'
      <3>1. CASE v = w
        <4>1. Moving(arg[v])'
          BY <1>3, <1>5, <1>11, <3>1 DEF Moving
        <4> QED
          BY <1>3, <1>5, <1>9, <1>11, <3>1, <4>1
      <3>2. CASE v # w /\ arg[v] # Old(o)
        <4>1. at[v] \in {"spin", "claimed", "copied"}
          BY <1>11, <2>2, <3>2 DEF Others
        <4>2. TypeOK /\ HeaderInv /\ ClaimInv /\ Others(w) /\ heap' = heap /\ marked \subseteq marked'
          BY <1>1, <1>5, <1>11
        <4>3. o \in Objects
          BY <1>3
        <4> QED
          BY <1>9, <3>2, <4>1, <4>2, <4>3, ClaimLasts
      <3>3. CASE v # w /\ arg[v] = Old(o)
        <4>1. at'[v] = at[v] /\ arg'[v] = Old(o)
          BY <1>11, <3>3 DEF Others
        <4>2. at[v] = "spin"
          BY <1>3, <2>2, <3>3, <4>1 DEF Claimant
        <4>3. Moving(arg[v])'
          BY <1>3, <1>5, <4>1 DEF Moving
        <4> QED
          BY <1>3, <1>9, <4>1, <4>2, <4>3
      <3> QED
        BY <3>1, <3>2, <3>3
    <2> QED
      BY <1>1, <2>1, <2>2 DEF ClaimInv
  <1>17. QueueInv'
    BY <1>1, <1>3, <1>5, <1>11, <1>12, QueueLasts
  <1>18. OnlyReachableMarked'
    BY <1>1, <1>3, <1>5, ReachableLasts
  <1>19. StayInv'
    <2>1. \A q \in heap.moving : Old(q) \in marked' => Old(q) \in marked
      BY <1>1, <1>9, HeapFacts
    <2> QED
      BY <1>1, <1>5, <1>12, <2>1, StayLasts
  <1> QED
    BY <1>10, <1>11, <1>12, <1>13, <1>14, <1>15, <1>16, <1>17, <1>18, <1>19, TraceStep

\* The copy is published.
LEMMA ForwardStep ==
    ASSUME IInv, NEW w \in Workers, Forward(w)
    PROVE  IInv'
  <1>1. /\ TypeOK /\ HeaderInv /\ ClaimInv /\ QueueInv /\ DataInv /\ OnlyReachableMarked
        /\ StayInv /\ heap \in Heaps /\ at[w] = "copied"
        /\ header \in [Addresses -> HeaderRecords]
    BY DEF IInv, TypeOK, Forward, HeaderRecords
  <1>2. PICK o, b : o = arg[w][1] /\ b = back[w]
    OBVIOUS
  <1>3. /\ o \in Objects /\ o \in heap.moving /\ arg[w] = Old(o) /\ Old(o) \in Addresses
        /\ New(o) \in Addresses /\ New(o)[1] = o /\ Old(o)[1] = o /\ Old(o) # New(o)
        /\ Old(o)[2] = 0 /\ b \in Returns /\ FollowedNow(o)
        /\ header[Old(o)].bits = "being"
        /\ New(o) \in marked /\ Old(o) \notin marked
        /\ \A v \in Workers : Claimant(v, o) => v = w
    BY <1>1, <1>2, ClaimantFacts
  <1>4. /\ UNCHANGED <<heap, fields, lockWord, classLock, marked, scanned, weakRefs,
                       obj, slot, back, target>>
        /\ at' = [at EXCEPT ![w] = b] /\ arg' = [arg EXCEPT ![w] = New(o)]
        /\ header' = [header EXCEPT ![Old(o)] = [bits |-> "forwarded", ptr |-> New(o)]]
        /\ queue' = queue \cup {New(o)}
    BY <1>2, <1>3 DEF Forward, Return, Go
  <1>5. /\ header' \in [Addresses -> HeaderRecords]
        /\ header'[Old(o)].bits = "forwarded" /\ header'[Old(o)].ptr = New(o)
        /\ \A a \in Addresses : a # Old(o) => header'[a] = header[a]
    <2>1. PICK r : r = [bits |-> "forwarded", ptr |-> New(o)]
      OBVIOUS
    <2>2. r \in HeaderRecords /\ r.bits = "forwarded" /\ r.ptr = New(o)
      BY <1>3, <2>1 DEF HeaderRecords
    <2>3. header' = [header EXCEPT ![Old(o)] = r]
      BY <1>4, <2>1
    <2> QED
      BY <1>1, <1>3, <2>2, <2>3
  <1>6. \A q \in Objects : /\ header'[New(q)] = header[New(q)]
                           /\ q # o => header'[Old(q)] = header[Old(q)]
    BY <1>3, <1>5, AddressFacts
  <1>7. TraceWrite(w, b, New(o)) /\ TraceResult(w, b, New(o))
    <2>1. Current(New(o))'
      BY <1>3, <1>4, <1>5 DEF Current, Where
    <2> QED
      BY <1>1, <1>2, <1>3, <1>4, <2>1 DEF TraceWrite, TraceResult, InTrace
  <1>8. TypeOK' /\ Others(w) /\ at'[w] = b /\ arg'[w] = New(o)
    <2>1. /\ fields' \in [Addresses -> Seq(Addresses \cup {Null})]
          /\ lockWord' \in [Addresses -> Locks]
          /\ marked \subseteq marked' /\ marked' \subseteq Addresses /\ queue' \subseteq marked'
      BY <1>1, <1>3, <1>4 DEF TypeOK
    <2>2. TypeOK /\ b \in {"trace", "spin", "claimed", "copied"} \cup Returns
      BY <1>1, <1>3
    <2>3. New(o) \in Addresses /\ header' \in [Addresses -> HeaderRecords]
      BY <1>3, <1>5
    <2> QED
      BY <1>7, <2>1, <2>2, <2>3, TraceTypes
  <1>9. Grows /\ Lasts
    <2>1. ASSUME NEW q \in Objects
          PROVE  /\ Forwarded(q) => header'[Old(q)] = header[Old(q)]
                 /\ Old(q) \in marked => ~Forwarded(q)'
      <3>1. CASE q = o
        BY <1>3, <3>1 DEF Forwarded
      <3>2. CASE q # o
        BY <1>1, <1>6, <3>2 DEF Forwarded, HeaderInv
      <3> QED
        BY <3>1, <3>2
    <2>2. Grows
      BY <1>4, <2>1 DEF Grows
    <2> QED
      BY <1>1, <2>2, GrowsLasts
  <1>10. DataInv' /\ SlotsLast
    BY <1>1, <1>4, <1>9, DataLasts, SlotsKept
  <1>11. HeaderInv'
    <2>1. ASSUME NEW q \in Objects, header'[Old(q)].bits = "being"
          PROVE  \E v \in Workers : Claimant(v, q)'
      <3>1. q # o
        BY <1>5, <2>1
      <3>2. PICK v \in Workers : Claimant(v, q)
        BY <1>1, <1>6, <2>1, <3>1 DEF HeaderInv
      <3>3. v # w
        BY <1>3, <3>1, <3>2, AddressFacts DEF Claimant
      <3> QED
        BY <1>8, <3>2, <3>3 DEF Claimant, Others
    <2>2. ASSUME NEW q \in Objects
          PROVE  /\ header'[New(q)].bits = "none" /\ header'[New(q)].ptr = heap'.class[q]
                 /\ header'[Old(q)].bits # "forwarded" => header'[Old(q)].ptr = heap'.class[q]
                 /\ Forwarded(q)' => header'[Old(q)].ptr = New(q) /\ New(q) \in marked'
                 /\ header'[Old(q)].bits # "none" => q \in heap'.moving
                 /\ header'[Old(q)].bits = "none" => New(q) \notin marked'
                 /\ Old(q) \in marked' => New(q) \notin marked'
      <3>1. CASE q = o
        BY <1>1, <1>3, <1>4, <1>5, <1>6, <3>1 DEF HeaderInv, Forwarded
      <3>2. CASE q # o
        BY <1>1, <1>4, <1>6, <3>2 DEF HeaderInv, Forwarded
      <3> QED
        BY <3>1, <3>2
    <2> QED
      BY <2>1, <2>2 DEF HeaderInv
  <1>12. ClaimInv'
    <2>1. \A v \in Workers, q \in Objects : Claimant(v, q)' => Claimant(v, q)
      BY <1>3, <1>8 DEF Claimant, Others, Returns
    <2>2. ASSUME NEW v \in Workers, at'[v] \in {"spin", "claimed", "copied"}
          PROVE  /\ arg'[v] \in Addresses /\ Moving(arg[v])'
                 /\ at'[v] = "spin" => (header'[arg'[v]].bits = "none" => arg'[v] \in marked')
                 /\ at'[v] # "spin" => header'[arg'[v]].bits = "being"
                 /\ at'[v] = "claimed" => New(arg'[v][1]) \notin marked'
                 /\ at'[v] = "copied" => New(arg'[v][1]) \in marked'
      <3>1. v # w
        BY <1>3, <1>8, <2>2 DEF Returns
      <3>2. at'[v] = at[v] /\ arg'[v] = arg[v]
        BY <1>8, <3>1 DEF Others
      <3>3. CASE arg[v] # Old(o)
        BY <1>1, <1>3, <1>4, <1>6, <1>8, <2>2, <3>1, <3>2, <3>3, ClaimLasts
      <3>4. CASE arg[v] = Old(o)
        <4>1. at[v] = "spin"
          BY <1>3, <2>2, <3>1, <3>2, <3>4 DEF Claimant
        <4>2. Moving(arg[v])'
          BY <1>3, <1>4, <3>2, <3>4 DEF Moving
        <4> QED
          BY <1>3, <1>5, <3>2, <3>4, <4>1, <4>2
      <3> QED
        BY <3>3, <3>4
    <2> QED
      BY <1>1, <2>1, <2>2 DEF ClaimInv
  <1>13. QueueInv'
    <2>1. Valid(New(o))'
      BY <1>3, <1>5 DEF Valid, Forwarded
    <2> QED
      BY <1>1, <1>3, <1>4, <1>8, <1>9, <2>1, QueueLasts
  <1>14. OnlyReachableMarked'
    BY <1>1, <1>3, <1>4, ReachableLasts
  <1>15. StayInv'
    BY <1>1, <1>4, <1>9, StayLasts
  <1> QED
    BY <1>7, <1>8, <1>9, <1>10, <1>11, <1>12, <1>13, <1>14, <1>15, TraceStep

-----------------------------------------------------------------------------
(* The induction.                                                          *)

\* A function on the slots of a heap's object is a sequence, one to a slot.
LEMMA SlotSequence ==
    ASSUME NEW S, NEW n \in Nat, NEW f \in [1..n -> S]
    PROVE  f \in Seq(S) /\ Len(f) = n
  <1>1. f \in Seq(S)
    BY SeqDef
  <1>2. Len(f) \in Nat /\ DOMAIN f = 1..Len(f)
    BY <1>1, LenProperties
  <1>3. DOMAIN f = 1..n
    OBVIOUS
  <1> QED
    BY <1>1, <1>2, <1>3

\* What memory holds before the collection.
LEMMA InitMemory ==
    ASSUME Init
    PROVE  /\ fields \in [Addresses -> Seq(Addresses \cup {Null})]
           /\ \A a \in Addresses :
                /\ Len(fields[a]) = Len(heap.fields[a[1]])
                /\ \A i \in 1..Len(heap.fields[a[1]]) :
                     fields[a][i] = IF heap.fields[a[1]][i] = Null \/ a[2] = 1 THEN Null
                                    ELSE Old(heap.fields[a[1]][i])
           /\ lockWord \in [Addresses -> Locks]
           /\ \A a \in Addresses :
                lockWord[a] = IF heap.lock[a[1]] = Thin \/ a[2] = 1 THEN Thin
                              ELSE [monitor |-> Old(heap.lock[a[1]])]
           /\ classLock \in [Classes -> Locks]
           /\ \A c \in Classes :
                classLock[c] = IF heap.classLock[c] = Thin THEN Thin
                               ELSE [monitor |-> Old(heap.classLock[c])]
  <1>1. heap \in Heaps
    BY DEF Init
  <1>2. ASSUME NEW a \in Addresses
        PROVE  /\ fields[a] \in Seq(Addresses \cup {Null})
               /\ Len(fields[a]) = Len(heap.fields[a[1]])
               /\ \A i \in 1..Len(heap.fields[a[1]]) :
                     fields[a][i] = IF heap.fields[a[1]][i] = Null \/ a[2] = 1 THEN Null
                                    ELSE Old(heap.fields[a[1]][i])
    <2>1. PICK g, n : g = heap.fields[a[1]] /\ n = Len(g)
      OBVIOUS
    <2>2. /\ n \in Nat /\ DOMAIN g = 1..n
          /\ \A i \in 1..n : g[i] \in Objects \cup {Null}
      BY <1>1, <2>1, AddressFacts, HeapFacts, LenProperties
    <2>3. fields[a] = [i \in 1..n |-> IF g[i] = Null \/ a[2] = 1 THEN Null ELSE Old(g[i])]
      BY <2>1, <2>2 DEF Init
    <2>4. \A i \in 1..n : (IF g[i] = Null \/ a[2] = 1 THEN Null ELSE Old(g[i]))
                             \in Addresses \cup {Null}
      BY <2>2, AddressFacts
    <2>5. fields[a] \in [1..n -> Addresses \cup {Null}]
      BY <2>3, <2>4
    <2>6. fields[a] \in Seq(Addresses \cup {Null}) /\ Len(fields[a]) = n
      BY <2>2, <2>5, SlotSequence
    <2> QED
      BY <2>1, <2>3, <2>6
  <1>3. fields \in [Addresses -> Seq(Addresses \cup {Null})]
    <2>1. fields = [a \in Addresses |-> fields[a]]
      BY DEF Init
    <2> QED
      BY <1>2, <2>1
  <1>4. /\ lockWord = [a \in Addresses |->
                         IF heap.lock[a[1]] = Thin \/ a[2] = 1 THEN Thin
                         ELSE [monitor |-> Old(heap.lock[a[1]])]]
        /\ classLock = [c \in Classes |-> IF heap.classLock[c] = Thin THEN Thin
                                          ELSE [monitor |-> Old(heap.classLock[c])]]
    BY DEF Init
  <1>5. ASSUME NEW a \in Addresses
        PROVE  (IF heap.lock[a[1]] = Thin \/ a[2] = 1 THEN Thin
                ELSE [monitor |-> Old(heap.lock[a[1]])]) \in Locks
    <2>1. heap.lock[a[1]] # Thin => Old(heap.lock[a[1]]) \in Addresses
      BY <1>1, AddressFacts, HeapFacts
    <2> QED
      BY <2>1 DEF Locks
  <1>6. ASSUME NEW c \in Classes
        PROVE  (IF heap.classLock[c] = Thin THEN Thin
                ELSE [monitor |-> Old(heap.classLock[c])]) \in Locks
    <2>1. heap.classLock[c] # Thin => Old(heap.classLock[c]) \in Addresses
      BY <1>1, AddressFacts, HeapFacts
    <2> QED
      BY <2>1 DEF Locks
  <1> QED
    BY <1>2, <1>3, <1>4, <1>5, <1>6

\* Initially every worker is idle and only the roots are marked.
LEMMA InitIInv == Init => IInv
  <1> SUFFICES ASSUME Init PROVE IInv
    OBVIOUS
  <1>1. /\ heap \in Heaps /\ queue = marked /\ scanned = {} /\ weakRefs = {}
        /\ \A w \in Workers : at[w] = "idle"
        /\ marked = {Old(o) : o \in heap.roots}
    BY DEF Init
  <1>2. heap.roots \subseteq Objects
    BY <1>1, HeapFacts
  <1>3. /\ \A o \in Objects : New(o) \notin marked /\ (Old(o) \in marked => o \in heap.roots)
        /\ \A a \in marked : a \in Addresses /\ a[1] \in heap.roots /\ a[2] = 0
    BY <1>1, <1>2, AddressFacts
  <1>4. \A a \in Addresses : header[a].bits = "none" /\ header[a].ptr = heap.class[a[1]]
    BY DEF Init
  <1>5. \A o \in Objects : /\ header[Old(o)].bits = "none" /\ header[Old(o)].ptr = heap.class[o]
                           /\ header[New(o)].bits = "none" /\ header[New(o)].ptr = heap.class[o]
    BY <1>4, AddressFacts
  <1>6. TypeOK
    <2>1. header \in [Addresses -> [bits : {"none", "being"}, ptr : Classes]
                                    \cup [bits : {"forwarded"}, ptr : Addresses]]
      BY <1>1, HeapFacts, AddressFacts DEF Init
    <2>2. /\ fields \in [Addresses -> Seq(Addresses \cup {Null})]
          /\ lockWord \in [Addresses -> Locks] /\ classLock \in [Classes -> Locks]
      BY InitMemory
    <2>3. /\ marked \subseteq Addresses /\ queue \subseteq marked /\ scanned \subseteq marked
          /\ weakRefs \subseteq Addresses
      BY <1>1, <1>3
    <2>4. /\ at = [w \in Workers |-> "idle"] /\ obj = [w \in Workers |-> Null]
          /\ slot = [w \in Workers |-> 1] /\ arg = [w \in Workers |-> Null]
          /\ back = [w \in Workers |-> "idle"] /\ target = [w \in Workers |-> Null]
      BY DEF Init
    <2> QED
      BY <1>1, <2>1, <2>2, <2>3, <2>4 DEF TypeOK
  <1>7. HeaderInv
    BY <1>3, <1>5 DEF HeaderInv, Forwarded
  <1>8. ClaimInv
    BY <1>1 DEF ClaimInv, Claimant
  <1>9. QueueInv
    BY <1>1, <1>2, <1>3 DEF QueueInv, Valid
  <1>10. DataInv
    <2>1. ASSUME NEW a \in Addresses
          PROVE  /\ Len(fields[a]) = Len(heap.fields[a[1]])
                 /\ lockWord[a] # Thin =>
                      /\ heap.lock[a[1]] \in Objects
                      /\ lockWord[a] = [monitor |-> Old(heap.lock[a[1]])]
                 /\ Written(a) /\ lockWord[a] = Thin => heap.lock[a[1]] = Thin
      <3>1. a[1] \in Objects /\ heap.lock[a[1]] \in Objects \cup {Thin}
        BY <1>1, AddressFacts, HeapFacts
      <3>2. heap.lock[a[1]] # Thin => Thin # [monitor |-> Old(heap.lock[a[1]])]
        <4>1. ASSUME heap.lock[a[1]] # Thin, NEW r, r = [monitor |-> Old(heap.lock[a[1]])]
              PROVE  r # Thin
          <5>1. r \in [monitor : Addresses]
            BY <3>1, <4>1, AddressFacts
          <5> QED
            BY <5>1, NamesAssumption
        <4> QED
          BY <4>1
      <3>3. Written(a) => a[2] # 1
        BY <1>3 DEF Written
      <3> QED
        BY <3>1, <3>2, <3>3, InitMemory
    <2>2. ASSUME NEW a \in Addresses, NEW i \in 1..Len(heap.fields[a[1]])
          PROVE  /\ fields[a][i] # Null =>
                      Valid(fields[a][i]) /\ fields[a][i][1] = heap.fields[a[1]][i]
                 /\ Written(a) /\ fields[a][i] = Null => heap.fields[a[1]][i] = Null
      <3>1. PICK f : f = heap.fields[a[1]][i]
        OBVIOUS
      <3>2. f \in Objects \cup {Null}
        BY <1>1, <3>1, AddressFacts, HeapFacts
      <3>3. fields[a][i] = IF f = Null \/ a[2] = 1 THEN Null ELSE Old(f)
        BY <3>1, InitMemory
      <3>4. Written(a) => a[2] # 1
        BY <1>3 DEF Written
      <3>5. f # Null => Valid(Old(f)) /\ Old(f)[1] = f /\ Old(f) # Null
        BY <3>2, AddressFacts, NamesAssumption DEF Valid
      <3> QED
        BY <3>1, <3>3, <3>4, <3>5
    <2> QED
      BY <2>1, <2>2 DEF DataInv
  <1>11. ClassLockInv
    <2>1. ASSUME NEW c \in Classes
          PROVE  /\ classLock[c] = Thin => heap.classLock[c] = Thin
                 /\ classLock[c] # Thin =>
                      /\ Valid(classLock[c].monitor)
                      /\ classLock[c].monitor[1] = heap.classLock[c]
      <3>1. heap.classLock[c] \in Objects \cup {Thin}
        BY <1>1, HeapFacts
      <3>2. CASE heap.classLock[c] = Thin
        BY <3>2, InitMemory
      <3>3. CASE heap.classLock[c] # Thin
        <4>1. PICK m, r : m = Old(heap.classLock[c]) /\ r = [monitor |-> m]
          OBVIOUS
        <4>2. m \in Addresses /\ Valid(m) /\ m[1] = heap.classLock[c]
          BY <3>1, <3>3, <4>1, AddressFacts DEF Valid
        <4>3. r \in [monitor : Addresses] /\ r.monitor = m
          BY <4>1, <4>2
        <4>4. r # Thin
          BY <4>3, NamesAssumption
        <4>5. classLock[c] = r
          BY <3>3, <4>1, InitMemory
        <4> QED
          BY <4>2, <4>3, <4>4, <4>5
      <3> QED
        BY <3>2, <3>3
    <2> QED
      BY <2>1 DEF ClassLockInv
  <1>12. WorkerInv /\ ScannedInv /\ WeakInv /\ RttiReadsAligned
    BY <1>1 DEF WorkerInv, ScannedInv, WeakInv, RttiReadsAligned
  <1>13. OnlyReachableMarked /\ StayInv
    <2>1. OnlyReachableMarked
      BY <1>3 DEF OnlyReachableMarked
    <2>2. StayInv
      BY <1>2, <1>3, <1>1, HeapFacts DEF StayInv
    <2> QED
      BY <2>1, <2>2
  <1> QED
    BY <1>6, <1>7, <1>8, <1>9, <1>10, <1>11, <1>12, <1>13 DEF IInv

\* A step that changes nothing.
LEMMA StutterStep == IInv /\ UNCHANGED vars => IInv'
  <1> SUFFICES ASSUME IInv, UNCHANGED vars PROVE IInv'
    OBVIOUS
  <1>1. /\ TypeOK /\ HeaderInv /\ ClaimInv /\ QueueInv /\ DataInv /\ ClassLockInv /\ WorkerInv
        /\ ScannedInv /\ WeakInv /\ OnlyReachableMarked /\ StayInv /\ RttiReadsAligned
    BY DEF IInv
  <1>2. /\ UNCHANGED <<heap, header, fields, lockWord, classLock, marked, queue, scanned>>
        /\ UNCHANGED <<weakRefs, at, obj, slot, arg, back, target>>
    BY DEF vars
  <1>3. TypeOK'
    BY <1>1, <1>2 DEF TypeOK, Locks
  <1>4. HeaderInv' /\ ClaimInv'
    BY <1>1, <1>2 DEF HeaderInv, ClaimInv, Forwarded, Claimant, Moving
  <1>5. Grows /\ Lasts /\ SlotsLast
    BY <1>1, <1>2, GrowsLasts, SlotsKept DEF Grows, HeaderInv, Forwarded
  <1>6. QueueInv'
    BY <1>1, <1>2 DEF QueueInv, Valid, Forwarded
  <1>7. DataInv' /\ ClassLockInv' /\ WeakInv'
    BY <1>1, <1>2, <1>5, DataLasts, ClassesLast, WeakLasts
  <1>8. WorkerInv'
    <2>1. ASSUME NEW w \in Workers PROVE Others(w)
      BY <1>2 DEF Others
    <2>2. ASSUME NEW v \in Workers, at'[v] \notin {"idle", "undefined"} PROVE Relies(v)'
      <3>1. PICK p, b, o, s, x, t :
              /\ p = at[v] /\ b = back[v] /\ o = obj[v]
              /\ s = slot[v] /\ x = arg[v] /\ t = target[v]
              /\ LocalOK(p, b, o, s, x, t)
        BY <1>1, <1>2, <2>2, ReliesFacts DEF WorkersRely, Relies
      <3>2. LocalOK(p, b, o, s, x, t)'
        BY <1>1, <1>5, <3>1, LocalLasts
      <3> QED
        BY <1>2, <3>1, <3>2 DEF Relies
    <2>3. CASE Workers = {}
      BY <2>3 DEF WorkerInv
    <2>4. CASE Workers # {}
      BY <1>1, <1>5, <2>1, <2>2, <2>4, WorkerLasts
    <2> QED
      BY <2>3, <2>4
  <1>9. ScannedInv'
    <2>1. ASSUME NEW a \in scanned
          PROVE  \/ heap'.class[a[1]] \in PrimitiveArrays
                 \/ \E v \in Workers : at'[v] # "idle" /\ obj'[v] = a
                 \/ \A i \in Slots(a)' : SlotDone(a, i)'
      BY <1>1, <1>2, <1>5 DEF ScannedInv, SlotsLast, Slots
    <2> QED
      BY <1>2, <2>1 DEF ScannedInv
  <1>10. OnlyReachableMarked' /\ StayInv' /\ RttiReadsAligned'
    BY <1>1, <1>2, <1>5
    DEF OnlyReachableMarked, StayInv, RttiReadsAligned, Uncontended, Lasts
  <1> QED
    BY <1>3, <1>4, <1>6, <1>7, <1>8, <1>9, <1>10 DEF IInv

\* Every step keeps the invariant.
LEMMA StepIInv == IInv /\ [Next]_vars => IInv'
  <1> SUFFICES ASSUME IInv, [Next]_vars PROVE IInv'
    OBVIOUS
  <1>1. ASSUME NEW w \in Workers, Work(w) PROVE IInv'
    <2>1. CASE \E a \in Addresses : ScanObject(w, a)
      BY <2>1, ScanObjectStep
    <2>2. CASE SkipField(w)
      BY <2>2, SkipFieldStep
    <2>3. CASE TraceField(w)
      BY <2>3, TraceFieldStep
    <2>4. CASE EndObject(w)
      BY <2>4, EndObjectStep
    <2>5. CASE TraceClassLock(w)
      BY <2>5, TraceClassLockStep
    <2>6. CASE StoreClassLock(w)
      BY <2>6, StoreClassLockStep
    <2>7. CASE TraceObjectLock(w)
      BY <2>7, TraceObjectLockStep
    <2>8. CASE StoreObjectLock(w)
      BY <2>8, StoreObjectLockStep
    <2>9. CASE StoreField(w)
      BY <2>9, StoreFieldStep
    <2>10. CASE TraceInPlace(w)
      BY <2>10, TraceInPlaceStep
    <2>11. CASE Claim(w)
      BY <2>11, ClaimStep
    <2>12. CASE Spin(w)
      BY <2>12, SpinStep
    <2>13. CASE KeepInPlace(w)
      BY <2>13, KeepInPlaceStep
    <2>14. CASE Copy(w)
      BY <2>14, CopyStep
    <2>15. CASE Forward(w)
      BY <2>15, ForwardStep
    <2>16. CASE Misread(w)
      BY <2>16, MisreadStep
    <2> QED
      BY <1>1, <2>1, <2>2, <2>3, <2>4, <2>5, <2>6, <2>7, <2>8, <2>9, <2>10, <2>11, <2>12,
         <2>13, <2>14, <2>15, <2>16 DEF Work
  <1>2. CASE UNCHANGED vars
    BY <1>2, StutterStep
  <1> QED
    BY <1>1, <1>2 DEF Next

\* The invariant holds throughout the collection.
THEOREM Invariance == Spec => []IInv
  <1> QED
    BY InitIInv, StepIInv, PTL DEF Spec

\* Every variable keeps its type: no worker stores anything but an address in a
\* slot or a lock word.
THEOREM TypeCorrect == Spec => []TypeOK
  <1>1. IInv => TypeOK
    BY DEF IInv
  <1> QED
    BY <1>1, Invariance, PTL

\* If there is space for all copies and nothing points to a pinned root in an
\* evacuated block, no rtti pointer is dereferenced with forwarding bits in it.
THEOREM RttiCorrect == Spec => []RttiReadsAligned
  <1>1. IInv => RttiReadsAligned
    BY DEF IInv
  <1> QED
    BY <1>1, Invariance, PTL

\* Only what the roots reach is marked.
THEOREM OnlyReachableCorrect == Spec => []OnlyReachableMarked
  <1>1. IInv => OnlyReachableMarked
    BY DEF IInv
  <1> QED
    BY <1>1, Invariance, PTL

\* When tracing is over all that is traced has been scanned, where it is now.
LEMMA DoneFacts ==
    ASSUME IInv, Done
    PROVE  /\ scanned = marked /\ scanned \subseteq Addresses
           /\ \A o \in Objects : Traced(o) <=> Where(o) \in scanned
           /\ \A o \in Objects : Where(o) \in scanned =>
                Where(o) \in Addresses /\ Where(o)[1] = o
           /\ \A a \in scanned : heap.class[a[1]] \notin PrimitiveArrays =>
                \A i \in Slots(a) : SlotDone(a, i)
  <1>1. TypeOK /\ HeaderInv /\ QueueInv /\ ScannedInv /\ heap \in Heaps
    BY DEF IInv, TypeOK
  <1>2. queue = {} /\ \A w \in Workers : at[w] = "idle"
    BY DEF Done
  <1>3. scanned = marked /\ scanned \subseteq Addresses
    BY <1>1, <1>2 DEF QueueInv, TypeOK
  <1>4. \A o \in Objects : header[Old(o)].bits # "being"
    BY <1>1, <1>2 DEF HeaderInv, Claimant
  <1>5. header \in [Addresses -> HeaderRecords]
    BY <1>1 DEF TypeOK, HeaderRecords
  <1>6. ASSUME NEW o \in Objects
        PROVE  /\ Where(o) \in Addresses /\ Where(o)[1] = o
               /\ Traced(o) <=> Where(o) \in scanned
    <2>1. header[Old(o)] \in HeaderRecords
      BY <1>5, AddressFacts
    <2>2. header[Old(o)].bits \in {"none", "forwarded"}
      BY <1>4, <2>1 DEF HeaderRecords
    <2>3. CASE header[Old(o)].bits = "none"
      BY <1>1, <1>3, <2>3, AddressFacts DEF HeaderInv, Where, Traced
    <2>4. CASE header[Old(o)].bits = "forwarded"
      BY <1>1, <1>3, <2>4, AddressFacts DEF HeaderInv, Forwarded, Where, Traced
    <2> QED
      BY <2>2, <2>3, <2>4
  <1>7. \A a \in scanned : heap.class[a[1]] \notin PrimitiveArrays =>
          \A i \in Slots(a) : SlotDone(a, i)
    BY <1>1, <1>2 DEF ScannedInv
  <1> QED
    BY <1>3, <1>6, <1>7

\* The slot that makes an object one of the referents of another.
LEMMA ReferentSlot ==
    ASSUME heap \in Heaps, NEW o \in Objects, NEW q \in Referents(o)
    PROVE  /\ heap.class[o] \notin PrimitiveArrays /\ q \in Objects
           /\ \E i \in 1..Len(heap.fields[o]) :
                /\ q = heap.fields[o][i] /\ q # Null
                /\ ~(heap.class[o] \in WeakClasses /\ i = WeakField)
  <1>1. heap.class[o] \notin PrimitiveArrays
    BY DEF Referents
  <1>2. PICK f : f = heap.fields[o]
    OBVIOUS
  <1>3. DOMAIN f = 1..Len(f) /\ \A i \in 1..Len(f) : f[i] \in Objects \cup {Null}
    BY <1>2, HeapFacts, LenProperties
  <1>4. \E i \in DOMAIN f : /\ q = f[i] /\ q # Null
                            /\ ~(heap.class[o] \in WeakClasses /\ i = WeakField)
    BY <1>1, <1>2 DEF Referents
  <1> QED
    BY <1>1, <1>2, <1>3, <1>4

\* When tracing is over the roots have been scanned, and with what a scanned
\* object points to its monitors.
LEMMA DoneReferents ==
    ASSUME IInv, Done
    PROVE  /\ \A o \in heap.roots : Where(o) \in scanned
           /\ \A o \in Objects : Where(o) \in scanned =>
                \A q \in Referents(o) :
                  Where(q) \in scanned /\ \A m \in Monitors(q) : Where(m) \in scanned
  <1>1. QueueInv /\ heap \in Heaps
    BY DEF IInv, TypeOK
  <1>2. ASSUME NEW o \in heap.roots PROVE Where(o) \in scanned
    BY <1>1, DoneFacts, HeapFacts DEF QueueInv, Traced
  <1>3. ASSUME NEW o \in Objects, Where(o) \in scanned, NEW q \in Referents(o)
        PROVE  Where(q) \in scanned /\ \A m \in Monitors(q) : Where(m) \in scanned
    <2>1. PICK i \in 1..Len(heap.fields[o]) :
            /\ q = heap.fields[o][i] /\ q # Null /\ q \in Objects
            /\ heap.class[o] \notin PrimitiveArrays
            /\ ~(heap.class[o] \in WeakClasses /\ i = WeakField)
      BY <1>1, <1>3, ReferentSlot
    <2>2. PICK a : a = Where(o)
      OBVIOUS
    <2>3. a \in scanned /\ a[1] = o
      BY <1>3, <2>2, DoneFacts
    <2>4. SlotDone(a, i) /\ IsFollowed(a, i)
      BY <2>1, <2>3, DoneFacts DEF Slots, IsFollowed
    <2>5. Current(fields[a][i]) /\ LockTraced(q) /\ ClassTraced(heap.class[q])
      BY <2>1, <2>3, <2>4 DEF SlotDone
    <2>6. Where(q) \in scanned
      <3>1. QueueInv /\ DataInv /\ TypeOK /\ HeaderInv /\ a \in Addresses
        BY <2>3 DEF IInv, TypeOK
      <3>2. PICK y : y = fields[a][i]
        OBVIOUS
      <3>3. y \in marked /\ y = Where(y[1]) /\ y \in Addresses
        BY <2>5, <3>1, <3>2 DEF Current, TypeOK
      <3>4. y # Null
        BY <3>3, NamesAssumption
      <3>5. y[1] = q
        BY <2>1, <2>3, <3>1, <3>2, <3>4 DEF DataInv
      <3> QED
        BY <3>3, <3>5, DoneFacts
    <2>7. heap.class[q] \in Classes
      BY <1>1, <2>1, HeapFacts
    <2> QED
      BY <1>1, <2>1, <2>5, <2>6, <2>7, DoneFacts, HeapFacts
      DEF LockTraced, ClassTraced, Monitors
  <1> QED
    BY <1>2, <1>3

\* When tracing is over the roots have been scanned, and with each object all it
\* leads to, but for the monitors of one that is kept only as a monitor.
THEOREM ReachableCorrect == Spec => []ReachableScanned
  <1>1. IInv => ReachableScanned
    <2> SUFFICES ASSUME IInv, Done, NEW o \in Objects, Where(o) \in scanned,
                        NEW q \in LeadsTo(o), ~KeptAsMonitor(o) \/ q \notin Monitors(o)
                 PROVE  Where(q) \in scanned
      BY DoneReferents DEF ReachableScanned
    <2>1. heap \in Heaps
      BY DEF IInv, TypeOK
    <2>2. CASE q \in Referents(o)
      BY <2>2, DoneReferents
    <2>3. CASE q \in Monitors(o) /\ o \in heap.roots
      BY <2>1, <2>3, DoneReferents, HeapFacts
    <2>4. CASE q \in Monitors(o) /\ o \notin heap.roots
      <3>1. PICK p \in Objects : Where(p) \in scanned /\ o \in Referents(p)
        BY <2>4 DEF KeptAsMonitor
      <3> QED
        BY <2>4, <3>1, DoneReferents
    <2> QED
      BY <2>2, <2>3, <2>4 DEF LeadsTo
  <1> QED
    BY <1>1, Invariance, PTL

\* No monitor has a monitor, but for the roots'.
FlatMonitors == \A o \in Objects : \A m \in Monitors(o) \ heap.roots : Monitors(m) = {}

\* Everything the roots reach has been scanned when tracing is over.
AllScanned ==
    Done => /\ \A o \in heap.roots : Where(o) \in scanned
            /\ \A o \in Objects : Where(o) \in scanned =>
                 \A q \in LeadsTo(o) : Where(q) \in scanned

\* A heap in which no monitor has a monitor loses nothing: what is left out of
\* ReachableScanned is all that mmtk_scan_lock_words_and_trace_edges misses.
THEOREM FlatCorrect == Spec => [](FlatMonitors => AllScanned)
  <1>1. IInv => (FlatMonitors => AllScanned)
    <2> SUFFICES ASSUME IInv, FlatMonitors, Done, NEW o \in Objects, Where(o) \in scanned,
                        NEW q \in LeadsTo(o)
                 PROVE  Where(q) \in scanned
      BY DoneReferents DEF AllScanned
    <2>1. /\ heap \in Heaps /\ OnlyReachableMarked /\ scanned \subseteq marked
          /\ heap.roots \subseteq Objects
      BY HeapFacts DEF IInv, TypeOK
    <2> DEFINE S == {p \in Objects :
                       /\ Where(p) \in scanned
                       /\ \/ p \in heap.roots
                          \/ \E r \in Objects : Where(r) \in scanned /\ p \in LeadsTo(r)}
    <2>2. ASSUME NEW p \in S, NEW m \in LeadsTo(p) PROVE Where(m) \in scanned
      <3>1. CASE m \in Referents(p)
        BY <3>1, DoneReferents
      <3>2. CASE m \in Monitors(p) /\ p \in heap.roots
        BY <2>1, <3>2, DoneReferents, HeapFacts
      <3>3. CASE m \in Monitors(p) /\ p \notin heap.roots
        <4>1. PICK r \in Objects : Where(r) \in scanned /\ p \in LeadsTo(r)
          BY <3>3
        <4>2. p \in Referents(r)
          BY <3>3, <4>1 DEF LeadsTo, FlatMonitors
        <4> QED
          BY <3>3, <4>1, <4>2, DoneReferents
      <3> QED
        BY <3>1, <3>2, <3>3 DEF LeadsTo
    <2>3. \A p \in S : LeadsTo(p) \subseteq S
      BY <2>1, <2>2, LeadsToObjects
    <2>4. heap.roots \subseteq S
      BY <2>1, DoneReferents
    <2>5. o \in S
      <3>1. PICK a : a = Where(o)
        OBVIOUS
      <3>2. a \in marked /\ a[1] = o
        BY <2>1, <3>1, DoneFacts
      <3> HIDE DEF S
      <3>3. S \in SUBSET Objects
        BY DEF S
      <3> QED
        BY <2>1, <2>3, <2>4, <3>2, <3>3 DEF OnlyReachableMarked
    <2> QED
      BY <2>2, <2>5
  <1> QED
    BY <1>1, Invariance, PTL

\* When tracing is over every followed field of a scanned object has the address
\* where the object it pointed to is now.
THEOREM FieldsCorrect == Spec => []FieldsFollow
  <1>1. IInv => FieldsFollow
    <2> SUFFICES ASSUME IInv, Done, NEW o \in Objects, Where(o) \in scanned,
                        NEW i \in DOMAIN heap.fields[o], heap.fields[o][i] \in Referents(o),
                        ~(heap.class[o] \in WeakClasses /\ i = WeakField)
                 PROVE  fields[Where(o)][i] = Where(heap.fields[o][i])
      BY DEF FieldsFollow
    <2>1. DataInv /\ TypeOK /\ heap \in Heaps
      BY DEF IInv, TypeOK
    <2>2. PICK a, q : a = Where(o) /\ q = heap.fields[o][i]
      OBVIOUS
    <2>3. /\ a \in scanned /\ a \in Addresses /\ a[1] = o /\ q # Null
          /\ heap.class[o] \notin PrimitiveArrays
          /\ DOMAIN heap.fields[o] = 1..Len(heap.fields[o])
      BY <2>1, <2>2, DoneFacts, ReferentSlot, HeapFacts, LenProperties
    <2>4. Current(fields[a][i])
      <3>1. SlotDone(a, i) /\ IsFollowed(a, i)
        BY <2>2, <2>3, DoneFacts DEF Slots, IsFollowed
      <3> QED
        BY <3>1 DEF SlotDone
    <2>5. PICK y : y = fields[a][i]
      OBVIOUS
    <2>6. y = Where(y[1]) /\ y # Null
      BY <2>1, <2>4, <2>5, NamesAssumption DEF Current, TypeOK
    <2>7. y[1] = q
      BY <2>1, <2>2, <2>3, <2>5, <2>6 DEF DataInv
    <2> QED
      BY <2>2, <2>5, <2>6, <2>7
  <1> QED
    BY <1>1, Invariance, PTL

\* WEAK_REF_STACK names weak references where they are now, and in the end each
\* one that a followed field of a scanned object points to.
THEOREM WeakRefsCorrect == Spec => []WeakRefsCurrent
  <1>1. IInv => WeakRefsCurrent
    <2> SUFFICES ASSUME IInv PROVE WeakRefsCurrent
      OBVIOUS
    <2>1. DataInv /\ TypeOK /\ WeakInv /\ heap \in Heaps
      BY DEF IInv, TypeOK
    <2>2. \A a \in weakRefs : a = Where(a[1]) /\ heap.class[a[1]] \in WeakClasses
      BY <2>1 DEF WeakInv, Current
    <2>3. ASSUME Done, NEW o \in Objects, Where(o) \in scanned, NEW q \in Referents(o),
                 heap.class[q] \in WeakClasses
          PROVE  Where(q) \in weakRefs
      <3>1. PICK i \in 1..Len(heap.fields[o]) :
              /\ q = heap.fields[o][i] /\ q # Null
              /\ heap.class[o] \notin PrimitiveArrays
              /\ ~(heap.class[o] \in WeakClasses /\ i = WeakField)
        BY <2>1, ReferentSlot
      <3>2. PICK a : a = Where(o)
        OBVIOUS
      <3>3. a \in scanned /\ a \in Addresses /\ a[1] = o
        BY <2>3, <3>2, DoneFacts
      <3>4. SlotDone(a, i) /\ IsFollowed(a, i)
        BY <2>3, <3>1, <3>3, DoneFacts DEF Slots, IsFollowed
      <3>5. PICK y : y = fields[a][i]
        OBVIOUS
      <3>6. Current(y) /\ y \in weakRefs
        BY <2>3, <3>1, <3>3, <3>4, <3>5 DEF SlotDone
      <3>7. y = Where(y[1]) /\ y # Null
        BY <2>1, <3>6, NamesAssumption DEF Current, TypeOK
      <3>8. y[1] = q
        BY <2>1, <3>1, <3>3, <3>5, <3>7 DEF DataInv
      <3> QED
        BY <3>6, <3>7, <3>8
    <2> QED
      BY <2>2, <2>3 DEF WeakRefsCurrent
  <1> QED
    BY <1>1, Invariance, PTL

\* Workers never wait for each other in a circle: when one spins on a claim,
\* another holds it, and that one is at a step that waits for nothing.
SpinsForHolder ==
    \A w \in Workers :
      at[w] = "spin" /\ header[arg[w]].bits = "being" =>
        \E v \in Workers \ {w} : at[v] \in {"claimed", "copied"} /\ arg[v] = arg[w]

\* The loop in which the loser of a claim waits (trace_object) is always waiting
\* for a worker that can go on, whatever the heap and however many workers.
THEOREM NoSpinDeadlock == Spec => []SpinsForHolder
  <1>1. IInv => SpinsForHolder
    <2> SUFFICES ASSUME IInv, NEW w \in Workers, at[w] = "spin",
                        header[arg[w]].bits = "being"
                 PROVE  \E v \in Workers \ {w} :
                          at[v] \in {"claimed", "copied"} /\ arg[v] = arg[w]
      BY DEF SpinsForHolder
    <2>1. HeaderInv /\ ClaimInv
      BY DEF IInv
    <2>2. PICK o : o = arg[w][1]
      OBVIOUS
    <2>3. o \in Objects /\ arg[w] = Old(o)
      BY <2>1, <2>2, MovingFacts DEF ClaimInv, InTrace
    <2>4. PICK v \in Workers : Claimant(v, o)
      BY <2>1, <2>3 DEF HeaderInv
    <2> QED
      BY <2>3, <2>4 DEF Claimant
  <1> QED
    BY <1>1, Invariance, PTL

-----------------------------------------------------------------------------
(* Tracing implements LiveObjects.                                         *)

\* A step that leaves the heap and the marks alone leaves LiveObjects alone.
LEMMA KeptAlone ==
    ASSUME UNCHANGED <<heap, marked>>
    PROVE  UNCHANGED LiveObjects!live
  BY DEF LiveObjects!live, Follows, LeadsTo, Referents, Monitors

\* A step that marks an object at one address, being marked at neither, keeps it
\* for LiveObjects, if something kept leads to it.
LEMMA KeptOnce ==
    ASSUME TypeOK, heap' = heap, NEW o \in Objects, NEW i \in {0, 1}, FollowedNow(o),
           Old(o) \notin marked, New(o) \notin marked, i = 1 => o \in heap.moving,
           marked' = marked \cup {<<o, i>>}
    PROVE  LiveObjects!Next
  <1>1. PICK a \in marked : o \in LeadsTo(a[1])
    BY DEF FollowedNow
  <1>2. a[1] \in Objects
    BY AddressFacts DEF TypeOK
  <1>3. o \in Follows[a[1]]
    BY <1>1, <1>2 DEF Follows
  <1>4. Follows' = Follows
    BY DEF Follows, LeadsTo, Referents, Monitors
  <1>5. \A j \in {0, 1} : <<o, j>> \notin marked
    BY DEF Old, New
  <1>6. LiveObjects!Keep(o, i)
    BY <1>2, <1>3, <1>4, <1>5 DEF LiveObjects!Keep
  <1> QED
    BY <1>6 DEF LiveObjects!Next

\* Every step of tracing is a step of LiveObjects or leaves it alone.
LEMMA KeptStep ==
    IInv /\ [Next]_vars => [LiveObjects!Next]_(LiveObjects!live)
  <1> SUFFICES ASSUME IInv, [Next]_vars
               PROVE  LiveObjects!Next \/ UNCHANGED LiveObjects!live
    BY DEF LiveObjects!live
  <1>1. TypeOK /\ HeaderInv
    BY DEF IInv
  <1>2. ASSUME NEW w \in Workers, TraceInPlace(w)
        PROVE  LiveObjects!Next \/ UNCHANGED LiveObjects!live
    <2>1. /\ heap' = heap /\ marked' = marked \cup {arg[w]} /\ at[w] = "trace"
          /\ ~Moving(arg[w])
      BY <1>2 DEF TraceInPlace
    <2>2. /\ arg[w] \in Addresses /\ Valid(arg[w]) /\ arg[w][1] \in Objects
          /\ FollowedNow(arg[w][1])
      BY <2>1, TraceFacts DEF InTrace
    <2>3. PICK o : o = arg[w][1]
      OBVIOUS
    <2>4. CASE arg[w] \in marked
      BY <2>1, <2>4, KeptAlone
    <2>5. CASE arg[w] = New(o)
      BY <1>1, <2>1, <2>2, <2>3, <2>4, <2>5, AddressFacts DEF Valid, HeaderInv
    <2>6. CASE arg[w] = Old(o) /\ Old(o) \notin marked
      <3>1. o \notin heap.moving
        BY <2>1, <2>2, <2>3, <2>6, AddressFacts DEF Moving
      <3>2. New(o) \notin marked
        BY <1>1, <2>2, <2>3, <3>1 DEF HeaderInv
      <3>3. marked' = marked \cup {<<o, 0>>}
        BY <2>1, <2>6 DEF Old
      <3> QED
        BY <1>1, <2>1, <2>2, <2>3, <2>6, <3>2, <3>3, KeptOnce
    <2> QED
      BY <2>2, <2>3, <2>4, <2>5, <2>6, AddressFacts
  <1>3. ASSUME NEW w \in Workers, KeepInPlace(w)
        PROVE  LiveObjects!Next \/ UNCHANGED LiveObjects!live
    <2>1. /\ heap' = heap /\ marked' = marked \cup {arg[w]} /\ at[w] = "claimed"
      BY <1>3 DEF KeepInPlace
    <2>2. PICK o : o = arg[w][1]
      OBVIOUS
    <2>3. o \in Objects /\ arg[w] = Old(o) /\ FollowedNow(o) /\ New(o) \notin marked
      BY <2>1, <2>2, ClaimantFacts
    <2>4. CASE arg[w] \in marked
      BY <2>1, <2>4, KeptAlone
    <2>5. CASE arg[w] \notin marked
      <3>1. marked' = marked \cup {<<o, 0>>} /\ Old(o) \notin marked
        BY <2>1, <2>3, <2>5 DEF Old
      <3> QED
        BY <1>1, <2>1, <2>3, <3>1, KeptOnce
    <2> QED
      BY <2>4, <2>5
  <1>4. ASSUME NEW w \in Workers, Copy(w) PROVE LiveObjects!Next
    <2>1. /\ heap' = heap /\ marked' = marked \cup {New(arg[w][1])} /\ at[w] = "claimed"
          /\ arg[w] \notin marked
      BY <1>4 DEF Copy
    <2>2. PICK o : o = arg[w][1]
      OBVIOUS
    <2>3. /\ o \in Objects /\ o \in heap.moving /\ arg[w] = Old(o) /\ FollowedNow(o)
          /\ New(o) \notin marked
      BY <2>1, <2>2, ClaimantFacts
    <2>4. marked' = marked \cup {<<o, 1>>} /\ Old(o) \notin marked
      BY <2>1, <2>2, <2>3 DEF New
    <2> QED
      BY <1>1, <2>1, <2>3, <2>4, KeptOnce
  <1>5. ASSUME NEW w \in Workers, Work(w),
               ~TraceInPlace(w), ~KeepInPlace(w), ~Copy(w)
        PROVE  UNCHANGED LiveObjects!live
    <2>1. UNCHANGED <<heap, marked>>
      BY <1>5
      DEF Work, ScanObject, SkipField, TraceField, EndObject, TraceClassLock,
          StoreClassLock, TraceObjectLock, StoreObjectLock, StoreField, Claim, Spin,
          Forward, Misread, Undefined, core
    <2> QED
      BY <2>1, KeptAlone
  <1>6. CASE UNCHANGED vars
    BY <1>6, KeptAlone DEF vars
  <1> QED
    BY <1>2, <1>3, <1>4, <1>5, <1>6 DEF Next

\* The roots of a heap are kept at their first address.
LEMMA KeptInit == Init => LiveObjects!Init
  <1> SUFFICES ASSUME Init PROVE LiveObjects!Init
    OBVIOUS
  <1>1. heap \in Heaps /\ marked = {Old(o) : o \in heap.roots}
    BY DEF Init
  <1>2. heap.roots \in SUBSET Objects /\ heap.moving \in SUBSET Objects
    BY <1>1, HeapFacts
  <1>3. Follows \in [Objects -> SUBSET Objects]
    BY <1>1, LeadsToObjects DEF Follows
  <1>4. marked = heap.roots \X {0}
    BY <1>1 DEF Old
  <1> QED
    BY <1>2, <1>3, <1>4 DEF LiveObjects!Init

\* Tracing keeps each object once, at one address, and only because something
\* kept leads to it, for any heap and any number of workers.
THEOREM ImplementsLive == Spec => Kept
  <1> QED
    BY KeptInit, KeptStep, Invariance, PTL DEF Spec, Kept, LiveObjects!Spec
===============================================================================
