-------------------------- MODULE ObjectLayoutProofs --------------------------
(***************************************************************************)
(* Proofs about ObjectLayout, for every word size, alignment, table of     *)
(* classes and object that its assumptions allow.                          *)
(***************************************************************************)
EXTENDS ObjectLayout, TLAPS

-----------------------------------------------------------------------------
(* Arithmetic of the helpers.                                              *)

\* A product of two factors is bounded by the square of their bound.
LEMMA ProductBound ==
    ASSUME NEW m \in Nat, NEW a \in 0..m, NEW b \in 0..m
    PROVE  a * b \in Nat /\ a * b <= m * m
  OBVIOUS

\* What is less than the modulus is its own remainder.
LEMMA SmallMod ==
    ASSUME NEW v \in Nat, NEW m \in Nat, v < m
    PROVE  v % m = v
  OBVIOUS

\* Quotient and remainder.
LEMMA Division ==
    ASSUME NEW v \in Nat, NEW m \in Nat \ {0}
    PROVE  /\ v \div m \in Nat /\ v % m \in 0..(m - 1)
           /\ v = m * (v \div m) + (v % m)
  OBVIOUS

\* A multiple leaves no remainder.
LEMMA MultipleMod ==
    ASSUME NEW q \in Nat, NEW m \in Nat \ {0}
    PROVE  (q * m) % m = 0
  OBVIOUS

\* A multiple and a little more leaves that.
LEMMA RestMod ==
    ASSUME NEW v \in Nat, NEW m \in Nat \ {0}, NEW b \in Nat, v % m = 0, b < m
    PROVE  (v + b) % m = b
  OBVIOUS

\* round_to_next_multiple returns the least multiple that is not less than its
\* argument, if the sum does not wrap (abi.rs:97-99).
THEOREM RoundsUp ==
    ASSUME NEW value \in Nat, NEW multiple \in Nat \ {0},
           WordMod \in Nat, value + multiple <= WordMod
    PROVE  LET r == RoundToNextMultiple(value, multiple) IN
           /\ r \in Nat /\ r % multiple = 0
           /\ value <= r /\ r < value + multiple
  <1> DEFINE v == value + multiple - 1
             q == v \div multiple
  <1>1. v \in Nat /\ v < WordMod
    OBVIOUS
  <1>2. v % WordMod = v
    BY <1>1, SmallMod
  <1>3. RoundToNextMultiple(value, multiple) = q * multiple
    BY <1>2 DEF RoundToNextMultiple
  <1>4. /\ q \in Nat /\ v % multiple \in 0..(multiple - 1)
        /\ v = multiple * q + (v % multiple)
    BY <1>1, Division
  <1>5. q * multiple \in Nat /\ q * multiple = multiple * q
    BY <1>4
  <1>6. (q * multiple) % multiple = 0
    BY <1>4, MultipleMod
  <1>7. value <= q * multiple /\ q * multiple < value + multiple
    <2> HIDE DEF q
    <2> DEFINE p == multiple * q
    <2>1. p \in Int /\ v = p + (v % multiple)
      BY <1>4, <1>5
    <2> HIDE DEF p
    <2>2. value <= p /\ p < value + multiple
      BY <2>1, <1>4
    <2> QED
      BY <2>2, <1>5 DEF p
  <1> QED
    BY <1>3, <1>5, <1>6, <1>7

\* align_ptr gives the class whatever forwarding bits the header holds, and an
\* aligned address to itself (scanning.rs:197-202).
THEOREM AlignClears ==
    ASSUME NEW r \in DOMAIN Rttis, NEW b \in ForwardingBits
    PROVE  AlignPtr(r + b) = r
  <1>1. r \in Nat /\ r % Alignment = 0
    BY ClassAssumption
  <1>2. b \in Nat /\ b < Alignment /\ Alignment \in Nat \ {0}
    BY WordAssumption DEF ForwardingBits
  <1>3. (r + b) % Alignment = b
    BY <1>1, <1>2, RestMod
  <1> QED
    BY <1>1, <1>2, <1>3 DEF AlignPtr

\* is_ptr_aligned, asserted before a class is read (abi.rs:103), accepts a word
\* of a header exactly if it holds no forwarding bits (scanning.rs:190-195).
THEOREM AlignedIffClear ==
    ASSUME NEW r \in DOMAIN Rttis, NEW b \in ForwardingBits
    PROVE  IsPtrAligned(r + b) <=> b = 0
  <1>1. r \in Nat /\ b \in Nat
    BY ClassAssumption DEF ForwardingBits
  <1> QED
    BY <1>1, AlignClears DEF IsPtrAligned

-----------------------------------------------------------------------------
(* What copy reserves.                                                     *)

\* The bytes an object of class r occupies.
ExtentOf(o) == IF IsArrayId(Rttis[o.rtti]) THEN 24 + o.length * o.stride
               ELSE Rttis[o.rtti].size

\* The extent leaves room to round it up.
LEMMA ExtentFits ==
    ASSUME NEW o \in Objects
    PROVE  ExtentOf(o) \in Nat /\ ExtentOf(o) + Alignment <= WordMod
  <1>1. CASE IsArrayId(Rttis[o.rtti])
    <2>1. o.length \in 0..MaxInt /\ o.stride \in 0..MaxInt
      BY ObjectAssumption
    <2>2. /\ WordMod \in Nat /\ MaxInt \in Nat /\ Alignment \in Nat
          /\ 24 + MaxInt * MaxInt + Alignment <= WordMod
      BY WordAssumption
    <2> DEFINE p == o.length * o.stride
               s == MaxInt * MaxInt
    <2>3. p \in Nat /\ p <= s
      BY <2>1, <2>2, ProductBound
    <2>4. s \in Nat /\ 24 + s + Alignment <= WordMod
      BY <2>2
    <2> HIDE DEF p, s
    <2>5. 24 + p \in Nat /\ 24 + p + Alignment <= WordMod
      BY <2>2, <2>3, <2>4
    <2> QED
      BY <1>1, <2>5 DEF ExtentOf, p
  <1>2. CASE ~IsArrayId(Rttis[o.rtti])
    <2>1. Rttis[o.rtti].size \in 16..MaxInt
      BY ObjectAssumption, ClassAssumption
    <2>2. /\ WordMod \in Nat /\ MaxInt \in Nat /\ Alignment \in Nat
          /\ 24 + MaxInt + Alignment <= WordMod
      BY WordAssumption
    <2> QED
      BY <1>2, <2>1, <2>2 DEF ExtentOf
  <1> QED
    BY <1>1, <1>2

\* An array's size is its extent, rounded: nothing wraps (abi.rs:176-182).
LEMMA ArraySizeOf ==
    ASSUME NEW o \in Objects, IsArrayId(Rttis[o.rtti])
    PROVE  ArraySize(o) = RoundToNextMultiple(ExtentOf(o), Alignment)
  <1>1. o.length \in 0..MaxInt /\ o.stride \in 0..MaxInt
    BY ObjectAssumption
  <1>2. /\ WordMod \in Nat /\ MaxInt \in Nat /\ Alignment \in Nat \ {0}
        /\ 24 + MaxInt + Alignment <= WordMod
    BY WordAssumption
  <1>3. AsSize(o.length) = o.length /\ AsSize(o.stride) = o.stride
    BY <1>1, <1>2, SmallMod DEF AsSize
  <1> DEFINE p == o.length * o.stride
  <1>4. p \in Nat /\ 24 + p \in Nat /\ 24 + p + Alignment <= WordMod
    BY <1>1, <1>2, ProductBound, ExtentFits DEF ExtentOf
  <1>5. Elements(o) = p % WordMod
    BY <1>3 DEF Elements
  <1> HIDE DEF p
  <1>6. p < WordMod /\ 24 + p < WordMod
    BY <1>2, <1>4
  <1>7. p % WordMod = p
    BY <1>2, <1>4, <1>6, SmallMod
  <1>8. (24 + p) % WordMod = 24 + p
    BY <1>2, <1>4, <1>6, SmallMod
  <1> QED
    BY <1>5, <1>7, <1>8 DEF ArraySize, ExtentOf, p

\* The size of a plain object is that of its class.
LEMMA ClassSizeOf ==
    ASSUME NEW o \in Objects, ~IsArrayId(Rttis[o.rtti])
    PROVE  AsSize(Rttis[o.rtti].size) = ExtentOf(o)
  <1>1. ExtentOf(o) \in Nat /\ ExtentOf(o) + Alignment <= WordMod
    BY ExtentFits
  <1>2. WordMod \in Nat /\ Alignment \in Nat \ {0}
    BY WordAssumption
  <1>3. ExtentOf(o) % WordMod = ExtentOf(o)
    BY <1>1, <1>2, SmallMod
  <1> QED
    BY <1>3 DEF AsSize, ExtentOf

\* size_for_copy rounds the extent up, whatever forwarding bits the header
\* holds (abi.rs:124-131).
LEMMA SizeForCopyOf ==
    ASSUME NEW o \in Objects, NEW b \in ForwardingBits
    PROVE  SizeForCopy(o, o.rtti + b) = RoundToNextMultiple(ExtentOf(o), Alignment)
  <1>1. AlignPtr(o.rtti + b) = o.rtti
    BY ObjectAssumption, AlignClears
  <1> QED
    BY <1>1, ArraySizeOf, ClassSizeOf DEF SizeForCopy

\* size agrees where no forwarding bits are left (abi.rs:116-122).
LEMMA SizeOf ==
    ASSUME NEW o \in Objects
    PROVE  Size(o, o.rtti) = RoundToNextMultiple(ExtentOf(o), Alignment)
  BY ArraySizeOf, ClassSizeOf DEF Size

\* The rounded extent.
LEMMA Rounded ==
    ASSUME NEW o \in Objects
    PROVE  LET r == RoundToNextMultiple(ExtentOf(o), Alignment) IN
           /\ r \in 0..(WordMod - 1) /\ r % Alignment = 0
           /\ ExtentOf(o) <= r /\ r < ExtentOf(o) + Alignment
  <1>1. ExtentOf(o) \in Nat /\ ExtentOf(o) + Alignment <= WordMod
    BY ExtentFits
  <1>2. WordMod \in Nat /\ Alignment \in Nat \ {0}
    BY WordAssumption
  <1> DEFINE r == RoundToNextMultiple(ExtentOf(o), Alignment)
  <1>3. /\ r \in Nat /\ r % Alignment = 0
        /\ ExtentOf(o) <= r /\ r < ExtentOf(o) + Alignment
    BY <1>1, <1>2, RoundsUp
  <1> HIDE DEF r
  <1>4. r \in 0..(WordMod - 1)
    BY <1>1, <1>2, <1>3
  <1> QED
    BY <1>3, <1>4 DEF r

-----------------------------------------------------------------------------
(* What the scan visits: item j, from zero, is an element or a field.      *)

Items(o) ==
    CASE Rttis[o.rtti].kind = "objects" -> o.length
      [] Rttis[o.rtti].kind = "values" -> 0
      [] OTHER -> Len(Rttis[o.rtti].refMap) - 1

FieldOf(o, j) == Rttis[o.rtti].refMap[j + 1]

\* Where item j is, and whether it holds a reference to follow.
SlotOf(o, j) ==
    IF IsArrayId(Rttis[o.rtti]) THEN Element(j) ELSE GetFields(FieldOf(o, j))

Followed(o, j) ==
    IF IsArrayId(Rttis[o.rtti]) THEN o.words[j] # "null"
    ELSE /\ o.words[FieldOf(o, j)] # "null"
         /\ ~(Rttis[o.rtti].kind = "weak" /\ FieldOf(o, j) = WeakFieldOffset)

\* The slots of the first n items.
SlotsBefore(o, n) == {SlotOf(o, j) : j \in {k \in 0..(n - 1) : Followed(o, k)}}

\* The items number from zero and every one lies in the object.
LEMMA SlotInside ==
    ASSUME NEW o \in Objects, NEW j \in 0..(Items(o) - 1)
    PROVE  SlotOf(o, j) \in Nat /\ 16 <= SlotOf(o, j) /\ SlotOf(o, j) + 8 <= ExtentOf(o)
  <1> DEFINE class == Rttis[o.rtti]
  <1>1. /\ o.rtti \in DOMAIN Rttis /\ o.length \in Nat
        /\ class.kind \in {"plain", "weak", "objects", "values"}
        /\ class.kind = "objects" => o.stride = 8
    BY ObjectAssumption, ClassAssumption, WordAssumption
  <1>2. CASE class.kind = "objects"
    <2>1. j \in Nat /\ j < o.length
      BY <1>1, <1>2 DEF Items
    <2>2. SlotOf(o, j) = 24 + 8 * j
      BY <1>2 DEF SlotOf, Element, IsArrayId
    <2>3. ExtentOf(o) = 24 + o.length * 8
      BY <1>1, <1>2 DEF ExtentOf, IsArrayId
    <2> QED
      BY <1>1, <2>1, <2>2, <2>3
  <1>3. CASE class.kind = "values"
    BY <1>3 DEF Items
  <1>4. CASE class.kind \in {"plain", "weak"}
    <2>1. class.refMap \in Seq(Int) /\ Len(class.refMap) \in Nat
      BY <1>1, ClassAssumption
    <2>2. Items(o) = Len(class.refMap) - 1
      BY <1>4 DEF Items
    <2>3. j + 1 \in 1..(Len(class.refMap) - 1)
      BY <2>1, <2>2
    <2>4. /\ class.refMap[j + 1] \in Nat
          /\ 16 + 8 * class.refMap[j + 1] + 8 <= class.size
      BY <1>1, <2>3, ClassAssumption
    <2>5. SlotOf(o, j) = 16 + 8 * class.refMap[j + 1]
      BY <1>4 DEF SlotOf, GetFields, FieldOf, IsArrayId
    <2>6. ExtentOf(o) = class.size
      BY <1>4 DEF ExtentOf, IsArrayId
    <2> QED
      BY <2>4, <2>5, <2>6
  <1> QED
    BY <1>1, <1>2, <1>3, <1>4

\* Two items never share a slot.
LEMMA SlotsDiffer ==
    ASSUME NEW o \in Objects, NEW j \in 0..(Items(o) - 1), NEW k \in 0..(Items(o) - 1),
           SlotOf(o, j) = SlotOf(o, k)
    PROVE  j = k
  <1> DEFINE class == Rttis[o.rtti]
  <1>1. o.rtti \in DOMAIN Rttis /\ class.kind \in {"plain", "weak", "objects", "values"}
    BY ObjectAssumption, ClassAssumption
  <1>2. CASE IsArrayId(class)
    BY <1>2 DEF SlotOf, Element
  <1>3. CASE ~IsArrayId(class)
    <2>1. class.refMap \in Seq(Int) /\ Len(class.refMap) \in Nat /\ IsInjective(class.refMap)
      BY <1>1, ClassAssumption
    <2>2. Items(o) = Len(class.refMap) - 1
      BY <1>3 DEF Items, IsArrayId
    <2>3. /\ j + 1 \in 1..(Len(class.refMap) - 1) /\ k + 1 \in 1..(Len(class.refMap) - 1)
      BY <2>1, <2>2
    <2>4. class.refMap[j + 1] \in Nat /\ class.refMap[k + 1] \in Nat
      BY <1>1, <2>3, ClassAssumption
    <2>5. class.refMap[j + 1] = class.refMap[k + 1]
      BY <1>3, <2>4 DEF SlotOf, GetFields, FieldOf
    <2>6. j + 1 \in DOMAIN class.refMap /\ k + 1 \in DOMAIN class.refMap
      BY <2>1, <2>3
    <2>7. j + 1 = k + 1
      BY <2>1, <2>5, <2>6 DEF IsInjective
    <2> QED
      BY <2>7
  <1> QED
    BY <1>2, <1>3

\* One item more adds its slot, or nothing.
LEMMA OneMore ==
    ASSUME NEW o, NEW n \in Nat
    PROVE  SlotsBefore(o, n + 1) =
             SlotsBefore(o, n) \cup (IF Followed(o, n) THEN {SlotOf(o, n)} ELSE {})
  <1>1. 0..((n + 1) - 1) = 0..(n - 1) \cup {n}
    OBVIOUS
  <1>2. {k \in 0..((n + 1) - 1) : Followed(o, k)}
          = {k \in 0..(n - 1) : Followed(o, k)} \cup (IF Followed(o, n) THEN {n} ELSE {})
    BY <1>1
  <1> QED
    BY <1>2 DEF SlotsBefore

\* Appending a new member keeps a sequence without repetition.
LEMMA AppendNew ==
    ASSUME NEW s \in Seq(Nat), IsInjective(s), NEW x \in Nat, x \notin Range(s)
    PROVE  /\ Append(s, x) \in Seq(Nat) /\ IsInjective(Append(s, x))
           /\ Range(Append(s, x)) = Range(s) \cup {x}
  <1> DEFINE t == Append(s, x)
             n == Len(s)
  <1>1. /\ t \in Seq(Nat) /\ n \in Nat /\ DOMAIN s = 1..n /\ DOMAIN t = 1..(n + 1)
        /\ t[n + 1] = x /\ \A k \in 1..n : t[k] = s[k]
    OBVIOUS
  <1> HIDE DEF t, n
  <1>2. \A k \in 1..(n + 1) : k = n + 1 \/ k \in 1..n
    BY <1>1
  <1>3. \A k \in 1..n : s[k] # x
    BY <1>1 DEF Range
  <1>4. ASSUME NEW a \in DOMAIN t, NEW b \in DOMAIN t, t[a] = t[b]
        PROVE  a = b
    BY <1>1, <1>2, <1>3, <1>4 DEF IsInjective
  <1>5. IsInjective(t)
    BY <1>4 DEF IsInjective
  <1>6. Range(t) \subseteq Range(s) \cup {x}
    BY <1>1, <1>2 DEF Range
  <1>7. Range(s) \cup {x} \subseteq Range(t)
    <2>1. n + 1 \in 1..(n + 1) /\ \A k \in 1..n : k \in 1..(n + 1)
      BY <1>1
    <2> QED
      BY <1>1, <2>1 DEF Range
  <1> QED
    BY <1>1, <1>5, <1>6, <1>7 DEF t

\* The last items are the slots that hold references to follow.
LEMMA AllSlots ==
    ASSUME object \in Objects
    PROVE  SlotsBefore(object, Items(object)) = RefSlots
  <1> DEFINE o == object
             class == Rttis[o.rtti]
  <1>1. o.rtti \in DOMAIN Rttis /\ class.kind \in {"plain", "weak", "objects", "values"}
    BY ObjectAssumption, ClassAssumption
  <1>2. CASE class.kind = "objects"
    <2>1. /\ Items(o) = o.length
          /\ \A j : SlotOf(o, j) = Element(j)
          /\ \A j : Followed(o, j) <=> o.words[j] # "null"
      BY <1>2 DEF Items, SlotOf, Followed, IsArrayId
    <2>2. RefSlots =
            {Element(j) : j \in {k \in 0..(o.length - 1) : o.words[k] # "null"}}
      BY <1>2 DEF RefSlots
    <2> HIDE DEF o
    <2>3. SlotsBefore(o, Items(o)) =
            {Element(j) : j \in {k \in 0..(o.length - 1) : o.words[k] # "null"}}
      BY <2>1 DEF SlotsBefore
    <2> QED
      BY <2>2, <2>3 DEF o
  <1>3. CASE class.kind = "values"
    BY <1>3 DEF SlotsBefore, Items, RefSlots
  <1>4. CASE class.kind \in {"plain", "weak"}
    <2> DEFINE map == class.refMap
               n == Len(map)
    <2>1. /\ map \in Seq(Int) /\ n \in Nat /\ DOMAIN map = 1..n
          /\ map # <<>> /\ map[n] = LastFieldOffset
          /\ \A j \in 1..(n - 1) : map[j] \in Nat
      BY <1>1, ClassAssumption
    <2>2. n > 0
      BY <2>1
    <2>3. \A j \in 0..(n - 2) : j + 1 \in 1..n /\ map[j + 1] \in Range(map)
                                /\ map[j + 1] # LastFieldOffset
      <3> TAKE j \in 0..(n - 2)
      <3> HIDE DEF map, n, class
      <3>1. j + 1 \in 1..n /\ j + 1 \in 1..(n - 1)
        BY <2>1
      <3>2. map[j + 1] \in Range(map)
        BY <2>1, <3>1 DEF Range
      <3>3. map[j + 1] \in Nat
        BY <2>1, <3>1
      <3> QED
        BY <3>1, <3>2, <3>3 DEF LastFieldOffset
    <2>4. ASSUME NEW k \in Range(map) \ {LastFieldOffset}
          PROVE  \E j \in 0..(n - 2) : map[j + 1] = k
      <3>1. PICK l \in 1..n : map[l] = k
        BY <2>1 DEF Range
      <3>2. l # n
        BY <2>1, <3>1
      <3>3. l - 1 \in 0..(n - 2) /\ (l - 1) + 1 = l
        BY <2>1, <3>2
      <3> QED
        BY <3>1, <3>3
    <2>5. Items(o) - 1 = n - 2
      BY <1>4, <2>1 DEF Items
    <2>6. /\ \A j : SlotOf(o, j) = 16 + 8 * map[j + 1]
          /\ \A j : Followed(o, j) <=>
                 /\ o.words[map[j + 1]] # "null"
                 /\ ~(class.kind = "weak" /\ map[j + 1] = WeakFieldOffset)
      BY <1>4 DEF SlotOf, Followed, FieldOf, GetFields, IsArrayId
    <2>7. RefSlots = {16 + 8 * j : j \in {k \in Range(map) \ {LastFieldOffset} :
                        /\ o.words[k] # "null"
                        /\ ~(class.kind = "weak" /\ k = WeakFieldOffset)}}
      BY <1>4 DEF RefSlots
    <2>8. SlotsBefore(o, Items(o)) =
            {SlotOf(o, j) : j \in {k \in 0..(n - 2) : Followed(o, k)}}
      BY <2>5 DEF SlotsBefore
    <2> HIDE DEF map, n, class, o
    <2>9. RefSlots \subseteq SlotsBefore(o, Items(o))
      BY <2>4, <2>6, <2>7, <2>8
    <2>10. SlotsBefore(o, Items(o)) \subseteq RefSlots
      BY <2>3, <2>6, <2>7, <2>8
    <2> QED
      BY <2>9, <2>10 DEF o
  <1> QED
    BY <1>1, <1>2, <1>3, <1>4

-----------------------------------------------------------------------------
(* The inductive invariant: after i items the edges are the slots of those *)
(* that are followed, each once, and i does not pass the last item.        *)

ScanInv ==
    /\ at \in {"copy", "scan"} => i = 0
    /\ at = "elements" => Rttis[object.rtti].kind = "objects"
    /\ at = "fields" => Rttis[object.rtti].kind \in {"plain", "weak"}
    /\ at = "done" => i = Items(object)
    /\ i <= Items(object)
    /\ IsInjective(edges)
    /\ Range(edges) = SlotsBefore(object, i)
    /\ weakRefs \subseteq Range(edges)

IInv == TypeOK /\ SizeExact /\ ScanInv

\* The number of items is a natural number.
LEMMA ItemsNat == ASSUME NEW o \in Objects PROVE Items(o) \in Nat
  <1> DEFINE class == Rttis[o.rtti]
  <1>1. /\ o.rtti \in DOMAIN Rttis /\ o.length \in Nat
        /\ class.kind \in {"plain", "weak", "objects", "values"}
    BY ObjectAssumption, ClassAssumption, WordAssumption
  <1>2. CASE class.kind \in {"plain", "weak"}
    <2>1. Len(class.refMap) \in Nat /\ Len(class.refMap) > 0
      BY <1>1, ClassAssumption
    <2> QED
      BY <1>2, <2>1 DEF Items
  <1> QED
    BY <1>1, <1>2 DEF Items

\* Scanning one item keeps the invariant.
LEMMA ItemScanned ==
    ASSUME TypeOK, ScanInv, at \in {"elements", "fields"}, at' = at,
           i < Items(object), i' = i + 1, object' = object,
           edges' = IF Followed(object, i) THEN Append(edges, SlotOf(object, i))
                    ELSE edges,
           weakRefs' \subseteq
             weakRefs \cup (IF Followed(object, i) THEN {SlotOf(object, i)} ELSE {})
    PROVE  /\ ScanInv' /\ i' \in Nat
           /\ edges' \in Seq(Nat) /\ weakRefs' \subseteq Nat
  <1> DEFINE slot == SlotOf(object, i)
  <1>1. /\ object \in Objects /\ i \in Nat /\ edges \in Seq(Nat)
        /\ weakRefs \subseteq Nat /\ Items(object) \in Nat
    BY ItemsNat DEF TypeOK
  <1>2. i \in 0..(Items(object) - 1) /\ \A j \in 0..(i - 1) : j \in 0..(Items(object) - 1) /\ j # i
    BY <1>1
  <1>3. slot \in Nat
    BY <1>1, <1>2, SlotInside
  <1>4. slot \notin Range(edges)
    BY <1>1, <1>2, SlotsDiffer DEF ScanInv, SlotsBefore
  <1>5. /\ edges' \in Seq(Nat) /\ IsInjective(edges')
        /\ Range(edges') = Range(edges) \cup (IF Followed(object, i) THEN {slot} ELSE {})
    <2>1. CASE Followed(object, i)
      BY <1>1, <1>3, <1>4, <2>1, AppendNew DEF ScanInv
    <2>2. CASE ~Followed(object, i)
      BY <1>1, <2>2 DEF ScanInv
    <2> QED
      BY <2>1, <2>2
  <1>6. Range(edges') = SlotsBefore(object, i + 1)
    BY <1>1, <1>5, OneMore DEF ScanInv
  <1>7. weakRefs' \subseteq Range(edges') /\ weakRefs' \subseteq Nat
    BY <1>1, <1>3, <1>5 DEF ScanInv
  <1>8. i' <= Items(object) /\ i' \in Nat
    BY <1>1
  <1> QED
    BY <1>5, <1>6, <1>7, <1>8 DEF ScanInv

\* The class read by the scan is that of the object.
LEMMA ScanClass ==
    ASSUME TypeOK, at # "copy"
    PROVE  /\ bits = 0 /\ object.rtti \in DOMAIN Rttis /\ object.rtti + bits = object.rtti
           /\ Class = Rttis[object.rtti]
           /\ Rttis[object.rtti].kind \in {"plain", "weak", "objects", "values"}
  <1>1. bits = 0 /\ object.rtti \in DOMAIN Rttis /\ object.rtti \in Nat
        /\ Rttis[object.rtti].kind \in {"plain", "weak", "objects", "values"}
    BY ObjectAssumption, ClassAssumption DEF TypeOK
  <1> QED
    BY <1>1 DEF Class

\* Initially.
LEMMA InitInv == ASSUME Init PROVE IInv
  <1>1. object \in Objects /\ bits \in ForwardingBits /\ i = 0 /\ edges = <<>>
        /\ bytes = 0 /\ at = "copy" /\ weakRefs = {}
    BY DEF Init
  <1>2. Items(object) \in Nat
    BY <1>1, ItemsNat
  <1>3. WordMod \in Nat /\ WordMod > 0
    BY WordAssumption
  <1>4. TypeOK
    BY <1>1, <1>3 DEF TypeOK
  <1>5. Range(edges) = {} /\ SlotsBefore(object, i) = {} /\ IsInjective(edges)
    BY <1>1 DEF Range, SlotsBefore, IsInjective
  <1> QED
    BY <1>1, <1>2, <1>4, <1>5 DEF IInv, SizeExact, ScanInv

\* Every step keeps the invariant.
LEMMA NextInv == ASSUME IInv, [Next]_vars PROVE IInv'
  <1> USE DEF IInv
  <1>1. CASE Copy
    <2>1. /\ object' = object /\ bits' = 0 /\ at = "copy" /\ at' = "scan" /\ i' = i
          /\ edges' = edges /\ weakRefs' = weakRefs
          /\ bytes' = SizeForCopy(object, object.rtti + bits)
      BY <1>1 DEF Copy
    <2>2. object \in Objects /\ bits \in ForwardingBits
      BY DEF TypeOK
    <2> DEFINE r == RoundToNextMultiple(ExtentOf(object), Alignment)
    <2>3. bytes' = r
      BY <2>1, <2>2, SizeForCopyOf
    <2>4. /\ r \in 0..(WordMod - 1) /\ r % Alignment = 0
          /\ ExtentOf(object) <= r /\ r < ExtentOf(object) + Alignment
      BY <2>2, Rounded
    <2>5. Size(object, object.rtti) = r
      BY <2>2, SizeOf
    <2>6. object.rtti + 0 = object.rtti
      BY <2>2, ObjectAssumption, ClassAssumption
    <2>7. Extent' = ExtentOf(object)
      BY <2>1 DEF Extent, ExtentOf
    <2> HIDE DEF r
    <2>8. TypeOK'
      BY <2>1, <2>2, <2>3, <2>4 DEF TypeOK, ForwardingBits
    <2>9. Size(object, object.rtti + bits)' = r
      BY <2>1, <2>5, <2>6
    <2>10. SizeExact'
      BY <2>3, <2>4, <2>7, <2>9 DEF SizeExact
    <2>11. ScanInv'
      BY <2>1 DEF ScanInv
    <2> QED
      BY <2>8, <2>10, <2>11
  <1>2. ASSUME UNCHANGED <<object, bits, bytes>>, at # "copy", TypeOK' PROVE SizeExact'
    <2>1. Extent' = Extent /\ Size(object, object.rtti + bits)' = Size(object, object.rtti + bits)
      BY <1>2 DEF Extent
    <2> QED
      BY <1>2, <2>1 DEF SizeExact
  <1>3. CASE ObjIterate
    <2>1. /\ UNCHANGED <<object, bits, bytes, i, edges, weakRefs>> /\ at = "scan"
          /\ at' = IF ~IsArrayId(Class) THEN "fields"
                   ELSE IF Class.kind = "objects" THEN "elements" ELSE "done"
      BY <1>3 DEF ObjIterate
    <2>2. /\ Class = Rttis[object.rtti]
          /\ Rttis[object.rtti].kind \in {"plain", "weak", "objects", "values"}
      BY <2>1, ScanClass
    <2>3. TypeOK'
      BY <2>1 DEF TypeOK
    <2>4. ScanInv'
      BY <2>1, <2>2 DEF ScanInv, IsArrayId, Items
    <2> QED
      BY <1>2, <2>1, <2>3, <2>4
  <1>4. CASE IterateElement
    <2> DEFINE word == object.words[i]
               slot == SlotOf(object, i)
    <2>1. /\ UNCHANGED <<object, bits, bytes, at>> /\ at = "elements" /\ i' = i + 1
          /\ i < object.length
          /\ edges' = IF word = "null" THEN edges ELSE Append(edges, Element(i))
          /\ weakRefs' = IF word = "weak" THEN weakRefs \cup {Element(i)} ELSE weakRefs
      BY <1>4 DEF IterateElement, ScanField
    <2>2. Rttis[object.rtti].kind = "objects"
      BY <2>1 DEF ScanInv
    <2>3. /\ Items(object) = object.length /\ slot = Element(i)
          /\ Followed(object, i) <=> word # "null"
      BY <2>2 DEF Items, SlotOf, Followed, IsArrayId
    <2>4. ScanInv' /\ i' \in Nat /\ edges' \in Seq(Nat) /\ weakRefs' \subseteq Nat
      BY <2>1, <2>3, ItemScanned
    <2>5. TypeOK'
      BY <2>1, <2>4 DEF TypeOK
    <2> QED
      BY <1>2, <2>1, <2>4, <2>5
  <1>5. ASSUME at = "fields", Offset # LastFieldOffset
        PROVE  /\ Offset = FieldOf(object, i) /\ i < Items(object)
               /\ SlotOf(object, i) = GetFields(Offset)
               /\ Followed(object, i) <=> object.words[Offset] # "null" /\ ~IsReferent(Offset)
    <2> DEFINE map == Rttis[object.rtti].refMap
    <2>1. /\ Class = Rttis[object.rtti] /\ object.rtti \in DOMAIN Rttis
          /\ Rttis[object.rtti].kind \in {"plain", "weak"}
      BY <1>5, ScanClass DEF ScanInv
    <2>2. Offset = map[i + 1] /\ Offset = FieldOf(object, i)
      BY <2>1 DEF Offset, FieldOf
    <2>3. Items(object) = Len(map) - 1 /\ i <= Items(object) /\ i \in Nat
      BY <2>1 DEF Items, ScanInv, TypeOK
    <2>4. map \in Seq(Int) /\ Len(map) \in Nat /\ map[Len(map)] = LastFieldOffset
      BY <2>1, ClassAssumption
    <2>5. i < Items(object)
      <3>1. i + 1 # Len(map)
        BY <1>5, <2>2, <2>4
      <3> HIDE DEF map
      <3> QED
        BY <2>3, <2>4, <3>1
    <2> QED
      BY <2>1, <2>2, <2>5 DEF SlotOf, Followed, IsReferent, IsArrayId
  <1>6. CASE IterateField
    <2> DEFINE word == object.words[Offset]
    <2>1. /\ UNCHANGED <<object, bits, bytes, at>> /\ at = "fields" /\ i' = i + 1
          /\ Offset # LastFieldOffset /\ ~IsReferent(Offset)
          /\ edges' = IF word = "null" THEN edges ELSE Append(edges, GetFields(Offset))
          /\ weakRefs' = IF word = "weak" THEN weakRefs \cup {GetFields(Offset)} ELSE weakRefs
      BY <1>6 DEF IterateField, ScanField
    <2>2. ScanInv' /\ i' \in Nat /\ edges' \in Seq(Nat) /\ weakRefs' \subseteq Nat
      BY <1>5, <2>1, ItemScanned
    <2>3. TypeOK'
      BY <2>1, <2>2 DEF TypeOK
    <2> QED
      BY <1>2, <2>1, <2>2, <2>3
  <1>7. CASE SkipReferent
    <2>1. /\ UNCHANGED <<object, bits, bytes, at, edges, weakRefs>> /\ at = "fields"
          /\ Offset # LastFieldOffset /\ IsReferent(Offset) /\ i' = i + 1
      BY <1>7 DEF SkipReferent
    <2>2. ScanInv' /\ i' \in Nat /\ edges' \in Seq(Nat) /\ weakRefs' \subseteq Nat
      BY <1>5, <2>1, ItemScanned
    <2>3. TypeOK'
      BY <2>1, <2>2 DEF TypeOK
    <2> QED
      BY <1>2, <2>1, <2>2, <2>3
  <1>8. CASE EndIterate
    <2>1. /\ UNCHANGED <<object, bits, bytes, i, edges, weakRefs>> /\ at' = "done"
          /\ \/ at = "elements" /\ i >= object.length
             \/ at = "fields" /\ Offset = LastFieldOffset
      BY <1>8 DEF EndIterate
    <2>2. /\ Class = Rttis[object.rtti] /\ object.rtti \in DOMAIN Rttis
          /\ object \in Objects /\ i \in Nat /\ Items(object) \in Nat /\ i <= Items(object)
      BY <2>1, ScanClass, ItemsNat DEF TypeOK, ScanInv
    <2>3. i = Items(object)
      <3>1. CASE at = "elements"
        <4>1. Items(object) = object.length
          BY <3>1 DEF ScanInv, Items
        <4> QED
          BY <2>1, <2>2, <3>1, <4>1
      <3>2. CASE at = "fields"
        <4> DEFINE map == Rttis[object.rtti].refMap
        <4>1. Items(object) = Len(map) - 1
          BY <3>2 DEF ScanInv, Items
        <4>2. map[i + 1] = LastFieldOffset
          BY <2>1, <2>2, <3>2 DEF Offset
        <4>3. /\ Len(map) \in Nat
              /\ \A j \in 1..(Len(map) - 1) : map[j] \in Nat
          BY <2>2, ClassAssumption
        <4>4. ~(i + 1 \in 1..(Len(map) - 1))
          BY <4>2, <4>3 DEF LastFieldOffset
        <4> QED
          BY <2>2, <4>1, <4>3, <4>4
      <3> QED
        BY <2>1, <3>1, <3>2
    <2>4. TypeOK'
      BY <2>1 DEF TypeOK
    <2>5. ScanInv'
      BY <2>1, <2>3 DEF ScanInv
    <2> QED
      BY <1>2, <2>1, <2>4, <2>5
  <1>9. CASE UNCHANGED vars
    BY <1>9 DEF vars, TypeOK, SizeExact, ScanInv, Extent
  <1> QED
    BY <1>1, <1>3, <1>4, <1>6, <1>7, <1>8, <1>9 DEF Next

-----------------------------------------------------------------------------
(* The theorems.                                                           *)

\* The inductive invariant holds in every state.
THEOREM Invariance == Spec => []IInv
  BY InitInv, NextInv, PTL DEF Spec

\* The types, and no forwarding bits are left where a class is read.
THEOREM TypeCorrect == Spec => []TypeOK
  BY Invariance, PTL DEF IInv

\* copy reserves exactly what the object takes, rounded up (abi.rs:97-131).
THEOREM SizeCorrect == Spec => []SizeExact
  BY Invariance, PTL DEF IInv

\* No edge lies outside of the copied bytes.
THEOREM CopiedCorrect == Spec => []EdgesCopied
  <1>1. ASSUME IInv PROVE EdgesCopied
    <2>1. /\ object \in Objects /\ i \in Nat /\ edges \in Seq(Nat)
          /\ i <= Items(object) /\ Items(object) \in Nat
          /\ Range(edges) = SlotsBefore(object, i)
      BY <1>1, ItemsNat DEF IInv, TypeOK, ScanInv
    <2>2. ASSUME NEW k \in 1..Len(edges)
          PROVE  16 <= edges[k] /\ edges[k] + 8 <= bytes
      <3>1. edges[k] \in Range(edges)
        BY <2>1 DEF Range
      <3>2. PICK j \in 0..(i - 1) : edges[k] = SlotOf(object, j)
        BY <2>1, <3>1 DEF SlotsBefore
      <3>3. j \in 0..(Items(object) - 1)
        BY <2>1
      <3>4. /\ edges[k] \in Nat /\ 16 <= edges[k]
            /\ edges[k] + 8 <= ExtentOf(object)
        BY <2>1, <3>2, <3>3, SlotInside
      <3>5. at # "copy"
        BY <1>1, <2>1, <3>2 DEF IInv, ScanInv
      <3>6. ExtentOf(object) <= bytes /\ bytes \in Nat
        BY <1>1, <3>5, WordAssumption DEF IInv, SizeExact, TypeOK, Extent, ExtentOf
      <3>7. ExtentOf(object) \in Nat
        BY <2>1, ExtentFits
      <3> QED
        BY <3>4, <3>6, <3>7
    <2> QED
      BY <2>2 DEF EdgesCopied
  <1> QED
    BY <1>1, Invariance, PTL

\* The scan visits the words that hold references to follow, each once.
THEOREM EdgesCorrect == Spec => []EdgesExact
  <1>1. ASSUME IInv PROVE EdgesExact
    <2>1. object \in Objects
      BY <1>1 DEF IInv, TypeOK
    <2> QED
      BY <1>1, <2>1, AllSlots DEF IInv, ScanInv, EdgesExact
  <1> QED
    BY <1>1, Invariance, PTL
=============================================================================
