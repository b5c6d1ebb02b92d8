----------------------------- MODULE ObjectLayout -----------------------------
(***************************************************************************)
(* Sizes and addresses (abi.rs): what copy reserves for an object and what *)
(* the scan of the copy visits (obj_iterate of object_scanning.rs), with   *)
(* the arithmetic of machine words.  Nothing in the code says that the two *)
(* agree: the size comes from the class or from length and stride, the     *)
(* addresses from the map of reference fields or from the length alone.    *)
(*                                                                         *)
(* obj_iterate_and_trace_edges, which mmtk-core calls in a collection, has *)
(* the same loops; where this one hands an edge to the visitor that one    *)
(* stores to it (Tracing).                                                 *)
(*                                                                         *)
(* Addresses count from the object, in bytes.  Words have 8 bytes, and an  *)
(* i32 is half a word wide, which is what WordAssumption asks for.         *)
(***************************************************************************)
EXTENDS Integers, Sequences, Functions

CONSTANTS
    WordMod,          \* 2^64: size_t is calculated modulo this
    MaxInt,           \* the largest i32
    Alignment,        \* ALLOCATION_ALIGNMENT_LAZY
    Rttis,            \* the classes, by the address of their Rtti
    WeakFieldOffset,  \* WEAK_REF_FIELD_OFFSET
    Objects           \* the objects that may be copied

LastFieldOffset == -1

\* The forwarding bits are the two low bits of a word.
ForwardingBits == 0..3

ASSUME WordAssumption ==
    /\ WordMod \in Nat /\ MaxInt \in Nat /\ Alignment \in Nat \ {0}
    /\ 24 + MaxInt * MaxInt + Alignment <= WordMod
    /\ 24 + MaxInt + Alignment <= WordMod
    /\ \A b \in ForwardingBits : b < Alignment

\* What the runtime's compiler lays out: a class is aligned, its reference
\* fields are numbered from the first word after the header, each once, lie
\* within its size, and LAST_FIELD_OFFSET ends the map.
ASSUME ClassAssumption ==
    \A r \in DOMAIN Rttis :
      /\ r \in Nat /\ r % Alignment = 0
      /\ Rttis[r].kind \in {"plain", "weak", "objects", "values"}
      /\ Rttis[r].size \in 16..MaxInt
      /\ LET map == Rttis[r].refMap IN
         /\ map \in Seq(Int) /\ map # <<>> /\ map[Len(map)] = LastFieldOffset
         /\ \A j \in 1..(Len(map) - 1) :
              map[j] \in Nat /\ 16 + 8 * map[j] + 8 <= Rttis[r].size
         /\ IsInjective(map)

\* An object: its class, length and stride if it is an array, and what the
\* words after the header name.
ASSUME ObjectAssumption ==
    \A o \in Objects :
      /\ o.rtti \in DOMAIN Rttis
      /\ o.length \in 0..MaxInt /\ o.stride \in 0..MaxInt
      /\ Rttis[o.rtti].kind = "objects" => o.stride = 8
      /\ o.words \in [0..MaxInt -> {"null", "object", "weak"}]

VARIABLES
    object,    \* the object
    bits,      \* the forwarding bits in its header
    bytes,     \* local bytes of copy
    at,        \* where copy and the scan are
    i,         \* loop index
    edges,     \* the edges visited, in order
    weakRefs   \* edges whose object was pushed on WEAK_REF_STACK

vars == <<object, bits, bytes, at, i, edges, weakRefs>>

-----------------------------------------------------------------------------
(* abi.rs and scanning.rs.                                                 *)

\* Mutant: a size that is a multiple already is raised to the next one.
RoundUpAlways(value, multiple) ==
    (((value + multiple) % WordMod) \div multiple) * multiple

RoundToNextMultiple(value, multiple) ==
    (((value + multiple - 1) % WordMod) \div multiple) * multiple

\* ALLOCATION_ALIGNMENT_INVERSE_MASK clears the bits below the alignment.
AlignPtr(address) == address - (address % Alignment)
IsPtrAligned(address) == AlignPtr(address) = address

\* An i32 as size_t: a negative one is extended by its sign.
AsSize(int) == int % WordMod

IsArrayId(class) == class.kind \in {"objects", "values"}

\* The bytes of the elements.
Elements(o) == (AsSize(o.length) * AsSize(o.stride)) % WordMod

\* Mutant: the header of an object without length and stride.
ArraySizeShort(o) ==
    RoundToNextMultiple((16 + Elements(o)) % WordMod, Alignment)

ArraySize(o) ==
    RoundToNextMultiple((24 + Elements(o)) % WordMod, Alignment)

\* rtti is the word in the header, forwarding bits and all.
SizeForCopy(o, rtti) ==
    LET class == Rttis[AlignPtr(rtti)] IN
    IF IsArrayId(class) THEN ArraySize(o)
    ELSE RoundToNextMultiple(AsSize(class.size), Alignment)

\* The same through the word as it is, which has to be aligned.
Size(o, rtti) ==
    LET class == Rttis[rtti] IN
    IF IsArrayId(class) THEN ArraySize(o)
    ELSE RoundToNextMultiple(AsSize(class.size), Alignment)

\* Mutant: the lock word is not counted.
GetFieldsNoLock(offset) == 8 + 8 * offset

\* Address of a field, by its offset in the map; of an element, by its index.
GetFields(offset) == 16 + 8 * offset
Element(index) == 24 + 8 * index

Class == Rttis[object.rtti + bits]

IsReferent(offset) == Class.kind = "weak" /\ offset = WeakFieldOffset

-----------------------------------------------------------------------------
Init ==
    /\ object \in Objects /\ bits \in ForwardingBits
    /\ bytes = 0 /\ at = "copy" /\ i = 0 /\ edges = <<>> /\ weakRefs = {}

\* Mutant: the forwarding bits stay in the copy.
CopyKeepBits ==
    /\ at = "copy"
    /\ bytes' = SizeForCopy(object, object.rtti + bits)
    /\ at' = "scan"
    /\ UNCHANGED <<object, bits, i, edges, weakRefs>>

\* copy, and post_copy of mmtk-core, which clears the bits.
Copy ==
    /\ at = "copy"
    /\ bytes' = SizeForCopy(object, object.rtti + bits)
    /\ bits' = 0 /\ at' = "scan"
    /\ UNCHANGED <<object, i, edges, weakRefs>>

\* obj_iterate: an array, if of objects, by its elements; the rest by the map.
ObjIterate ==
    /\ at = "scan"
    /\ at' = IF ~IsArrayId(Class) THEN "fields"
             ELSE IF Class.kind = "objects" THEN "elements" ELSE "done"
    /\ UNCHANGED <<object, bits, bytes, i, edges, weakRefs>>

\* is_word_in_heap and mmtk_scan_field: a word that names an object is an edge.
ScanField(edge, word) ==
    /\ edges' = IF word = "null" THEN edges ELSE Append(edges, edge)
    /\ weakRefs' = IF word = "weak" THEN weakRefs \cup {edge} ELSE weakRefs
    /\ i' = i + 1
    /\ UNCHANGED <<object, bits, bytes, at>>

IterateElement ==
    /\ at = "elements" /\ i < object.length
    /\ ScanField(Element(i), object.words[i])

Offset == Class.refMap[i + 1]

IterateField ==
    /\ at = "fields" /\ Offset # LastFieldOffset /\ ~IsReferent(Offset)
    /\ ScanField(GetFields(Offset), object.words[Offset])

SkipReferent ==
    /\ at = "fields" /\ Offset # LastFieldOffset /\ IsReferent(Offset)
    /\ i' = i + 1
    /\ UNCHANGED <<object, bits, bytes, at, edges, weakRefs>>

EndIterate ==
    /\ \/ at = "elements" /\ i >= object.length
       \/ at = "fields" /\ Offset = LastFieldOffset
    /\ at' = "done"
    /\ UNCHANGED <<object, bits, bytes, i, edges, weakRefs>>

Next == Copy \/ ObjIterate \/ IterateElement \/ IterateField \/ SkipReferent \/ EndIterate

Spec == Init /\ [][Next]_vars

-----------------------------------------------------------------------------
(* Properties.                                                             *)

\* What the object occupies, in the arithmetic of integers.
Extent == IF IsArrayId(Rttis[object.rtti]) THEN 24 + object.length * object.stride
          ELSE Rttis[object.rtti].size

\* The addresses of the words of the copy that hold references to be followed.
RefSlots ==
    LET class == Rttis[object.rtti] IN
    CASE class.kind = "objects" ->
           {Element(j) : j \in {k \in 0..(object.length - 1) : object.words[k] # "null"}}
      [] class.kind = "values" -> {}
      [] OTHER ->
           {16 + 8 * j : j \in {k \in Range(class.refMap) \ {LastFieldOffset} :
                                  /\ object.words[k] # "null"
                                  /\ ~(class.kind = "weak" /\ k = WeakFieldOffset)}}

\* Type invariant.  The scan reads the class of a copy without forwarding bits.
TypeOK ==
    /\ object \in Objects /\ bits \in ForwardingBits
    /\ bytes \in 0..(WordMod - 1)
    /\ at \in {"copy", "scan", "elements", "fields", "done"}
    /\ i \in Nat /\ edges \in Seq(Nat) /\ weakRefs \subseteq Nat
    /\ at # "copy" => bits = 0

\* Whatever forwarding bits were in the header, copy takes the least aligned
\* number of bytes that the object occupies: no sum, product or rounding wraps
\* for a length that is not negative (abi.rs:97-99, 124-131, 176-182), and the
\* size of the copy is the size it was made with (object_model.rs:56-62).
SizeExact ==
    at # "copy" =>
      /\ bytes % Alignment = 0
      /\ Extent <= bytes /\ bytes < Extent + Alignment
      /\ bytes = Size(object, object.rtti + bits)

\* The scan visits no word but those that were copied, behind the header
\* (object_scanning.rs:222-235, 266-274 against object_model.rs:35-38).
EdgesCopied ==
    \A k \in 1..Len(edges) : 16 <= edges[k] /\ edges[k] + 8 <= bytes

\* The scan visits every word of the copy that holds a reference to follow,
\* once, and pushes those that name weak references (object_scanning.rs:106-129,
\* 217-236, 262-277).
EdgesExact ==
    /\ weakRefs \subseteq Range(edges)
    /\ at = "done" =>
         IsInjective(edges) /\ Range(edges) = RefSlots
=============================================================================
