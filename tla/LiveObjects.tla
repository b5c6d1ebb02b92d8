----------------------------- MODULE LiveObjects ------------------------------
(***************************************************************************)
(* What tracing owes the program, with workers, headers and queues left    *)
(* out: an object is kept because it is a root or because something kept   *)
(* leads to it; it is kept at one of its two addresses, the second only if *)
(* it may move, and that decision is made once and for good.               *)
(***************************************************************************)
EXTENDS Naturals

CONSTANT Objects

VARIABLES
    roots,      \* objects kept from the start, at their first address
    follows,    \* the objects each object leads to
    movable,    \* the objects that may move
    kept        \* pairs of an object kept and the number of its address

live == <<roots, follows, movable, kept>>

Init ==
    /\ roots \in SUBSET Objects /\ movable \in SUBSET Objects
    /\ follows \in [Objects -> SUBSET Objects]
    /\ kept = roots \X {0}

\* An object is kept at its address number i.
Keep(o, i) ==
    /\ \E p \in kept : o \in follows[p[1]]
    /\ \A j \in {0, 1} : <<o, j>> \notin kept
    /\ i = 1 => o \in movable
    /\ kept' = kept \cup {<<o, i>>}
    /\ UNCHANGED <<roots, follows, movable>>

Next == \E o \in Objects, i \in {0, 1} : Keep(o, i)

Spec == Init /\ [][Next]_live
=============================================================================
