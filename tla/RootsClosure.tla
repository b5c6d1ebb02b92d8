---------------------------- MODULE RootsClosure -----------------------------
(***************************************************************************)
(* RootsClosure (scanning.rs): the buffer a GC worker collects root        *)
(* objects in.  The buffer is a Vec lent out as a raw pointer (ManuallyDrop)*)
(* and rebuilt from its parts, pointer, length and capacity, when it is    *)
(* handed back: by report_nodes_and_renew_buffer, which turns it into a    *)
(* work packet and lends a new one, or by release_buffer (api.rs).  Nothing *)
(* but the arithmetic on cursor and capacity keeps a write inside the       *)
(* buffer, and nothing but the order of the calls keeps a Vec from being    *)
(* freed twice, never, or with a capacity it does not have.                *)
(***************************************************************************)
EXTENDS Naturals, Sequences

CONSTANTS
    Objects,             \* the objects a scan may report
    WorkPacketCapacity,  \* WORK_PACKET_CAPACITY, 4096 in the code
    MaxSlack,            \* Vec::with_capacity may give this much more
    MaxHanded,           \* bound: objects handed over in a behaviour
    MaxClosures,         \* bound: closures made in a behaviour
    Uninit               \* what a slot holds before it is written

ASSUME CapacityAssumption == WorkPacketCapacity \in Nat \ {0}
ASSUME SlackAssumption == MaxSlack \in Nat
ASSUME MaxClosuresAssumption == MaxClosures \in Nat
ASSUME UninitAssumption == Uninit \notin Objects

VARIABLES
    open,        \* a RootsClosure exists
    buffer,      \* field buffer: the Vec lent out, by number; Null is 0
    cursor,      \* field cursor
    capacity,    \* field capacity
    slots,       \* what the lent Vec holds, one value per slot
    vecs,        \* vecs[v]: the capacity Vec number v was allocated with
    freed,       \* the Vecs rebuilt from raw parts and dropped, in order
    delivered,   \* objects of the packets mmtk-core received, concatenated
    handed,      \* every p of a do_work(p)            (history)
    closures     \* number of closures made            (history)

vars == <<open, buffer, cursor, capacity, slots, vecs, freed, delivered,
          handed, closures>>

Null == 0

Init ==
    /\ open = FALSE
    /\ buffer = Null /\ cursor = 0 /\ capacity = 0
    /\ slots = <<>>
    /\ vecs = <<>> /\ freed = <<>>
    /\ delivered = <<>>
    /\ handed = <<>> /\ closures = 0

-----------------------------------------------------------------------------
\* Vec::from_raw_parts(ptr, length, capacity), then dropped.
Reclaim(v, length, cap) ==
    freed' = Append(freed, [vec |-> v, length |-> length, capacity |-> cap])

\* Vec::with_capacity(WORK_PACKET_CAPACITY) under ManuallyDrop: a new Vec of
\* capacity c is lent out, and the fields buffer, capacity and cursor name it.
Lend(c) ==
    /\ vecs' = Append(vecs, c)
    /\ buffer' = Len(vecs) + 1
    /\ capacity' = c
    /\ cursor' = 0
    /\ slots' = [i \in 1..c |-> Uninit]

\* create_process_pinning_roots_work: mmtk-core gets the first n of s.
Deliver(s, n) == delivered' = delivered \o SubSeq(s, 1, n)

\* Mutant: the capacity of the first buffer is kept for the ones after it.
FlushStaleCapacity(s, n, c) ==
    /\ Reclaim(buffer, n, capacity)
    /\ Deliver(s, n)
    /\ vecs' = Append(vecs, c)
    /\ buffer' = Len(vecs) + 1
    /\ cursor' = 0
    /\ slots' = [i \in 1..c |-> Uninit]
    /\ UNCHANGED capacity

\* RootsClosure::flush of a buffer holding s, of which n are written.  Its
\* func is report_nodes_and_renew_buffer with a pointer that is not null.
Flush(s, n, c) ==
    /\ Reclaim(buffer, n, capacity)
    /\ Deliver(s, n)
    /\ Lend(c)

Capacities == WorkPacketCapacity..(WorkPacketCapacity + MaxSlack)

\* RootsClosure::new: func is called with a null pointer and lends a buffer.
New(c) ==
    /\ ~open
    /\ closures < MaxClosures
    /\ open' = TRUE
    /\ closures' = closures + 1
    /\ Lend(c)
    /\ UNCHANGED <<freed, delivered, handed>>

\* Mutant: the buffer counts as full one write too late.
DoWorkLate(p, c) ==
    /\ open
    /\ Len(handed) < MaxHanded
    /\ handed' = Append(handed, p)
    /\ LET written == [slots EXCEPT ![cursor + 1] = p] IN
       IF cursor + 1 > capacity
         THEN Flush(written, cursor + 1, c)
         ELSE /\ slots' = written
              /\ cursor' = cursor + 1
              /\ UNCHANGED <<buffer, capacity, vecs, freed, delivered>>
    /\ UNCHANGED <<open, closures>>

\* Mutant: every object is flushed as soon as it is written.
DoWorkEager(p, c) ==
    /\ open
    /\ Len(handed) < MaxHanded
    /\ handed' = Append(handed, p)
    /\ Flush([slots EXCEPT ![cursor + 1] = p], cursor + 1, c)
    /\ UNCHANGED <<open, closures>>

\* RootsClosure::do_work: write at the cursor, advance it, flush a full buffer.
DoWork(p, c) ==
    /\ open
    /\ Len(handed) < MaxHanded
    /\ handed' = Append(handed, p)
    /\ LET written == [slots EXCEPT ![cursor + 1] = p] IN
       IF cursor + 1 >= capacity
         THEN Flush(written, cursor + 1, c)
         ELSE /\ slots' = written
              /\ cursor' = cursor + 1
              /\ UNCHANGED <<buffer, capacity, vecs, freed, delivered>>
    /\ UNCHANGED <<open, closures>>

\* Mutant: the buffer is released without a last flush.
DropUnflushed(c) ==
    /\ open
    /\ open' = FALSE
    /\ Reclaim(buffer, cursor, capacity)
    /\ buffer' = Null /\ cursor' = 0 /\ capacity' = 0 /\ slots' = <<>>
    /\ UNCHANGED <<vecs, delivered, handed, closures>>

\* Mutant: the last packet is taken to be as long as the buffer.
DropWholeBuffer(c) ==
    /\ open
    /\ open' = FALSE
    /\ Deliver(slots, capacity)
    /\ vecs' = Append(vecs, c)
    /\ freed' = freed \o
         << [vec |-> buffer, length |-> capacity, capacity |-> capacity],
            [vec |-> Len(vecs) + 1, length |-> 0, capacity |-> c] >>
    /\ buffer' = Null /\ cursor' = 0 /\ capacity' = 0 /\ slots' = <<>>
    /\ UNCHANGED <<handed, closures>>

\* Drop for RootsClosure: what is left is flushed into a last packet, which
\* lends one more buffer, and the buffer lent last is released.
Drop(c) ==
    /\ open
    /\ open' = FALSE
    /\ IF cursor > 0
         THEN /\ Deliver(slots, cursor)
              /\ vecs' = Append(vecs, c)
              /\ freed' = freed \o
                   << [vec |-> buffer, length |-> cursor, capacity |-> capacity],
                      [vec |-> Len(vecs) + 1, length |-> 0, capacity |-> c] >>
         ELSE /\ Reclaim(buffer, cursor, capacity)
              /\ UNCHANGED <<delivered, vecs>>
    /\ buffer' = Null /\ cursor' = 0 /\ capacity' = 0 /\ slots' = <<>>
    /\ UNCHANGED <<handed, closures>>

Next ==
    \E c \in Capacities : New(c) \/ (\E p \in Objects : DoWork(p, c)) \/ Drop(c)

Spec == Init /\ [][Next]_vars

-----------------------------------------------------------------------------
(* Properties.                                                             *)

\* Type invariant.  No packet carries a slot that was not written: delivered
\* holds objects only, although a lent buffer starts uninitialised.
TypeOK ==
    /\ open \in BOOLEAN
    /\ buffer \in Nat /\ cursor \in Nat /\ capacity \in Nat
    /\ slots \in Seq(Objects \cup {Uninit})
    /\ vecs \in Seq(Capacities)
    /\ freed \in Seq([vec : Nat, length : Nat, capacity : Nat])
    /\ delivered \in Seq(Objects)
    /\ handed \in Seq(Objects)
    /\ closures \in 0..MaxClosures

\* The next do_work writes inside the Vec that is lent, whatever capacity the
\* allocator gave it: the field capacity is never taken for another Vec's
\* (scanning.rs:153, 156).
InBounds == open => buffer \in 1..Len(vecs) /\ cursor < vecs[buffer]

\* Every Vec ever lent is rebuilt and dropped once, with the capacity it was
\* allocated with and a length within it; only the Vec of an open closure is
\* still out (scanning.rs:82-122, 163-166, 173-179, api.rs:367).
Ownership ==
    /\ \A i, j \in 1..Len(freed) : freed[i].vec = freed[j].vec => i = j
    /\ \A i \in 1..Len(freed) :
         /\ freed[i].vec \in 1..Len(vecs)
         /\ freed[i].capacity = vecs[freed[i].vec]
         /\ freed[i].length <= freed[i].capacity
    /\ {freed[i].vec : i \in 1..Len(freed)}
         = (1..Len(vecs)) \ (IF open THEN {buffer} ELSE {})

\* A closure in use sends full packets only: the one packet that may be
\* shorter is the one its drop sends (scanning.rs:43, 156).
PacketIsFull ==
    open' /\ delivered' # delivered
      => Len(delivered') - Len(delivered) >= WorkPacketCapacity
FullPackets == [][PacketIsFull]_vars

\* No root is lost, repeated or reordered: the closure implements
\* RootReporting, and dropping it delivers what is left (scanning.rs:173).
RootReporting == INSTANCE RootReporting
                   WITH open <- open, handed <- handed, delivered <- delivered
Reporting == RootReporting!Spec
=============================================================================
