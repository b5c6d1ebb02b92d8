---------------------------- MODULE RootReporting ----------------------------
(***************************************************************************)
(* What a scan of roots owes the collector, with buffers left out: every   *)
(* object that is handed over between opening and closing a closure is     *)
(* delivered once, in order, and all of them by the time it is closed.     *)
(* Delivery may lag behind, so it comes in batches of any size.            *)
(***************************************************************************)
EXTENDS Naturals, Sequences

CONSTANT Objects

VARIABLES
    open,       \* a closure is in use
    handed,     \* the objects handed over so far, in order
    delivered   \* the objects the collector has received, in order

reporting == <<open, handed, delivered>>

Init == open = FALSE /\ handed = <<>> /\ delivered = <<>>

Open ==
    /\ ~open
    /\ open' = TRUE
    /\ UNCHANGED <<handed, delivered>>

\* An object is handed over; nothing is delivered, or a batch that is.
Hand(p) ==
    /\ open
    /\ handed' = Append(handed, p)
    /\ \/ delivered' = delivered
       \/ delivered' = handed'
    /\ UNCHANGED open

\* Closing delivers whatever is still pending.
Close ==
    /\ open
    /\ open' = FALSE
    /\ delivered' = handed
    /\ UNCHANGED handed

Next == Open \/ (\E p \in Objects : Hand(p)) \/ Close

Spec == Init /\ [][Next]_reporting
=============================================================================
