---------------------------- MODULE MCRootsClosure ----------------------------
(***************************************************************************)
(* RootsClosure for TLC: a packet capacity of 2 with buffers of capacity 2 *)
(* or 3, so that renewed buffers differ in capacity, five objects handed   *)
(* over, so that a closure renews its buffer twice, and two closures one   *)
(* after the other, as in scan_vm_specific_roots (threads, then modules).  *)
(***************************************************************************)
EXTENDS RootsClosure
=============================================================================
