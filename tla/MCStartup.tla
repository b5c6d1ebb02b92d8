------------------------------ MODULE MCStartup ------------------------------
(***************************************************************************)
(* Instances of Startup for TLC.  One size is valid and fixed, the other   *)
(* is dynamic and has its minimum above its maximum.                       *)
(***************************************************************************)
EXTENDS Startup

MCSizes == {[min |-> 1, max |-> 1], [min |-> 2, max |-> 1]}
=============================================================================
