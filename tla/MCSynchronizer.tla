---------------------------- MODULE MCSynchronizer ----------------------------
(***************************************************************************)
(* Instances of Synchronizer for TLC: three mutator threads that may ask   *)
(* for up to three collections between them.  Three collections are enough *)
(* for the GC worker to begin and end one while the synchronizer thread    *)
(* still serves an earlier one, so that up to six requests queue up.       *)
(***************************************************************************)
EXTENDS Synchronizer
=============================================================================
