----------------------------- MODULE MCCollection -----------------------------
(***************************************************************************)
(* Instance of Collection for TLC: two threads that may exit and one that  *)
(* may start and exit, around and during two collections.                  *)
(***************************************************************************)
EXTENDS Collection

CONSTANTS t1, t2, t3

MCThreads == {t1, t2, t3}
MCEarly == <<t1, t2>>
===============================================================================
