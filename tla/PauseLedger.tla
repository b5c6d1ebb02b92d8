----------------------------- MODULE PauseLedger -----------------------------
(***************************************************************************)
(* What the stop-the-world handshake owes its two clients, with threads,   *)
(* channels and locks left out: four counters.                             *)
(*                                                                         *)
(*   begun    collections for which a GC worker asked to stop the world    *)
(*   ended    collections for which it asked to resume the world           *)
(*   stops    times the runtime reported that every mutator is parked      *)
(*   resumes  times the runtime let the mutators go                        *)
(*                                                                         *)
(* A collection begins only after the previous one ended; the world is     *)
(* stopped and resumed in turn, once for each collection, never before it  *)
(* was asked for, and always in the end.  The specification does not say   *)
(* that a collection waits for its stop: the code does not make it wait.   *)
(***************************************************************************)
EXTENDS Naturals

VARIABLES begun, ended, stops, resumes

ledger == <<begun, ended, stops, resumes>>

Init == begun = 0 /\ ended = 0 /\ stops = 0 /\ resumes = 0

\* A collection begins: the worker has asked for a stop.
Begin ==
    /\ ended = begun
    /\ begun' = begun + 1
    /\ UNCHANGED <<ended, stops, resumes>>

\* The collection is over: the worker has asked for a resume.
End ==
    /\ ended < begun
    /\ ended' = ended + 1
    /\ UNCHANGED <<begun, stops, resumes>>

\* Every mutator is parked, on behalf of the oldest collection not yet served.
Stop ==
    /\ stops = resumes
    /\ stops < begun
    /\ stops' = stops + 1
    /\ UNCHANGED <<begun, ended, resumes>>

\* The mutators go again, after the collection they were stopped for ended.
Resume ==
    /\ resumes < stops
    /\ resumes < ended
    /\ resumes' = resumes + 1
    /\ UNCHANGED <<begun, ended, stops>>

Next == Begin \/ End \/ Stop \/ Resume

\* What was begun ends, is stopped for and resumed after; nothing has to begin.
Fairness == WF_ledger(End) /\ WF_ledger(Stop) /\ WF_ledger(Resume)

Spec == Init /\ [][Next]_ledger /\ Fairness
=============================================================================
