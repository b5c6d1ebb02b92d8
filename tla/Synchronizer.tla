---------------------------- MODULE Synchronizer -----------------------------
(***************************************************************************)
(* Stopping and resuming the world: the GC worker of mmtk-core that calls  *)
(* the binding (collection.rs), the MMTk Synchronizer Thread that carries  *)
(* its requests out (api.rs, scalanative_gc_init), the mutator threads of  *)
(* the Scala Native runtime, and the two std::sync::mpsc channels.  The    *)
(* model starts when scalanative_gc_init has returned: the channels are    *)
(* the live ones and the synchronizer thread waits for its first request.  *)
(***************************************************************************)
EXTENDS Naturals, Sequences

CONSTANTS Mutators,    \* the mutator threads of the runtime
          MaxCycles    \* bound: collections a behaviour may begin

ASSUME MutatorsAssumption == Mutators # {}
ASSUME MaxCyclesAssumption == MaxCycles \in Nat \ {0}

VARIABLES
    mutator,      \* state of each mutator thread
    stopFlag,     \* runtime: mutators park at their next safepoint
    gcRequested,  \* mmtk-core: the GC request flag
    gc,           \* what the GC worker is doing
    requests,     \* REQ_SENDER ~> req_rx: requests sent and not yet taken
    sync,         \* where the synchronizer thread is in its loop
    locked,       \* the mutex local to the synchronizer thread is held
    responses,    \* res_tx ~> RES_RECEIVER: responses sent, nobody takes them
    begun,        \* collections begun      (a history counter, as the next)
    ended,        \* collections ended
    stops,        \* returns of the upcall stop_all_mutators
    resumes       \* returns of the upcall resume_mutators

threads == <<mutator, stopFlag>>
core == <<gcRequested, gc, begun, ended>>
server == <<sync, locked, responses, stops, resumes>>
vars == <<mutator, stopFlag, gcRequested, gc, requests, sync, locked,
          responses, begun, ended, stops, resumes>>

SyncRequest == {"Acquire", "Release"}
SyncResponse == {"Acquired", "Released"}

Init ==
    /\ mutator = [m \in Mutators |-> "running"]
    /\ stopFlag = FALSE
    /\ gcRequested = FALSE
    /\ gc = "idle"
    /\ requests = <<>>
    /\ sync = "recv"
    /\ locked = FALSE
    /\ responses = <<>>
    /\ begun = 0 /\ ended = 0 /\ stops = 0 /\ resumes = 0

-----------------------------------------------------------------------------
(* The mutator threads.                                                    *)

AllParked == \A m \in Mutators : mutator[m] = "parked"

\* A mutator reads and writes the heap.
Mutate(m) == mutator[m] = "running" /\ UNCHANGED vars

\* An allocation (or a user request) makes mmtk-core raise its request flag;
\* the thread is on its way to Collection::block_for_gc.
RequestGc(m) ==
    /\ mutator[m] = "running"
    /\ begun < MaxCycles
    /\ mutator' = [mutator EXCEPT ![m] = "requesting"]
    /\ gcRequested' = TRUE
    /\ UNCHANGED <<stopFlag, gc, begun, ended, requests, server>>

\* Collection::block_for_gc: the upcall parks the thread until a resume.
BlockForGc(m) ==
    /\ mutator[m] = "requesting"
    /\ mutator' = [mutator EXCEPT ![m] = "parked"]
    /\ UNCHANGED <<stopFlag, core, requests, server>>

\* A safepoint poll that sees the stop flag parks the thread.
Yield(m) ==
    /\ mutator[m] = "running"
    /\ stopFlag
    /\ mutator' = [mutator EXCEPT ![m] = "parked"]
    /\ UNCHANGED <<stopFlag, core, requests, server>>

-----------------------------------------------------------------------------
(* The GC worker.                                                          *)

\* Mutant: mmtk-core's request flag is not cleared when the world stops.
StopAllMutatorsFlagKept ==
    /\ gc = "idle"
    /\ gcRequested
    /\ requests' = Append(requests, "Acquire")
    /\ gc' = "roots"
    /\ begun' = begun + 1
    /\ UNCHANGED <<threads, gcRequested, ended, server>>

\* Mutant: a second worker begins a collection while one is under way.
StopAllMutatorsTwice ==
    /\ gcRequested
    /\ requests' = Append(requests, "Acquire")
    /\ gcRequested' = FALSE
    /\ gc' = "roots"
    /\ begun' = begun + 1
    /\ UNCHANGED <<threads, ended, server>>

\* Collection::stop_all_mutators sends Acquire and returns: it does not wait
\* for Acquired.  mmtk-core then clears its request flag and schedules roots.
StopAllMutators ==
    /\ gc = "idle"
    /\ gcRequested
    /\ requests' = Append(requests, "Acquire")
    /\ gcRequested' = FALSE
    /\ gc' = "roots"
    /\ begun' = begun + 1
    /\ UNCHANGED <<threads, ended, server>>

\* The roots are scanned; tracing, which moves objects, may start.
ScanRoots ==
    /\ gc = "roots"
    /\ gc' = "trace"
    /\ UNCHANGED <<threads, gcRequested, begun, ended, requests, server>>

\* Mutant: the send fails and its error is only printed.
ResumeMutatorsLost ==
    /\ gc = "trace"
    /\ gc' = "idle"
    /\ ended' = ended + 1
    /\ UNCHANGED <<threads, gcRequested, begun, requests, server>>

\* Collection::resume_mutators sends Release and returns.
ResumeMutators ==
    /\ gc = "trace"
    /\ requests' = Append(requests, "Release")
    /\ gc' = "idle"
    /\ ended' = ended + 1
    /\ UNCHANGED <<threads, gcRequested, begun, server>>

-----------------------------------------------------------------------------
(* The MMTk Synchronizer Thread: for req in req_rx { match req { ... } }   *)

\* Takes an Acquire and the mutex, and enters the upcall stop_all_mutators,
\* which raises the stop flag.
ReceiveAcquire ==
    /\ sync = "recv"
    /\ requests # <<>>
    /\ Head(requests) = "Acquire"
    /\ ~locked
    /\ requests' = Tail(requests)
    /\ locked' = TRUE
    /\ stopFlag' = TRUE
    /\ sync' = "stopping"
    /\ UNCHANGED <<mutator, core, responses, stops, resumes>>

\* Mutant: the stop does not wait for threads on their way to block_for_gc.
StopReturnsEarly ==
    /\ sync = "stopping"
    /\ \A m \in Mutators : mutator[m] # "running"
    /\ stops' = stops + 1
    /\ sync' = "stopped"
    /\ UNCHANGED <<threads, core, requests, locked, responses, resumes>>

\* The upcall stop_all_mutators returns once no mutator runs.
StopReturns ==
    /\ sync = "stopping"
    /\ AllParked
    /\ stops' = stops + 1
    /\ sync' = "stopped"
    /\ UNCHANGED <<threads, core, requests, locked, responses, resumes>>

\* Mutant: the guard outlives the match arm and nothing drops it.
SendAcquiredLockKept ==
    /\ sync = "stopped"
    /\ responses' = Append(responses, "Acquired")
    /\ sync' = "recv"
    /\ UNCHANGED <<threads, core, requests, locked, stops, resumes>>

\* Sends Acquired; the end of the match arm drops _guard, so the mutex is
\* free again although the world stays stopped.
SendAcquired ==
    /\ sync = "stopped"
    /\ responses' = Append(responses, "Acquired")
    /\ locked' = FALSE
    /\ sync' = "recv"
    /\ UNCHANGED <<threads, core, requests, stops, resumes>>

\* Takes a Release and enters the upcall resume_mutators; no mutex here.
ReceiveRelease ==
    /\ sync = "recv"
    /\ requests # <<>>
    /\ Head(requests) = "Release"
    /\ requests' = Tail(requests)
    /\ sync' = "resuming"
    /\ UNCHANGED <<threads, core, locked, responses, stops, resumes>>

\* Mutant: the flag goes down and the parked threads are not signalled.
ResumeReturnsNoSignal ==
    /\ sync = "resuming"
    /\ stopFlag' = FALSE
    /\ resumes' = resumes + 1
    /\ sync' = "resumed"
    /\ UNCHANGED <<mutator, core, requests, locked, responses, stops>>

\* The upcall resume_mutators lowers the flag and lets every thread go.
ResumeReturns ==
    /\ sync = "resuming"
    /\ stopFlag' = FALSE
    /\ mutator' = [m \in Mutators |->
                     IF mutator[m] = "parked" THEN "running" ELSE mutator[m]]
    /\ resumes' = resumes + 1
    /\ sync' = "resumed"
    /\ UNCHANGED <<core, requests, locked, responses, stops>>

\* Mutant: the response of the other arm.
SendReleasedSwapped ==
    /\ sync = "resumed"
    /\ responses' = Append(responses, "Acquired")
    /\ sync' = "recv"
    /\ UNCHANGED <<threads, core, requests, locked, stops, resumes>>

SendReleased ==
    /\ sync = "resumed"
    /\ responses' = Append(responses, "Released")
    /\ sync' = "recv"
    /\ UNCHANGED <<threads, core, requests, locked, stops, resumes>>

-----------------------------------------------------------------------------
Next ==
    \/ \E m \in Mutators : Mutate(m) \/ RequestGc(m) \/ BlockForGc(m) \/ Yield(m)
    \/ StopAllMutators \/ ScanRoots \/ ResumeMutators
    \/ ReceiveAcquire \/ StopReturns \/ SendAcquired
    \/ ReceiveRelease \/ ResumeReturns \/ SendReleased

\* Every thread that has something to do gets to do it.  Nothing obliges a
\* mutator to ask for a collection or to touch the heap.
Fairness ==
    /\ \A m \in Mutators : WF_vars(BlockForGc(m)) /\ WF_vars(Yield(m))
    /\ WF_vars(StopAllMutators) /\ WF_vars(ScanRoots) /\ WF_vars(ResumeMutators)
    /\ WF_vars(ReceiveAcquire) /\ WF_vars(StopReturns) /\ WF_vars(SendAcquired)
    /\ WF_vars(ReceiveRelease) /\ WF_vars(ResumeReturns) /\ WF_vars(SendReleased)

Spec == Init /\ [][Next]_vars /\ Fairness
-----------------------------------------------------------------------------
(* Properties.                                                             *)

\* Requests the synchronizer thread has taken so far, and the kind of the
\* n-th request and response if the two kinds strictly alternate.
Taken == stops + resumes + (IF sync \in {"stopping", "resuming"} THEN 1 ELSE 0)
Kind(n) == IF n % 2 = 1 THEN "Acquire" ELSE "Release"
Answer(n) == IF n % 2 = 1 THEN "Acquired" ELSE "Released"

\* Type invariant.  The counters stay within the bound because mmtk-core's
\* request flag is cleared by the collection that serves it.
TypeOK ==
    /\ mutator \in [Mutators -> {"running", "requesting", "parked"}]
    /\ stopFlag \in BOOLEAN
    /\ gcRequested \in BOOLEAN
    /\ gc \in {"idle", "roots", "trace"}
    /\ requests \in Seq(SyncRequest)
    /\ sync \in {"recv", "stopping", "stopped", "resuming", "resumed"}
    /\ locked \in BOOLEAN
    /\ responses \in Seq(SyncResponse)
    /\ begun \in 0..MaxCycles
    /\ ended \in 0..MaxCycles
    /\ stops \in Nat
    /\ resumes \in Nat

\* However far the GC worker runs ahead of the synchronizer thread, the
\* requests in the channel are exactly those sent and not yet taken, and
\* Acquire and Release alternate from where the thread stands: it never
\* stops a stopped world or resumes a running one (api.rs:340-351).
RequestsAlternate ==
    /\ Len(requests) + Taken = begun + ended
    /\ \A i \in 1..Len(requests) : requests[i] = Kind(Taken + i)

\* From the return of the upcall stop_all_mutators to the return of the
\* upcall resume_mutators no mutator leaves its parking place, whatever
\* requests for further collections are under way (api.rs:344, 348).
StoppedMeansParked == stops > resumes => AllParked

\* RES_RECEIVER holds one response for each upcall that has returned (but for
\* the one about to be sent), in the order of the requests: a caller that
\* took one response per request would get the answer to its own request
\* (api.rs:345, 349).
ResponsesMatchRequests ==
    /\ Len(responses) + (IF sync \in {"stopped", "resumed"} THEN 1 ELSE 0)
         = stops + resumes
    /\ \A i \in 1..Len(responses) : responses[i] = Answer(i)

\* No lost wake-up: a mutator that is parked, or that is past the point where
\* it decided to block for a collection, has a collection coming whose
\* resume has not returned yet (collection.rs:67-71 parks it with no
\* condition to check again).
NoLostWakeup ==
    (\E m \in Mutators : mutator[m] # "running") => gcRequested \/ resumes < begun

\* The handshake implements the ledger of pauses: stops and resumes strictly
\* alternate, none comes before it was asked for, and each one comes.
PauseLedger == INSTANCE PauseLedger
                 WITH begun <- begun, ended <- ended, stops <- stops, resumes <- resumes
Ledger == PauseLedger!Spec

\* Every parked mutator runs again.
ParkedEventuallyRuns ==
    \A m \in Mutators : mutator[m] = "parked" ~> mutator[m] = "running"

-----------------------------------------------------------------------------
(* What the source says and the code does not do.                          *)

\* object_model.rs:17 has the fields of a moved object never read or written
\* again: no mutator may run while the collector moves objects.
MovesOnlyWhenStopped == gc = "trace" => \A m \in Mutators : mutator[m] # "running"
=============================================================================
