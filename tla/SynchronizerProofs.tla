-------------------------- MODULE SynchronizerProofs --------------------------
(***************************************************************************)
(* Theorems about Synchronizer, for every set of mutators and any number   *)
(* of collections.                                                         *)
(***************************************************************************)
EXTENDS Synchronizer, TLAPS, SequenceTheorems

\* The GC worker is between the two requests of a collection, or idle.
WorkerInv ==
    /\ gc = "idle" => ended = begun
    /\ gc # "idle" => begun = ended + 1
    /\ gcRequested => begun < MaxCycles

\* Where the synchronizer thread is says which of the upcalls is due.
ServerInv ==
    /\ sync \in {"stopping", "resumed"} => stops = resumes
    /\ sync \in {"stopped", "resuming"} => stops = resumes + 1
    /\ stops = resumes \/ stops = resumes + 1
    /\ locked <=> sync \in {"stopping", "stopped"}
    /\ stopFlag <=> (sync = "stopping" \/ stops = resumes + 1)

IInv ==
    /\ TypeOK
    /\ WorkerInv
    /\ ServerInv
    /\ RequestsAlternate
    /\ ResponsesMatchRequests
    /\ StoppedMeansParked
    /\ NoLostWakeup

-----------------------------------------------------------------------------
(* Requests and responses alternate: what the parity of a position says.   *)

\* Position 2n+1 is a stop, position 2n+2 a resume.
LEMMA Parity ==
    ASSUME NEW n \in Nat
    PROVE  /\ Kind(n + n + 1) = "Acquire" /\ Answer(n + n + 1) = "Acquired"
           /\ Kind(n + n + 2) = "Release" /\ Answer(n + n + 2) = "Released"
  <1>1. (n + n + 1) % 2 = 1 /\ (n + n + 2) % 2 = 0
    OBVIOUS
  <1> QED
    BY <1>1 DEF Kind, Answer

\* Sending extends a sequence at its end and leaves the rest alone.
LEMMA AppendAt ==
    ASSUME NEW S, NEW s \in Seq(S), NEW e \in S
    PROVE  /\ Append(s, e) \in Seq(S)
           /\ Len(Append(s, e)) = Len(s) + 1
           /\ \A i \in 1..Len(s) : Append(s, e)[i] = s[i]
           /\ Append(s, e)[Len(s) + 1] = e
  BY AppendProperties

\* Taking the head shifts the rest by one.
LEMMA TailAt ==
    ASSUME NEW S, NEW s \in Seq(S), s # <<>>
    PROVE  /\ Head(s) = s[1] /\ Len(s) >= 1
           /\ Tail(s) \in Seq(S)
           /\ Len(Tail(s)) = Len(s) - 1
           /\ \A i \in 1..Len(Tail(s)) : Tail(s)[i] = s[i + 1]
  BY HeadTailProperties, EmptySeq

\* Sending the request whose turn it is keeps the channel alternating.
LEMMA SendAlternates ==
    ASSUME TypeOK, RequestsAlternate, Taken' = Taken,
           NEW e \in SyncRequest, e = Kind(begun + ended + 1),
           requests' = Append(requests, e),
           begun' + ended' = begun + ended + 1
    PROVE  RequestsAlternate'
  <1>1. Taken \in Nat /\ begun + ended \in Nat
    BY MaxCyclesAssumption DEF Taken, TypeOK
  <1>2. /\ Len(requests') = Len(requests) + 1 /\ Len(requests) \in Nat
        /\ \A i \in 1..Len(requests) : requests'[i] = requests[i]
        /\ requests'[Len(requests) + 1] = e
    BY AppendAt, LenProperties DEF TypeOK
  <1>3. Taken + (Len(requests) + 1) = begun + ended + 1
    BY <1>1, <1>2 DEF RequestsAlternate
  <1>4. ASSUME NEW i \in 1..Len(requests')
        PROVE  requests'[i] = Kind(Taken + i)
    <2>1. CASE i \in 1..Len(requests)
      BY <1>2, <2>1 DEF RequestsAlternate
    <2>2. CASE i = Len(requests) + 1
      BY <1>2, <1>3, <2>2
    <2> QED
      BY <1>2, <2>1, <2>2
  <1> QED
    BY <1>1, <1>2, <1>3, <1>4 DEF RequestsAlternate

\* Taking the oldest request shifts the channel by one position, and it was
\* the one whose turn it is.
LEMMA TakeAlternates ==
    ASSUME TypeOK, RequestsAlternate, requests # <<>>,
           Taken' = Taken + 1, requests' = Tail(requests),
           UNCHANGED <<begun, ended>>
    PROVE  /\ RequestsAlternate'
           /\ requests' \in Seq(SyncRequest)
           /\ Head(requests) = Kind(Taken + 1)
           /\ Taken + 1 <= begun + ended
  <1>1. Taken \in Nat /\ begun + ended \in Nat
    BY MaxCyclesAssumption DEF Taken, TypeOK
  <1>2. /\ Head(requests) = requests[1] /\ Len(requests) >= 1
        /\ requests' \in Seq(SyncRequest)
        /\ Len(requests') = Len(requests) - 1 /\ Len(requests) \in Nat
        /\ \A i \in 1..Len(requests') : requests'[i] = requests[i + 1]
    BY TailAt, LenProperties DEF TypeOK
  <1>3. ASSUME NEW i \in 1..Len(requests')
        PROVE  requests'[i] = Kind(Taken' + i)
    <2>1. requests'[i] = Kind(Taken + (i + 1))
      BY <1>2 DEF RequestsAlternate
    <2>2. Taken + (i + 1) = Taken' + i
      BY <1>1
    <2> QED
      BY <2>1, <2>2
  <1> QED
    BY <1>1, <1>2, <1>3 DEF RequestsAlternate

\* Sending the response whose turn it is keeps the responses alternating.
LEMMA AnswerAlternates ==
    ASSUME TypeOK, ResponsesMatchRequests,
           NEW e \in SyncResponse, e = Answer(stops + resumes),
           sync \in {"stopped", "resumed"}, sync' = "recv",
           responses' = Append(responses, e), UNCHANGED <<stops, resumes>>
    PROVE  ResponsesMatchRequests' /\ responses' \in Seq(SyncResponse)
  <1>1. /\ responses' \in Seq(SyncResponse)
        /\ Len(responses') = Len(responses) + 1 /\ Len(responses) \in Nat
        /\ \A i \in 1..Len(responses) : responses'[i] = responses[i]
        /\ responses'[Len(responses) + 1] = e
    BY AppendAt, LenProperties DEF TypeOK
  <1>2. Len(responses) + 1 = stops + resumes /\ stops + resumes \in Nat
    BY <1>1 DEF ResponsesMatchRequests, TypeOK
  <1>3. ASSUME NEW i \in 1..Len(responses')
        PROVE  responses'[i] = Answer(i)
    <2>1. CASE i \in 1..Len(responses)
      BY <1>1, <2>1 DEF ResponsesMatchRequests
    <2>2. CASE i = Len(responses) + 1
      BY <1>1, <1>2, <2>2
    <2> QED
      BY <1>1, <2>1, <2>2
  <1> QED
    BY <1>1, <1>2, <1>3 DEF ResponsesMatchRequests

-----------------------------------------------------------------------------
(* The inductive invariant.                                                *)

\* The invariant holds when the synchronizer thread has started and nobody
\* collects.
LEMMA InitIInv == Init => IInv
  <1> SUFFICES ASSUME Init PROVE IInv
    OBVIOUS
  <1> USE DEF Init
  <1>1. TypeOK
    <2>1. requests \in Seq(SyncRequest) /\ responses \in Seq(SyncResponse)
      BY EmptySeq
    <2>2. begun \in 0..MaxCycles /\ ended \in 0..MaxCycles
      BY MaxCyclesAssumption
    <2> QED
      BY <2>1, <2>2 DEF TypeOK
  <1>2. WorkerInv /\ ServerInv
    BY DEF WorkerInv, ServerInv
  <1>3. RequestsAlternate /\ ResponsesMatchRequests
    BY DEF RequestsAlternate, ResponsesMatchRequests, Taken
  <1>4. StoppedMeansParked /\ NoLostWakeup
    BY DEF StoppedMeansParked, NoLostWakeup
  <1> QED
    BY <1>1, <1>2, <1>3, <1>4 DEF IInv

\* The steps of a mutator thread: they move threads between running,
\* requesting and parked, and can only raise the request flag.
LEMMA MutatorStep ==
    ASSUME IInv, NEW m \in Mutators, RequestGc(m) \/ BlockForGc(m) \/ Yield(m)
    PROVE  IInv'
  <1> USE DEF IInv, server, core
  <1>1. TypeOK'
    BY DEF TypeOK, RequestGc, BlockForGc, Yield
  <1>2. WorkerInv' /\ ServerInv'
    BY DEF WorkerInv, ServerInv, RequestGc, BlockForGc, Yield
  <1>3. RequestsAlternate'
    BY DEF RequestsAlternate, Taken, RequestGc, BlockForGc, Yield
  <1>4. ResponsesMatchRequests'
    BY DEF ResponsesMatchRequests, RequestGc, BlockForGc, Yield
  <1>5. StoppedMeansParked'
    BY DEF StoppedMeansParked, AllParked, TypeOK, RequestGc, BlockForGc, Yield
  <1>6. NoLostWakeup'
    <2>1. CASE RequestGc(m)
      BY <2>1 DEF NoLostWakeup, RequestGc
    <2>2. CASE BlockForGc(m)
      BY <2>2 DEF NoLostWakeup, BlockForGc
    <2>3. CASE Yield(m)
      \* The flag is up: a stop is under way or done, so its collection has
      \* begun and its resume is still to come.
      <3>1. resumes < begun
        BY <2>3 DEF Yield, ServerInv, RequestsAlternate, Taken, WorkerInv, TypeOK
      <3> QED
        BY <2>3, <3>1 DEF NoLostWakeup, Yield
    <2> QED
      BY <2>1, <2>2, <2>3
  <1> QED
    BY <1>1, <1>2, <1>3, <1>4, <1>5, <1>6

\* The worker's two sends and its scan: the request sent is the one whose
\* turn it is because the worker is between the two of a collection.
LEMMA WorkerStep ==
    ASSUME IInv, StopAllMutators \/ ScanRoots \/ ResumeMutators
    PROVE  IInv'
  <1> USE DEF IInv, server, threads
  <1>1. CASE StopAllMutators
    <2> USE <1>1 DEF StopAllMutators
    <2>1. /\ begun = ended
          /\ Kind(begun + ended + 1) = "Acquire"
      BY Parity DEF WorkerInv, TypeOK
    <2>2. TypeOK'
      <3>1. requests' \in Seq(SyncRequest)
        BY AppendAt DEF TypeOK, SyncRequest
      <3>2. begun' \in 0..MaxCycles
        BY MaxCyclesAssumption DEF TypeOK, WorkerInv
      <3> QED
        BY <3>1, <3>2 DEF TypeOK
    <2>3. WorkerInv' /\ ServerInv'
      BY DEF WorkerInv, ServerInv, TypeOK
    <2>4. RequestsAlternate'
      BY <2>1, SendAlternates DEF Taken, SyncRequest, TypeOK
    <2>5. ResponsesMatchRequests' /\ StoppedMeansParked' /\ NoLostWakeup'
      <3>1. ResponsesMatchRequests'
        BY DEF ResponsesMatchRequests
      <3>2. StoppedMeansParked'
        BY DEF StoppedMeansParked, AllParked
      <3>3. resumes < begun'
        BY DEF ServerInv, RequestsAlternate, Taken, WorkerInv, TypeOK
      <3> QED
        BY <3>1, <3>2, <3>3 DEF NoLostWakeup
    <2> QED
      BY <2>2, <2>3, <2>4, <2>5
  <1>2. CASE ScanRoots
    <2> USE <1>2 DEF ScanRoots
    <2>1. TypeOK' /\ WorkerInv' /\ ServerInv'
      BY DEF TypeOK, WorkerInv, ServerInv
    <2>2. RequestsAlternate' /\ ResponsesMatchRequests'
      BY DEF RequestsAlternate, ResponsesMatchRequests, Taken
    <2>3. StoppedMeansParked' /\ NoLostWakeup'
      BY DEF StoppedMeansParked, AllParked, NoLostWakeup
    <2> QED
      BY <2>1, <2>2, <2>3
  <1>3. CASE ResumeMutators
    <2> USE <1>3 DEF ResumeMutators
    <2>1. /\ begun = ended + 1
          /\ Kind(begun + ended + 1) = "Release"
      <3>1. begun = ended + 1 /\ ended \in Nat
        BY DEF WorkerInv, TypeOK
      <3>2. begun + ended + 1 = ended + ended + 2
        BY <3>1
      <3> QED
        BY <3>1, <3>2, Parity
    <2>2. TypeOK'
      BY <2>1, AppendAt DEF TypeOK, SyncRequest
    <2>3. WorkerInv' /\ ServerInv'
      BY <2>1 DEF WorkerInv, ServerInv, TypeOK
    <2>4. RequestsAlternate'
      BY <2>1, SendAlternates DEF Taken, SyncRequest, TypeOK
    <2>5. ResponsesMatchRequests' /\ StoppedMeansParked' /\ NoLostWakeup'
      BY DEF ResponsesMatchRequests, StoppedMeansParked, AllParked, NoLostWakeup
    <2> QED
      BY <2>2, <2>3, <2>4, <2>5
  <1> QED
    BY <1>1, <1>2, <1>3

\* The synchronizer thread's steps: parity ties what it takes from the
\* channel to whether the world is stopped.
LEMMA ServerStep ==
    ASSUME IInv,
           \/ ReceiveAcquire \/ StopReturns \/ SendAcquired
           \/ ReceiveRelease \/ ResumeReturns \/ SendReleased
    PROVE  IInv'
  <1> USE DEF IInv, core, threads
  <1>1. CASE ReceiveAcquire
    <2> USE <1>1 DEF ReceiveAcquire
    <2>1. Taken' = Taken + 1
      BY DEF Taken, TypeOK
    <2>2. /\ RequestsAlternate' /\ requests' \in Seq(SyncRequest)
          /\ Kind(stops + resumes + 1) = "Acquire"
      BY <2>1, TakeAlternates DEF Taken, TypeOK
    <2>3. stops = resumes
      BY <2>2 DEF Kind, ServerInv, TypeOK
    <2>4. TypeOK' /\ WorkerInv' /\ ServerInv'
      BY <2>2, <2>3 DEF TypeOK, WorkerInv, ServerInv
    <2>5. ResponsesMatchRequests' /\ StoppedMeansParked' /\ NoLostWakeup'
      BY DEF ResponsesMatchRequests, StoppedMeansParked, AllParked, NoLostWakeup
    <2> QED
      BY <2>2, <2>4, <2>5
  <1>2. CASE StopReturns
    <2> USE <1>2 DEF StopReturns
    <2>1. TypeOK' /\ WorkerInv' /\ ServerInv'
      BY DEF TypeOK, WorkerInv, ServerInv
    <2>2. Taken' = Taken
      BY DEF Taken, TypeOK
    <2>3. RequestsAlternate' /\ ResponsesMatchRequests'
      BY <2>2 DEF RequestsAlternate, ResponsesMatchRequests, TypeOK
    <2>4. StoppedMeansParked' /\ NoLostWakeup'
      BY DEF StoppedMeansParked, AllParked, NoLostWakeup
    <2> QED
      BY <2>1, <2>3, <2>4
  <1>3. CASE SendAcquired
    <2> USE <1>3 DEF SendAcquired
    <2>1. stops = resumes + 1
      BY DEF ServerInv
    <2>2. Answer(stops + resumes) = "Acquired"
      BY <2>1 DEF Answer, TypeOK
    <2>3. ResponsesMatchRequests' /\ responses' \in Seq(SyncResponse)
      BY <2>2, AnswerAlternates DEF SyncResponse
    <2>4. TypeOK' /\ WorkerInv' /\ ServerInv'
      BY <2>1, <2>3 DEF TypeOK, WorkerInv, ServerInv
    <2>5. RequestsAlternate' /\ StoppedMeansParked' /\ NoLostWakeup'
      BY DEF RequestsAlternate, Taken, StoppedMeansParked, AllParked, NoLostWakeup
    <2> QED
      BY <2>3, <2>4, <2>5
  <1>4. CASE ReceiveRelease
    <2> USE <1>4 DEF ReceiveRelease
    <2>1. Taken' = Taken + 1
      BY DEF Taken, TypeOK
    <2>2. /\ RequestsAlternate' /\ requests' \in Seq(SyncRequest)
          /\ Kind(stops + resumes + 1) = "Release"
      BY <2>1, TakeAlternates DEF Taken, TypeOK
    <2>3. stops = resumes + 1
      BY <2>2 DEF Kind, ServerInv, TypeOK
    <2>4. TypeOK' /\ WorkerInv' /\ ServerInv'
      BY <2>2, <2>3 DEF TypeOK, WorkerInv, ServerInv
    <2>5. ResponsesMatchRequests' /\ StoppedMeansParked' /\ NoLostWakeup'
      BY DEF ResponsesMatchRequests, StoppedMeansParked, AllParked, NoLostWakeup
    <2> QED
      BY <2>2, <2>4, <2>5
  <1>5. CASE ResumeReturns
    <2>1. /\ sync = "resuming" /\ sync' = "resumed"
          /\ stopFlag' = FALSE /\ resumes' = resumes + 1
          /\ UNCHANGED <<gcRequested, gc, begun, ended, requests, locked,
                         responses, stops>>
      BY <1>5 DEF ResumeReturns
    <2>2. mutator' = [m \in Mutators |->
                        IF mutator[m] = "parked" THEN "running" ELSE mutator[m]]
      BY <1>5 DEF ResumeReturns
    <2>3. stops = resumes + 1 /\ AllParked
      BY <2>1 DEF ServerInv, StoppedMeansParked, TypeOK
    <2>4. /\ mutator' \in [Mutators -> {"running", "requesting", "parked"}]
          /\ \A m \in Mutators : mutator'[m] = "running"
      BY <2>2, <2>3 DEF AllParked, TypeOK
    <2>5. TypeOK' /\ WorkerInv' /\ ServerInv'
      <3>1. TypeOK'
        <4>1. stopFlag' \in BOOLEAN /\ gcRequested' \in BOOLEAN /\ locked' \in BOOLEAN
          BY <2>1 DEF TypeOK
        <4>2. /\ requests' \in Seq(SyncRequest) /\ responses' \in Seq(SyncResponse)
          BY <2>1 DEF TypeOK
        <4>3. /\ begun' \in 0..MaxCycles /\ ended' \in 0..MaxCycles
              /\ stops' \in Nat /\ resumes' \in Nat
          BY <2>1 DEF TypeOK
        <4>4. /\ gc' \in {"idle", "roots", "trace"}
              /\ sync' \in {"recv", "stopping", "stopped", "resuming", "resumed"}
          BY <2>1 DEF TypeOK
        <4> QED
          BY <2>4, <4>1, <4>2, <4>3, <4>4 DEF TypeOK
      <3>2. WorkerInv'
        BY <2>1 DEF WorkerInv
      <3>3. ServerInv'
        BY <2>1, <2>3 DEF ServerInv, TypeOK
      <3> QED
        BY <3>1, <3>2, <3>3
    <2>6. Taken' = Taken
      BY <2>1 DEF Taken, TypeOK
    <2>7. RequestsAlternate' /\ ResponsesMatchRequests'
      BY <2>1, <2>6 DEF RequestsAlternate, ResponsesMatchRequests, TypeOK
    <2>8. StoppedMeansParked' /\ NoLostWakeup'
      BY <2>1, <2>3, <2>4 DEF StoppedMeansParked, NoLostWakeup, TypeOK
    <2> QED
      BY <2>5, <2>7, <2>8
  <1>6. CASE SendReleased
    <2> USE <1>6 DEF SendReleased
    <2>1. stops = resumes
      BY DEF ServerInv
    <2>2. Answer(stops + resumes) = "Released"
      BY <2>1 DEF Answer, TypeOK
    <2>3. ResponsesMatchRequests' /\ responses' \in Seq(SyncResponse)
      BY <2>2, AnswerAlternates DEF SyncResponse
    <2>4. TypeOK' /\ WorkerInv' /\ ServerInv'
      BY <2>1, <2>3 DEF TypeOK, WorkerInv, ServerInv
    <2>5. RequestsAlternate' /\ StoppedMeansParked' /\ NoLostWakeup'
      BY DEF RequestsAlternate, Taken, StoppedMeansParked, AllParked, NoLostWakeup
    <2> QED
      BY <2>3, <2>4, <2>5
  <1> QED
    BY <1>1, <1>2, <1>3, <1>4, <1>5, <1>6

\* The inductive invariant holds in every state of every behaviour.
THEOREM Invariance == Spec => []IInv
  <1>1. IInv /\ [Next]_vars => IInv'
    <2> SUFFICES ASSUME IInv, [Next]_vars PROVE IInv'
      OBVIOUS
    <2>1. CASE \E m \in Mutators : RequestGc(m) \/ BlockForGc(m) \/ Yield(m)
      BY <2>1, MutatorStep
    <2>2. CASE StopAllMutators \/ ScanRoots \/ ResumeMutators
      BY <2>2, WorkerStep
    <2>3. CASE \/ ReceiveAcquire \/ StopReturns \/ SendAcquired
               \/ ReceiveRelease \/ ResumeReturns \/ SendReleased
      BY <2>3, ServerStep
    <2>4. CASE UNCHANGED vars \/ \E m \in Mutators : Mutate(m)
      <3>1. UNCHANGED vars
        BY <2>4 DEF Mutate
      <3> QED
        BY <3>1 DEF vars, IInv, TypeOK, WorkerInv, ServerInv, RequestsAlternate, Taken,
             ResponsesMatchRequests, StoppedMeansParked, AllParked, NoLostWakeup
    <2> QED
      BY <2>1, <2>2, <2>3, <2>4 DEF Next
  <1> QED
    BY <1>1, InitIInv, PTL DEF Spec

-----------------------------------------------------------------------------
(* What follows from it.                                                   *)

\* Type correctness: in particular no run begins more than MaxCycles
\* collections although only RequestGc looks at the bound.
THEOREM TypeCorrect == Spec => []TypeOK
  BY Invariance, PTL DEF IInv

\* The synchronizer thread never takes a request out of turn.
THEOREM AlternationCorrect == Spec => []RequestsAlternate
  BY Invariance, PTL DEF IInv

\* No mutator leaves its parking place between a stop and its resume.
THEOREM StopIsStable == Spec => []StoppedMeansParked
  BY Invariance, PTL DEF IInv

\* The unread responses are the answers to the requests, in order.
THEOREM ResponsesCorrect == Spec => []ResponsesMatchRequests
  BY Invariance, PTL DEF IInv

\* A mutator that blocks always has a resume ahead of it.
THEOREM WakeupCorrect == Spec => []NoLostWakeup
  BY Invariance, PTL DEF IInv

-----------------------------------------------------------------------------
(* The handshake implements the ledger (its initial condition and steps;   *)
(* the fairness of PauseLedger!Spec is TLC's part, in property Ledger).    *)

\* Every step of the handshake is a step of PauseLedger or leaves its counters
\* alone.
LEMMA LedgerStep == IInv /\ [Next]_vars => [PauseLedger!Next]_(PauseLedger!ledger)
  <1> SUFFICES ASSUME IInv, [Next]_vars
               PROVE  PauseLedger!Next \/ UNCHANGED <<begun, ended, stops, resumes>>
    BY DEF PauseLedger!ledger
  <1> USE DEF IInv
  <1>1. CASE StopAllMutators
    \* The worker was idle, so the previous collection had ended.
    BY <1>1 DEF StopAllMutators, WorkerInv, server, PauseLedger!Next, PauseLedger!Begin
  <1>2. CASE ResumeMutators
    <2>1. ended < begun
      BY <1>2 DEF ResumeMutators, WorkerInv, TypeOK
    <2> QED
      BY <1>2, <2>1 DEF ResumeMutators, server, PauseLedger!Next, PauseLedger!End
  <1>3. CASE StopReturns
    <2>1. stops = resumes /\ Taken = stops + resumes + 1
      BY <1>3 DEF StopReturns, ServerInv, Taken
    <2>2. Len(requests) \in Nat
      BY LenProperties DEF TypeOK
    <2>3. stops < begun
      BY <2>1, <2>2 DEF RequestsAlternate, WorkerInv, TypeOK
    <2> QED
      BY <1>3, <2>1, <2>3 DEF StopReturns, core, PauseLedger!Next, PauseLedger!Stop
  <1>4. CASE ResumeReturns
    <2>1. stops = resumes + 1 /\ Taken = stops + resumes + 1
      BY <1>4 DEF ResumeReturns, ServerInv, Taken
    <2>2. Len(requests) \in Nat
      BY LenProperties DEF TypeOK
    <2>3. resumes < stops /\ resumes < ended
      BY <2>1, <2>2 DEF RequestsAlternate, WorkerInv, TypeOK
    <2> QED
      BY <1>4, <2>3 DEF ResumeReturns, core, PauseLedger!Next, PauseLedger!Resume
  <1>5. CASE \/ \E m \in Mutators : Mutate(m) \/ RequestGc(m) \/ BlockForGc(m) \/ Yield(m)
             \/ ScanRoots \/ ReceiveAcquire \/ SendAcquired
             \/ ReceiveRelease \/ SendReleased
             \/ UNCHANGED vars
    BY <1>5 DEF Mutate, RequestGc, BlockForGc, Yield, ScanRoots, ReceiveAcquire,
         SendAcquired, ReceiveRelease, SendReleased, vars, core, server
  <1> QED
    BY <1>1, <1>2, <1>3, <1>4, <1>5 DEF Next

\* Every behaviour of the handshake is a behaviour of the ledger.
THEOREM ImplementsLedger ==
    Spec => PauseLedger!Init /\ [][PauseLedger!Next]_(PauseLedger!ledger)
  <1>1. Init => PauseLedger!Init
    BY DEF Init, PauseLedger!Init
  <1> QED
    BY <1>1, LedgerStep, Invariance, PTL DEF Spec
=============================================================================
