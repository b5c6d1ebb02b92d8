----------------------------- MODULE Collection ------------------------------
(***************************************************************************)
(* One collection after the other against threads that come and go         *)
(* (active_plan.rs, api.rs, scanning.rs).  A thread binds a mutator and is *)
(* entered in the runtime's list of mutator threads, and leaves in the     *)
(* opposite order.  In a collection two GC workers read that list: one for *)
(* the roots, the other for the iterator of all mutators, whose references *)
(* mmtk-core keeps in work packets.  The visitor of stop_all_mutators,     *)
(* which would name every mutator once it has stopped, is never called, so *)
(* that nothing but this reading finds a stack.                            *)
(*                                                                         *)
(* The handshake is PauseLedger, which Synchronizer implements: the world  *)
(* is stopped from a stop to its resume, and no collection waits for its   *)
(* own stop.                                                               *)
(***************************************************************************)
EXTENDS Naturals, Sequences, Functions

CONSTANTS
    Threads,         \* mutator threads
    Early,           \* those listed before the first collection, in the list's
                     \* order; the others may start
    MaxCollections,  \* bound: collections
    None             \* the null pointer

ASSUME MaxCollectionsAssumption == MaxCollections \in Nat
ASSUME EarlyAssumption == Early \in Seq(Threads) /\ IsInjective(Early)
ASSUME NoneAssumption == None \notin Threads

VARIABLES
    begun, ended, stops, resumes,  \* of PauseLedger
    life,       \* what has become of each thread
    list,       \* the runtime's list of nodes, one for each listed thread
    walk,       \* where scan_roots_in_all_mutator_threads is
    head,       \* its local head
    scanned,    \* threads whose stacks it has scanned           (history)
    iter,       \* where the iterator of all mutators is
    node,       \* node the upcall get_mutators has got to
    mutators,   \* the iterator's queue
    packets,    \* mutators mmtk-core holds a work packet for
    prepared,   \* packets of each mutator that have run, up to 2  (history)
    quietWalk,  \* the walk, and the iterator, started after this
    quietIter   \* collection's own stop had returned            (history)

ledger == <<begun, ended, stops, resumes>>
threads == <<life, list>>
roots == <<walk, head, scanned, quietWalk>>
plan == <<iter, node, mutators, packets, prepared, quietIter>>
vars == <<begun, ended, stops, resumes, life, list, walk, head, scanned, iter,
          node, mutators, packets, prepared, quietWalk, quietIter>>

Pause == INSTANCE PauseLedger
           WITH begun <- begun, ended <- ended, stops <- stops, resumes <- resumes

Stopped == stops > resumes
Listed == Range(list)
\* The Box of the mutator exists.
Boxed(t) == life[t] \in {"bound", "listed", "leaving"}

First == IF list = <<>> THEN None ELSE list[1]
After(t) == LET i == CHOOSE j \in DOMAIN list : list[j] = t IN
            IF i = Len(list) THEN None ELSE list[i + 1]

Init ==
    /\ Pause!Init
    /\ list = Early
    /\ life = [t \in Threads |-> IF t \in Range(Early) THEN "listed" ELSE "new"]
    /\ walk = "off" /\ head = None /\ scanned = <<>> /\ quietWalk = FALSE
    /\ iter = "off" /\ node = None /\ mutators = <<>> /\ packets = {}
    /\ prepared = [t \in Threads |-> 0] /\ quietIter = FALSE

-----------------------------------------------------------------------------
(* Threads.  The list is the runtime's: it does not change while the world *)
(* is stopped, but a thread that is not in it is not waited for.           *)

Become(t, stage) == life' = [life EXCEPT ![t] = stage]

BindMutator(t) ==
    /\ life[t] = "new"
    /\ Become(t, "bound")
    /\ UNCHANGED <<ledger, list, roots, plan>>

Enlist(t) ==
    /\ life[t] = "bound" /\ ~Stopped
    /\ Become(t, "listed")
    /\ list' = <<t>> \o list
    /\ UNCHANGED <<ledger, roots, plan>>

\* The node is freed with it.
Unlist(t) ==
    /\ life[t] = "listed" /\ ~Stopped
    /\ Become(t, "leaving")
    /\ \E i \in DOMAIN list :
         /\ list[i] = t
         /\ list' = [j \in 1..(Len(list) - 1) |-> list[IF j < i THEN j ELSE j + 1]]
    /\ UNCHANGED <<ledger, roots, plan>>

\* Mutant: the mutator is destroyed before the thread leaves the list.
DestroyMutatorListed(t) ==
    /\ life[t] \in {"listed", "leaving"} /\ ~Stopped
    /\ Become(t, "gone")
    /\ UNCHANGED <<ledger, list, roots, plan>>

DestroyMutator(t) ==
    /\ life[t] = "leaving"
    /\ Become(t, "gone")
    /\ UNCHANGED <<ledger, list, roots, plan>>

-----------------------------------------------------------------------------
(* The roots of the virtual machine: the list, node by node, with no lock. *)

StartWalk ==
    /\ walk = "start"
    /\ walk' = "node" /\ head' = First
    /\ quietWalk' = (stops = begun)
    /\ UNCHANGED <<ledger, threads, scanned, plan>>

\* mmtk_mark_program_stack of the thread in the node.
ScanStack ==
    /\ walk = "node" /\ head \in Listed
    /\ walk' = "next" /\ scanned' = Append(scanned, head)
    /\ UNCHANGED <<ledger, threads, head, quietWalk, plan>>

\* Mutant: head is advanced twice.
NextNodeTwice ==
    /\ walk = "next" /\ head \in Listed
    /\ walk' = "node" /\ head' = IF After(head) = None THEN None ELSE After(After(head))
    /\ UNCHANGED <<ledger, threads, scanned, quietWalk, plan>>

NextNode ==
    /\ walk = "next" /\ head \in Listed
    /\ walk' = "node" /\ head' = After(head)
    /\ UNCHANGED <<ledger, threads, scanned, quietWalk, plan>>

\* Mutant: nothing tells that the walk is over.
EndWalkOff ==
    /\ walk = "node" /\ head = None
    /\ walk' = "off"
    /\ UNCHANGED <<ledger, threads, head, scanned, quietWalk, plan>>

EndWalk ==
    /\ walk = "node" /\ head = None
    /\ walk' = "done"
    /\ UNCHANGED <<ledger, threads, head, scanned, quietWalk, plan>>

\* The node has been freed: what value and next then are is undefined.
WalkStray ==
    /\ walk \in {"node", "next"} /\ head \notin Listed \cup {None}
    /\ walk' = "undefined"
    /\ UNCHANGED <<ledger, threads, head, scanned, quietWalk, plan>>

-----------------------------------------------------------------------------
(* The iterator of all mutators, and the packets mmtk-core fills from it.  *)

\* ScalaNativeMutatorIterator::new up to the upcall get_mutators.
NewIterator ==
    /\ iter = "start"
    /\ iter' = "fill" /\ node' = First /\ mutators' = <<>>
    /\ quietIter' = (stops = begun)
    /\ UNCHANGED <<ledger, threads, roots, packets, prepared>>

\* The upcall invokes the closure on the mutator of a node.
PushBack ==
    /\ iter = "fill" /\ node \in Listed
    /\ mutators' = Append(mutators, node) /\ node' = After(node)
    /\ UNCHANGED <<ledger, threads, roots, iter, packets, prepared, quietIter>>

EndNew ==
    /\ iter = "fill" /\ node = None
    /\ iter' = "yield"
    /\ UNCHANGED <<ledger, threads, roots, node, mutators, packets, prepared, quietIter>>

\* Mutant: the front of the queue is returned and not removed.
PopFrontPeek ==
    /\ iter = "yield"
    /\ IF mutators = <<>> THEN iter' = "done" /\ UNCHANGED packets
       ELSE packets' = packets \cup {Head(mutators)} /\ UNCHANGED iter
    /\ UNCHANGED <<ledger, threads, roots, node, mutators, prepared, quietIter>>

\* Mutant: the last mutator is not returned.
PopFrontButLast ==
    /\ iter = "yield"
    /\ IF Len(mutators) <= 1 THEN iter' = "done" /\ UNCHANGED <<mutators, packets>>
       ELSE /\ packets' = packets \cup {Head(mutators)}
            /\ mutators' = Tail(mutators)
            /\ UNCHANGED iter
    /\ UNCHANGED <<ledger, threads, roots, node, prepared, quietIter>>

\* next of the iterator: a packet for the mutator it returns, if any.
PopFront ==
    /\ iter = "yield"
    /\ IF mutators = <<>> THEN iter' = "done" /\ UNCHANGED <<mutators, packets>>
       ELSE /\ packets' = packets \cup {Head(mutators)}
            /\ mutators' = Tail(mutators)
            /\ UNCHANGED iter
    /\ UNCHANGED <<ledger, threads, roots, node, prepared, quietIter>>

Prepare(t) ==
    /\ t \in packets /\ Boxed(t) /\ iter # "undefined"
    /\ packets' = packets \ {t} /\ prepared' = [prepared EXCEPT ![t] = IF @ = 0 THEN 1 ELSE 2]
    /\ UNCHANGED <<ledger, threads, roots, iter, node, mutators, quietIter>>

\* The node, or the mutator of a packet, has been freed.
IterStray ==
    /\ iter # "undefined"
    /\ \/ iter = "fill" /\ node \notin Listed \cup {None}
       \/ \E t \in packets : ~Boxed(t)
    /\ iter' = "undefined"
    /\ UNCHANGED <<ledger, threads, roots, node, mutators, packets, prepared, quietIter>>

-----------------------------------------------------------------------------
(* The collection.                                                         *)

Begin ==
    /\ begun < MaxCollections /\ Pause!Begin
    /\ walk' = "start" /\ iter' = "start"
    /\ UNCHANGED <<threads, head, scanned, quietWalk, node, mutators, packets,
                   prepared, quietIter>>

End ==
    /\ walk = "done" /\ iter = "done" /\ packets = {}
    /\ Pause!End
    /\ walk' = "off" /\ scanned' = <<>> /\ quietWalk' = FALSE
    /\ iter' = "off" /\ prepared' = [t \in Threads |-> 0] /\ quietIter' = FALSE
    /\ UNCHANGED <<threads, head, node, mutators, packets>>

Stop == Pause!Stop /\ UNCHANGED <<threads, roots, plan>>
Resume == Pause!Resume /\ UNCHANGED <<threads, roots, plan>>

Thread(t) == BindMutator(t) \/ Enlist(t) \/ Unlist(t) \/ DestroyMutator(t)
Walk == StartWalk \/ ScanStack \/ NextNode \/ EndWalk \/ WalkStray
Iterate == NewIterator \/ PushBack \/ EndNew \/ PopFront \/ IterStray

Next ==
    \/ \E t \in Threads : Thread(t) \/ Prepare(t)
    \/ Walk \/ Iterate
    \/ Begin \/ End \/ Stop \/ Resume

\* GC workers are scheduled, and the handshake does what PauseLedger says;
\* no thread has to start or leave, and no collection has to begin.
Fairness ==
    /\ WF_vars(Walk) /\ WF_vars(Iterate)
    /\ \A t \in Threads : WF_vars(Prepare(t))
    /\ WF_vars(End) /\ WF_vars(Stop) /\ WF_vars(Resume)

Spec == Init /\ [][Next]_vars /\ Fairness

-----------------------------------------------------------------------------
(* Properties.                                                             *)

\* Type invariant.  A collection is under way just while its two readers are.
TypeOK ==
    /\ begun \in 0..MaxCollections /\ ended \in 0..begun
    /\ stops \in 0..begun /\ resumes \in 0..stops
    /\ life \in [Threads -> {"new", "bound", "listed", "leaving", "gone"}]
    /\ list \in Seq(Threads) /\ scanned \in Seq(Threads)
    /\ mutators \in Seq(Threads) /\ prepared \in [Threads -> 0..2]
    /\ head \in Threads \cup {None} /\ node \in Threads \cup {None}
    /\ packets \subseteq Threads
    /\ quietWalk \in BOOLEAN /\ quietIter \in BOOLEAN
    /\ walk \in {"off", "start", "node", "next", "done", "undefined"}
    /\ iter \in {"off", "start", "fill", "yield", "done", "undefined"}
    /\ begun = ended <=> walk = "off"
    /\ walk = "off" <=> iter = "off"

\* A walk that starts once the stop of its own collection has returned scans
\* the stack of every mutator thread there is, each once, and of no other: the
\* list cannot change under it.  That the world is stopped when it starts
\* would not do: that may be the stop of an earlier collection, whose resume is
\* still to come (scanning.rs:344-350, collection.rs:33-42).
WalkExact == walk = "done" /\ quietWalk => scanned = list

\* So it is with the mutators that the iterator names: all of them, each once,
\* by the time the collection ends (active_plan.rs:17-43).
PreparedExact ==
    iter = "done" /\ packets = {} /\ quietIter
      => \A t \in Threads : prepared[t] = IF t \in Listed THEN 1 ELSE 0

\* Under the same condition no reader goes to a node that has been freed, and
\* neither the queue nor a packet refers to a mutator whose Box is gone
\* (active_plan.rs:26, api.rs:97-102).
NoDangling ==
    /\ quietWalk /\ walk \in {"node", "next", "undefined"}
         => walk # "undefined" /\ head \in Listed \cup {None}
    /\ quietIter /\ iter \in {"fill", "yield", "done", "undefined"}
         => /\ iter # "undefined"
            /\ iter = "fill" => node \in Listed \cup {None}
            /\ \A t \in Range(mutators) \cup packets : Boxed(t)

\* A collection ends, unless a reader has gone to freed memory, and the mutators
\* go again after it.
CollectionsEnd ==
    begun > resumes ~> \/ begun = resumes
                       \/ walk = "undefined" \/ iter = "undefined"
=============================================================================
