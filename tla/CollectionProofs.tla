--------------------------- MODULE CollectionProofs ---------------------------
(***************************************************************************)
(* Proofs about Collection: what a reader of the list of mutator threads   *)
(* that starts after its own collection's stop sees, for any threads and   *)
(* any number of collections.                                              *)
(***************************************************************************)
EXTENDS Collection, TLAPS, SequenceTheorems

\* Stops and resumes alternate and lag behind what the worker asks for.
LedgerInv ==
    /\ stops <= resumes + 1 /\ resumes <= ended
    /\ begun <= ended + 1

\* A node of the list is a listed thread, and there is one for each.
ListInv ==
    /\ IsInjective(list)
    /\ \A t \in Threads : life[t] = "listed" <=> t \in Listed

\* A reader that has seen its own collection's stop: the stop is the last one
\* that there is to be until the collection ends.
QuietInv ==
    /\ quietWalk \/ quietIter => stops = begun /\ begun # ended
    /\ walk \in {"off", "start"} => ~quietWalk /\ scanned = <<>>
    /\ iter \in {"off", "start"} =>
         ~quietIter /\ packets = {} /\ prepared = [t \in Threads |-> 0]

\* The walk has scanned a prefix of the list and is at its end.
WalkInv ==
    quietWalk =>
      /\ walk # "undefined"
      /\ Len(scanned) <= Len(list)
      /\ \A i \in 1..Len(scanned) : scanned[i] = list[i]
      /\ walk = "node" =>
           head = IF Len(scanned) = Len(list) THEN None ELSE list[Len(scanned) + 1]
      /\ walk = "next" => Len(scanned) > 0 /\ head = list[Len(scanned)]
      /\ walk = "done" => Len(scanned) = Len(list)

\* The queue is a prefix of the list while it is filled, and a suffix after:
\* packets have been made for what is missing from it, and for nothing else.
Made == Len(list) - Len(mutators)
FillInv ==
    iter = "fill" =>
      /\ Len(mutators) <= Len(list)
      /\ \A i \in 1..Len(mutators) : mutators[i] = list[i]
      /\ node = IF Len(mutators) = Len(list) THEN None ELSE list[Len(mutators) + 1]
      /\ packets = {} /\ prepared = [t \in Threads |-> 0]
YieldInv ==
    iter \in {"yield", "done"} =>
      /\ Len(mutators) <= Len(list)
      /\ \A i \in 1..Len(mutators) : mutators[i] = list[Made + i]
      /\ \A i \in 1..Made : prepared[list[i]] = IF list[i] \in packets THEN 0 ELSE 1
      /\ \A i \in (Made + 1)..Len(list) : list[i] \notin packets /\ prepared[list[i]] = 0
      /\ \A t \in Threads \ Listed : t \notin packets /\ prepared[t] = 0
      /\ iter = "done" => mutators = <<>>
IterInv == quietIter => iter # "undefined" /\ FillInv /\ YieldInv

IInv == TypeOK /\ LedgerInv /\ ListInv /\ QuietInv /\ WalkInv /\ IterInv

-----------------------------------------------------------------------------
(* Sequences without repetition.                                           *)

\* Putting a new element in front keeps a sequence without repetition.
LEMMA PrependOnce ==
    ASSUME NEW S, NEW s \in Seq(S), IsInjective(s), NEW t \in S, t \notin Range(s)
    PROVE  /\ <<t>> \o s \in Seq(S) /\ IsInjective(<<t>> \o s)
           /\ \A u \in S : u \in Range(<<t>> \o s) <=> u = t \/ u \in Range(s)
  <1> DEFINE r == <<t>> \o s
  <1>1. /\ r \in Seq(S) /\ Len(r) = Len(s) + 1 /\ Len(s) \in Nat
        /\ r[1] = t /\ \A i \in 1..Len(s) : r[i + 1] = s[i]
    OBVIOUS
  <1> HIDE DEF r
  <1>2. \A i \in 1..Len(r) : i = 1 \/ (i - 1 \in 1..Len(s) /\ r[i] = s[i - 1])
    <2> SUFFICES ASSUME NEW i \in 1..Len(r), i # 1
                 PROVE  i - 1 \in 1..Len(s) /\ r[i] = s[i - 1]
      OBVIOUS
    <2>1. i - 1 \in 1..Len(s) /\ (i - 1) + 1 = i
      BY <1>1
    <2> QED
      BY <1>1, <2>1
  <1>3. DOMAIN s = 1..Len(s) /\ DOMAIN r = 1..Len(r)
    BY <1>1
  <1>4. \A i, j \in 1..Len(s) : s[i] = s[j] => i = j
    BY <1>3 DEF IsInjective
  <1>5. \A i \in 1..Len(s) : s[i] # t
    BY <1>3 DEF Range
  <1>6. \A i, j \in 1..Len(r) : r[i] = r[j] => i = j
    <2> SUFFICES ASSUME NEW i \in 1..Len(r), NEW j \in 1..Len(r), r[i] = r[j]
                 PROVE  i = j
      OBVIOUS
    <2>1. CASE i # 1 /\ j # 1
      <3>1. i - 1 = j - 1
        BY <1>2, <1>4, <2>1
      <3> QED
        BY <1>1, <3>1
    <2> QED
      BY <1>1, <1>2, <1>5, <2>1
  <1>7. \A u \in S : u \in Range(r) <=> u = t \/ u \in Range(s)
    <2> SUFFICES ASSUME NEW u \in S PROVE u \in Range(r) <=> u = t \/ u \in Range(s)
      OBVIOUS
    <2>1. ASSUME NEW i \in 1..Len(r), r[i] = u PROVE u = t \/ u \in Range(s)
      BY <1>1, <1>2, <1>3, <2>1 DEF Range
    <2>2. ASSUME NEW i \in 1..Len(s), s[i] = u PROVE u \in Range(r)
      <3>1. i + 1 \in 1..Len(r) /\ r[i + 1] = u
        BY <1>1, <2>2
      <3> QED
        BY <1>3, <3>1 DEF Range
    <2>3. t \in Range(r)
      BY <1>1, <1>3 DEF Range
    <2> QED
      BY <1>3, <2>1, <2>2, <2>3 DEF Range
  <1>8. IsInjective(r)
    BY <1>3, <1>6 DEF IsInjective
  <1> QED
    BY <1>1, <1>7, <1>8 DEF r

\* A sequence without its i-th element.
Without(s, i) == [j \in 1..(Len(s) - 1) |-> s[IF j < i THEN j ELSE j + 1]]

\* Taking the i-th element out removes it and nothing else.
LEMMA DeleteOnce ==
    ASSUME NEW S, NEW s \in Seq(S), IsInjective(s), NEW i \in 1..Len(s)
    PROVE  /\ Without(s, i) \in Seq(S) /\ IsInjective(Without(s, i))
           /\ \A u \in S : u \in Range(Without(s, i)) <=> u # s[i] /\ u \in Range(s)
  <1> DEFINE r == Without(s, i)
  <1>1. Len(s) \in Nat /\ Len(s) - 1 \in Nat /\ DOMAIN s = 1..Len(s)
    OBVIOUS
  <1> DEFINE At(j) == IF j < i THEN j ELSE j + 1
  <1>2. \A j \in 1..(Len(s) - 1) : At(j) \in 1..Len(s) /\ At(j) # i
    BY <1>1
  <1>3. \A j, k \in 1..(Len(s) - 1) : At(j) = At(k) => j = k
    BY <1>1
  <1>4. \A k \in 1..Len(s) : k # i => \E j \in 1..(Len(s) - 1) : At(j) = k
    <2> SUFFICES ASSUME NEW k \in 1..Len(s), k # i
                 PROVE  \E j \in 1..(Len(s) - 1) : At(j) = k
      OBVIOUS
    <2>1. CASE k < i
      <3>1. k \in 1..(Len(s) - 1) /\ At(k) = k
        BY <1>1, <2>1
      <3> QED
        BY <3>1
    <2>2. CASE k > i
      <3>1. k - 1 \in 1..(Len(s) - 1) /\ At(k - 1) = k
        BY <1>1, <2>2
      <3> QED
        BY <3>1
    <2> QED
      BY <1>1, <2>1, <2>2
  <1>5. r = [j \in 1..(Len(s) - 1) |-> s[At(j)]]
    BY DEF Without
  <1> HIDE DEF At, r
  <1>6. DOMAIN r = 1..(Len(s) - 1) /\ \A j \in 1..(Len(s) - 1) : r[j] = s[At(j)]
    BY <1>5
  <1>7. r \in Seq(S)
    <2>1. \A j \in 1..(Len(s) - 1) : s[At(j)] \in S
      BY <1>2
    <2> QED
      BY <1>1, <1>5, <2>1
  <1>8. \A j, k \in 1..Len(s) : s[j] = s[k] => j = k
    BY <1>1 DEF IsInjective
  <1>9. IsInjective(r)
    BY <1>2, <1>3, <1>6, <1>8 DEF IsInjective
  <1>10. \A u \in S : u \in Range(r) <=> u # s[i] /\ u \in Range(s)
    <2> SUFFICES ASSUME NEW u \in S
                 PROVE  u \in Range(r) <=> u # s[i] /\ u \in Range(s)
      OBVIOUS
    <2>1. ASSUME NEW j \in 1..(Len(s) - 1), r[j] = u PROVE u # s[i] /\ u \in Range(s)
      BY <1>1, <1>2, <1>6, <1>8, <2>1 DEF Range
    <2>2. ASSUME NEW k \in 1..Len(s), s[k] = u, u # s[i] PROVE u \in Range(r)
      <3>1. PICK j \in 1..(Len(s) - 1) : At(j) = k
        BY <1>4, <2>2
      <3> QED
        BY <1>6, <2>2, <3>1 DEF Range
    <2> QED
      BY <1>1, <1>6, <2>1, <2>2 DEF Range
  <1> QED
    BY <1>7, <1>9, <1>10 DEF r

-----------------------------------------------------------------------------
(* The list.                                                               *)

\* The node after the i-th of the list is the next one, or null at the end.
LEMMA AfterNode ==
    ASSUME list \in Seq(Threads), IsInjective(list), NEW i \in 1..Len(list)
    PROVE  /\ list[i] \in Listed /\ list[i] \in Threads
           /\ After(list[i]) = IF i = Len(list) THEN None ELSE list[i + 1]
  <1>1. list[i] \in Listed /\ list[i] \in Threads
    BY DEF Listed, Range
  <1>2. DOMAIN list = 1..Len(list)
    OBVIOUS
  <1>3. \A j \in DOMAIN list : list[j] = list[i] => j = i
    BY <1>2 DEF IsInjective
  <1> DEFINE k == CHOOSE j \in DOMAIN list : list[j] = list[i]
  <1>4. k = i
    BY <1>2, <1>3
  <1>5. After(list[i]) = IF k = Len(list) THEN None ELSE list[k + 1]
    BY DEF After
  <1> QED
    BY <1>1, <1>4, <1>5

\* The head of the list is its first node, or null.
LEMMA FirstNode ==
    ASSUME list \in Seq(Threads)
    PROVE  /\ First = IF Len(list) = 0 THEN None ELSE list[1]
           /\ First \in Threads \cup {None}
    BY DEF First

\* Every next pointer of a node in the list is a thread or null.
LEMMA AfterType ==
    ASSUME list \in Seq(Threads), IsInjective(list), NEW t \in Listed
    PROVE  After(t) \in Threads \cup {None} /\ t \in Threads
  <1>1. PICK i \in 1..Len(list) : list[i] = t
    BY DEF Listed, Range
  <1>2. i # Len(list) => list[i + 1] \in Threads
    OBVIOUS
  <1> QED
    BY <1>1, <1>2, AfterNode

\* While a reader has seen its own stop the world is stopped, and neither the
\* handshake nor a new collection can come in between.
LEMMA QuietStopped ==
    ASSUME IInv, quietWalk \/ quietIter
    PROVE  Stopped /\ ~Stop /\ ~Resume /\ ~Begin
    BY DEF IInv, TypeOK, LedgerInv, QuietInv, Stopped, Stop, Resume, Begin,
           Pause!Stop, Pause!Resume, Pause!Begin

-----------------------------------------------------------------------------
(* Steps.                                                                  *)

\* The first state satisfies the invariant.
LEMMA InitInv == Init => IInv
  <1> SUFFICES ASSUME Init PROVE IInv
    OBVIOUS
  <1> USE MaxCollectionsAssumption, EarlyAssumption, NoneAssumption
  <1>1. TypeOK
    <2>1. /\ begun = 0 /\ ended = 0 /\ stops = 0 /\ resumes = 0
          /\ list \in Seq(Threads) /\ scanned \in Seq(Threads) /\ mutators \in Seq(Threads)
      BY DEF Init, Pause!Init
    <2>2. /\ life \in [Threads -> {"new", "bound", "listed", "leaving", "gone"}]
          /\ prepared \in [Threads -> 0..2]
      BY DEF Init
    <2>3. /\ head = None /\ node = None /\ packets = {}
          /\ quietWalk = FALSE /\ quietIter = FALSE /\ walk = "off" /\ iter = "off"
      BY DEF Init
    <2>4. /\ begun \in 0..MaxCollections /\ ended \in 0..begun
          /\ stops \in 0..begun /\ resumes \in 0..stops
      BY <2>1
    <2>5. begun = ended <=> walk = "off"
      BY <2>1, <2>3
    <2> QED
      BY <2>1, <2>2, <2>3, <2>4, <2>5 DEF TypeOK
  <1>2. ListInv
    BY DEF Init, ListInv, Listed
  <1>3. LedgerInv /\ QuietInv /\ WalkInv /\ IterInv
    BY DEF Init, Pause!Init, LedgerInv, QuietInv, WalkInv, IterInv
  <1> QED
    BY <1>1, <1>2, <1>3 DEF IInv

\* Threads come and go: while a reader has seen its stop the list is the same.
LEMMA ThreadStep ==
    ASSUME IInv, NEW t \in Threads, Thread(t)
    PROVE  IInv'
  <1> USE DEF IInv
  <1>1. UNCHANGED <<ledger, roots, plan>>
    BY DEF Thread, BindMutator, Enlist, Unlist, DestroyMutator
  <1>2. PICK stage \in {"bound", "listed", "leaving", "gone"} :
          life' = [life EXCEPT ![t] = stage]
    BY DEF Thread, BindMutator, Enlist, Unlist, DestroyMutator, Become
  <1>3. list' \in Seq(Threads) /\ ListInv'
    <2>1. CASE BindMutator(t) \/ DestroyMutator(t)
      <3>1. list' = list /\ life[t] # "listed" /\ life'[t] # "listed"
        BY <2>1 DEF BindMutator, DestroyMutator, Become, TypeOK
      <3> QED
        BY <1>2, <3>1 DEF ListInv, Listed, TypeOK
    <2>2. CASE Enlist(t)
      <3>1. list' = <<t>> \o list /\ life' = [life EXCEPT ![t] = "listed"]
        BY <2>2 DEF Enlist, Become
      <3>2. t \notin Listed
        BY <2>2 DEF Enlist, ListInv
      <3>3. /\ list' \in Seq(Threads) /\ IsInjective(list')
            /\ \A u \in Threads : u \in Listed' <=> u = t \/ u \in Listed
        <4>1. list \in Seq(Threads) /\ IsInjective(list) /\ t \notin Range(list)
          BY <3>2 DEF TypeOK, ListInv, Listed
        <4> QED
          BY <3>1, <4>1, PrependOnce DEF Listed
      <3> QED
        BY <3>1, <3>3 DEF ListInv, TypeOK
    <2>3. CASE Unlist(t)
      <3>1. PICK i \in DOMAIN list :
              /\ list[i] = t
              /\ list' = [j \in 1..(Len(list) - 1) |-> list[IF j < i THEN j ELSE j + 1]]
        BY <2>3 DEF Unlist
      <3>2. i \in 1..Len(list) /\ life' = [life EXCEPT ![t] = "leaving"]
        BY <2>3 DEF Unlist, Become, TypeOK
      <3>3. /\ list' \in Seq(Threads) /\ IsInjective(list')
            /\ \A u \in Threads : u \in Listed' <=> u # t /\ u \in Listed
        <4>1. list \in Seq(Threads) /\ IsInjective(list)
          BY DEF TypeOK, ListInv
        <4>2. /\ list' \in Seq(Threads) /\ IsInjective(list')
              /\ \A u \in Threads : u \in Range(list') <=> u # list[i] /\ u \in Range(list)
          <5>1. list' = Without(list, i)
            BY <3>1 DEF Without
          <5> QED
            BY <3>2, <4>1, <5>1, DeleteOnce
        <4> QED
          BY <3>1, <4>2 DEF Listed
      <3> QED
        BY <3>2, <3>3 DEF ListInv, TypeOK
    <2> QED
      BY <2>1, <2>2, <2>3 DEF Thread
  <1>4. TypeOK'
    BY <1>1, <1>2, <1>3 DEF TypeOK, ledger, roots, plan
  <1>5. LedgerInv' /\ QuietInv'
    BY <1>1 DEF LedgerInv, QuietInv, ledger, roots, plan
  <1>6. quietWalk \/ quietIter => list' = list
    BY QuietStopped DEF Thread, BindMutator, Enlist, Unlist, DestroyMutator
  <1>7. WalkInv'
    BY <1>1, <1>6 DEF WalkInv, roots
  <1>8. IterInv'
    BY <1>1, <1>6 DEF IterInv, FillInv, YieldInv, Made, Listed, plan
  <1> QED
    BY <1>3, <1>4, <1>5, <1>7, <1>8

\* The walk adds the thread it is at to the prefix, or goes on to the next.
LEMMA WalkStep ==
    ASSUME IInv, Walk
    PROVE  IInv'
  <1> USE DEF IInv
  <1> USE NoneAssumption
  <1>1. UNCHANGED <<ledger, threads, plan>>
    BY DEF Walk, StartWalk, ScanStack, NextNode, EndWalk, WalkStray
  <1>2. LedgerInv' /\ ListInv' /\ IterInv'
    BY <1>1 DEF LedgerInv, ListInv, Listed, IterInv, FillInv, YieldInv, Made,
                ledger, threads, plan
  <1>3. /\ list \in Seq(Threads) /\ IsInjective(list) /\ Len(list) \in Nat
        /\ scanned \in Seq(Threads) /\ Len(scanned) \in Nat
        /\ walk \notin {"off", "done", "undefined"}
        /\ list' = list
    <2>1. walk \notin {"off", "done", "undefined"}
      BY DEF Walk, StartWalk, ScanStack, NextNode, EndWalk, WalkStray
    <2> QED
      BY <1>1, <2>1 DEF TypeOK, ListInv, threads
  <1>4. /\ scanned' \in Seq(Threads) /\ head' \in Threads \cup {None}
        /\ quietWalk' \in BOOLEAN
        /\ walk' \in {"node", "next", "done", "undefined"}
    <2>1. CASE StartWalk
      BY <1>3, <2>1, FirstNode DEF StartWalk
    <2>2. CASE ScanStack
      <3>1. head \in Threads
        BY <1>3, <2>2, AfterType DEF ScanStack
      <3> QED
        BY <1>3, <2>2, <3>1 DEF ScanStack, TypeOK
    <2>3. CASE NextNode
      BY <1>3, <2>3, AfterType DEF NextNode, TypeOK
    <2>4. CASE EndWalk \/ WalkStray
      BY <2>4 DEF EndWalk, WalkStray, TypeOK
    <2> QED
      BY <2>1, <2>2, <2>3, <2>4 DEF Walk
  <1>5. TypeOK'
    BY <1>1, <1>3, <1>4 DEF TypeOK, ledger, threads, plan
  <1>6. QuietInv'
    <2>1. quietWalk' => stops = begun /\ begun # ended
      BY <1>3 DEF Walk, StartWalk, ScanStack, NextNode, EndWalk, WalkStray, QuietInv,
                  TypeOK
    <2> QED
      BY <1>1, <1>4, <2>1 DEF QuietInv, ledger, plan
  <1>7. WalkInv'
    <2> SUFFICES ASSUME quietWalk' PROVE WalkInv'
      BY DEF WalkInv
    <2>1. CASE StartWalk
      <3>1. /\ walk' = "node" /\ head' = First /\ scanned' = <<>>
        BY <2>1 DEF StartWalk, QuietInv
      <3> QED
        BY <1>3, <3>1, FirstNode DEF WalkInv
    <2> DEFINE n == Len(scanned)
    <2>2. CASE ScanStack
      <3>1. /\ walk = "node" /\ walk' = "next" /\ scanned' = Append(scanned, head)
            /\ head \in Listed /\ head' = head /\ quietWalk
        BY <2>2 DEF ScanStack
      <3>2. head \in Threads
        BY <1>3, <3>1, AfterType
      <3>3. n < Len(list) /\ head = list[n + 1]
        BY <1>3, <3>1, <3>2 DEF WalkInv
      <3>4. /\ Len(scanned') = n + 1 /\ scanned'[n + 1] = head
            /\ \A i \in 1..n : scanned'[i] = scanned[i]
        BY <1>3, <3>1, <3>2
      <3>5. \A i \in 1..(n + 1) : scanned'[i] = list[i]
        BY <1>3, <3>1, <3>3, <3>4 DEF WalkInv
      <3> QED
        BY <1>3, <3>1, <3>3, <3>4, <3>5 DEF WalkInv
    <2>3. CASE NextNode
      <3>1. /\ walk = "next" /\ walk' = "node" /\ scanned' = scanned
            /\ head' = After(head) /\ quietWalk
        BY <2>3 DEF NextNode
      <3>2. n \in 1..Len(list) /\ head = list[n]
        BY <1>3, <3>1 DEF WalkInv
      <3>3. head' = IF n = Len(list) THEN None ELSE list[n + 1]
        BY <1>3, <3>1, <3>2, AfterNode
      <3> QED
        BY <1>3, <3>1, <3>3 DEF WalkInv
    <2>4. CASE EndWalk
      <3>1. /\ walk = "node" /\ walk' = "done" /\ scanned' = scanned
            /\ head = None /\ quietWalk
        BY <2>4 DEF EndWalk
      <3>2. n = Len(list)
        BY <1>3, <3>1 DEF WalkInv
      <3> QED
        BY <1>3, <3>1, <3>2 DEF WalkInv
    <2>5. CASE WalkStray
      <3>1. quietWalk /\ walk \in {"node", "next"} /\ head \notin Listed \cup {None}
        BY <2>5 DEF WalkStray
      <3>2. \E i \in 1..Len(list) : head = list[i]
        BY <1>3, <3>1 DEF WalkInv
      <3> QED
        BY <1>3, <3>1, <3>2, AfterNode
    <2> QED
      BY <2>1, <2>2, <2>3, <2>4, <2>5 DEF Walk
  <1> QED
    BY <1>2, <1>5, <1>6, <1>7

\* While the queue is filled: it grows by the node the upcall is at.
LEMMA FillStep ==
    ASSUME IInv, NewIterator \/ PushBack \/ EndNew
    PROVE  IInv'
  <1> USE DEF IInv
  <1> USE NoneAssumption
  <1>1. UNCHANGED <<ledger, threads, roots, packets, prepared>>
    BY DEF NewIterator, PushBack, EndNew
  <1>2. LedgerInv' /\ ListInv' /\ WalkInv'
    BY <1>1 DEF LedgerInv, ListInv, Listed, WalkInv, ledger, threads, roots
  <1>3. /\ list \in Seq(Threads) /\ IsInjective(list) /\ Len(list) \in Nat
        /\ mutators \in Seq(Threads) /\ Len(mutators) \in Nat
        /\ iter \in {"start", "fill"} /\ iter' \in {"fill", "yield"}
        /\ list' = list /\ packets' = packets /\ prepared' = prepared
    BY <1>1 DEF NewIterator, PushBack, EndNew, TypeOK, ListInv, threads
  <1>4. mutators' \in Seq(Threads) /\ node' \in Threads \cup {None} /\ quietIter' \in BOOLEAN
    <2>1. CASE NewIterator
      BY <1>3, <2>1, FirstNode DEF NewIterator
    <2>2. CASE PushBack
      <3>1. node \in Threads /\ After(node) \in Threads \cup {None}
        BY <1>3, <2>2, AfterType DEF PushBack
      <3> QED
        BY <1>3, <2>2, <3>1 DEF PushBack, TypeOK
    <2>3. CASE EndNew
      BY <2>3 DEF EndNew, TypeOK
    <2> QED
      BY <2>1, <2>2, <2>3
  <1>5. TypeOK'
    BY <1>1, <1>3, <1>4 DEF TypeOK, ledger, threads, roots
  <1>6. QuietInv'
    <2>1. quietIter' => stops = begun /\ begun # ended
      BY <1>3 DEF NewIterator, PushBack, EndNew, QuietInv, TypeOK
    <2> QED
      BY <1>1, <1>3, <2>1 DEF QuietInv, ledger, roots
  <1>7. IterInv'
    <2> SUFFICES ASSUME quietIter' PROVE FillInv' /\ YieldInv'
      BY <1>3 DEF IterInv
    <2> DEFINE n == Len(mutators)
    <2>1. CASE NewIterator
      <3>1. /\ iter' = "fill" /\ node' = First /\ mutators' = <<>>
            /\ packets' = {} /\ prepared' = [t \in Threads |-> 0]
        BY <1>3, <2>1 DEF NewIterator, QuietInv
      <3> QED
        BY <1>3, <3>1, FirstNode DEF FillInv, YieldInv
    <2>2. CASE PushBack
      <3>1. /\ iter = "fill" /\ iter' = "fill" /\ node \in Listed /\ quietIter
            /\ mutators' = Append(mutators, node) /\ node' = After(node)
        BY <2>2 DEF PushBack
      <3>2. node \in Threads /\ FillInv
        BY <1>3, <3>1, AfterType DEF IterInv
      <3>3. n + 1 \in 1..Len(list) /\ node = list[n + 1]
        BY <1>3, <3>1, <3>2 DEF FillInv
      <3>4. /\ Len(mutators') = n + 1 /\ mutators'[n + 1] = node
            /\ \A i \in 1..n : mutators'[i] = mutators[i]
        BY <1>3, <3>1, <3>2
      <3>5. \A i \in 1..(n + 1) : mutators'[i] = list[i]
        BY <1>3, <3>1, <3>2, <3>3, <3>4 DEF FillInv
      <3>6. node' = IF n + 1 = Len(list) THEN None ELSE list[(n + 1) + 1]
        BY <1>3, <3>1, <3>3, AfterNode
      <3> QED
        BY <1>3, <3>1, <3>2, <3>3, <3>4, <3>5, <3>6 DEF FillInv, YieldInv
    <2>3. CASE EndNew
      <3>1. /\ iter = "fill" /\ iter' = "yield" /\ node = None /\ quietIter
            /\ mutators' = mutators
        BY <2>3 DEF EndNew
      <3>2. FillInv
        BY <3>1 DEF IterInv
      <3>3. n = Len(list)
        BY <1>3, <3>1, <3>2 DEF FillInv
      <3>4. Made' = 0
        BY <1>3, <3>1, <3>3 DEF Made
      <3>5. \A i \in 1..Len(list) : list[i] \in Threads
        BY <1>3
      <3> QED
        BY <1>3, <3>1, <3>2, <3>3, <3>4, <3>5 DEF FillInv, YieldInv
    <2> QED
      BY <2>1, <2>2, <2>3
  <1> QED
    BY <1>2, <1>5, <1>6, <1>7

\* What next takes from the queue goes into a packet.
LEMMA PopStep ==
    ASSUME IInv, PopFront
    PROVE  IInv'
  <1> USE DEF IInv
  <1>1. UNCHANGED <<ledger, threads, roots, node, prepared, quietIter>>
    BY DEF PopFront
  <1>2. LedgerInv' /\ ListInv' /\ WalkInv'
    BY <1>1 DEF LedgerInv, ListInv, Listed, WalkInv, ledger, threads, roots
  <1>3. /\ list \in Seq(Threads) /\ IsInjective(list) /\ Len(list) \in Nat
        /\ mutators \in Seq(Threads) /\ Len(mutators) \in Nat
        /\ iter = "yield" /\ iter' \in {"yield", "done"}
        /\ list' = list /\ prepared' = prepared /\ quietIter' = quietIter
    BY <1>1 DEF PopFront, TypeOK, ListInv, threads
  <1>4. mutators' \in Seq(Threads) /\ packets' \subseteq Threads
    <2>1. CASE mutators = <<>>
      BY <1>3, <2>1 DEF PopFront, TypeOK
    <2>2. CASE mutators # <<>>
      <3>1. Head(mutators) \in Threads /\ Tail(mutators) \in Seq(Threads)
        BY <1>3, <2>2
      <3> QED
        BY <2>2, <3>1 DEF PopFront, TypeOK
    <2> QED
      BY <2>1, <2>2
  <1>5. TypeOK'
    BY <1>1, <1>3, <1>4 DEF TypeOK, ledger, threads, roots
  <1>6. QuietInv'
    BY <1>1, <1>3 DEF QuietInv, ledger, roots
  <1>7. IterInv'
    <2> SUFFICES ASSUME quietIter PROVE FillInv' /\ YieldInv'
      BY <1>3 DEF IterInv
    <2>1. YieldInv /\ Made \in 0..Len(list)
      BY <1>3 DEF IterInv, YieldInv, Made
    <2>2. FillInv'
      BY <1>3 DEF FillInv
    <2>3. CASE mutators = <<>>
      <3>1. iter' = "done" /\ mutators' = mutators /\ packets' = packets
        BY <2>3 DEF PopFront
      <3> QED
        BY <1>1, <1>3, <2>1, <2>2, <2>3, <3>1 DEF YieldInv, Made, Listed
    <2>4. CASE mutators # <<>>
      <3> DEFINE k == Made + 1
      <3>1. /\ iter' = "yield" /\ mutators' = Tail(mutators)
            /\ packets' = packets \cup {mutators[1]}
        BY <1>3, <2>4 DEF PopFront
      <3>2. /\ Len(mutators) > 0 /\ Len(mutators') = Len(mutators) - 1
            /\ \A i \in 1..Len(mutators') : mutators'[i] = mutators[i + 1]
        BY <1>3, <2>4, <3>1
      <3>3. k \in 1..Len(list) /\ mutators[1] = list[k] /\ Made' = k
        BY <1>3, <2>1, <3>2 DEF YieldInv, Made
      <3>4. \A i, j \in 1..Len(list) : list[i] = list[j] => i = j
        BY <1>3 DEF IsInjective
      <3>5. \A i \in 1..Len(mutators') : mutators'[i] = list[k + i]
        <4> SUFFICES ASSUME NEW i \in 1..Len(mutators') PROVE mutators'[i] = list[k + i]
          OBVIOUS
        <4>1. i + 1 \in 1..Len(mutators) /\ Made + (i + 1) = k + i
          BY <1>3, <2>1, <3>2
        <4> QED
          BY <1>3, <2>1, <3>2, <4>1 DEF YieldInv
      <3>6. \A i \in 1..k : prepared[list[i]] = IF list[i] \in packets' THEN 0 ELSE 1
        <4>1. list[k] \in packets' /\ prepared[list[k]] = 0
          BY <1>3, <2>1, <3>1, <3>3 DEF YieldInv
        <4>2. \A i \in 1..Made : list[i] \in packets' <=> list[i] \in packets
          BY <1>3, <2>1, <3>1, <3>3, <3>4
        <4>3. \A i \in 1..k : i = k \/ i \in 1..Made
          BY <2>1
        <4>4. \A i \in 1..Made : prepared[list[i]] = IF list[i] \in packets THEN 0 ELSE 1
          BY <1>3, <2>1 DEF YieldInv
        <4> HIDE DEF k
        <4> QED
          BY <4>1, <4>2, <4>3, <4>4
      <3>7. \A i \in (k + 1)..Len(list) : list[i] \notin packets' /\ prepared[list[i]] = 0
        BY <1>3, <2>1, <3>1, <3>3, <3>4 DEF YieldInv
      <3>8. \A t \in Threads \ Listed : t \notin packets' /\ prepared[t] = 0
        BY <1>3, <2>1, <3>1, <3>3, AfterNode DEF YieldInv
      <3>9. Len(mutators') <= Len(list) /\ Listed' = Listed
        BY <1>3, <2>1, <3>2 DEF YieldInv, Listed
      <3> HIDE DEF k
      <3> QED
        BY <1>3, <2>2, <3>1, <3>3, <3>5, <3>6, <3>7, <3>8, <3>9 DEF YieldInv
    <2> QED
      BY <2>3, <2>4
  <1> QED
    BY <1>2, <1>5, <1>6, <1>7

\* A packet runs once, and the mutator it is for is still there.
LEMMA PrepareStep ==
    ASSUME IInv, NEW t \in Threads, Prepare(t)
    PROVE  IInv'
  <1> USE DEF IInv
  <1>1. UNCHANGED <<ledger, threads, roots, iter, node, mutators, quietIter>>
    BY DEF Prepare
  <1>2. LedgerInv' /\ ListInv' /\ WalkInv'
    BY <1>1 DEF LedgerInv, ListInv, Listed, WalkInv, ledger, threads, roots
  <1>3. /\ t \in packets /\ packets' = packets \ {t}
        /\ prepared \in [Threads -> 0..2]
        /\ prepared' = [prepared EXCEPT ![t] = IF @ = 0 THEN 1 ELSE 2]
        /\ list \in Seq(Threads) /\ IsInjective(list) /\ Len(list) \in Nat
        /\ Len(mutators) \in Nat
    BY DEF Prepare, TypeOK, ListInv
  <1>4. TypeOK'
    BY <1>1, <1>3 DEF TypeOK, ledger, threads, roots
  <1>5. QuietInv'
    BY <1>1, <1>3 DEF QuietInv, ledger, roots
  <1>6. IterInv'
    <2> SUFFICES ASSUME quietIter PROVE FillInv' /\ YieldInv' /\ iter # "undefined"
      BY <1>1 DEF IterInv
    <2>1. iter \in {"yield", "done"}
      BY <1>3 DEF IterInv, FillInv, QuietInv, TypeOK
    <2>2. YieldInv /\ Made \in 0..Len(list)
      BY <1>3, <2>1 DEF IterInv, YieldInv, Made
    <2>3. PICK k \in 1..Len(list) : list[k] = t
      BY <1>3, <2>1, <2>2 DEF YieldInv, Listed, Range
    <2>4. k \in 1..Made
      BY <1>3, <2>1, <2>2, <2>3 DEF YieldInv
    <2>5. prepared[t] = 0
      BY <1>3, <2>1, <2>2, <2>3, <2>4 DEF YieldInv
    <2>6. \A i, j \in 1..Len(list) : list[i] = list[j] => i = j
      BY <1>3 DEF IsInjective
    <2>7. /\ prepared'[t] = 1 /\ t \notin packets'
          /\ \A u \in Threads : u # t =>
               prepared'[u] = prepared[u] /\ (u \in packets' <=> u \in packets)
      BY <1>3, <2>5
    <2>8. \A i \in 1..Len(list) : list[i] \in Threads /\ (i # k => list[i] # t)
      BY <1>3, <2>3, <2>6
    <2>9. \A i \in 1..Made : prepared'[list[i]] = IF list[i] \in packets' THEN 0 ELSE 1
      BY <1>3, <2>1, <2>2, <2>3, <2>7, <2>8 DEF YieldInv
    <2>10. \A i \in (Made + 1)..Len(list) : list[i] \notin packets' /\ prepared'[list[i]] = 0
      BY <1>3, <2>1, <2>2, <2>4, <2>7, <2>8 DEF YieldInv
    <2>11. t \in Listed /\ \A u \in Threads \ Listed : u \notin packets' /\ prepared'[u] = 0
      BY <1>3, <2>1, <2>2, <2>3, <2>7, AfterNode DEF YieldInv
    <2>12. Made' = Made /\ Listed' = Listed /\ list' = list
      BY <1>1 DEF Made, Listed, threads
    <2> QED
      BY <1>1, <2>1, <2>2, <2>9, <2>10, <2>11, <2>12 DEF YieldInv, FillInv
  <1> QED
    BY <1>2, <1>4, <1>5, <1>6

\* The iterator goes astray only if it did not see its own stop.
LEMMA StrayStep ==
    ASSUME IInv, IterStray
    PROVE  IInv'
  <1> USE DEF IInv
  <1> USE NoneAssumption
  <1>1. /\ UNCHANGED <<ledger, threads, roots, node, mutators, packets, prepared, quietIter>>
        /\ iter' = "undefined" /\ iter \notin {"off", "undefined"}
    <2>1. iter # "off"
      BY DEF IterStray, QuietInv
    <2> QED
      BY <2>1 DEF IterStray
  <1>2. ~quietIter
    <2> SUFFICES ASSUME quietIter PROVE FALSE
      OBVIOUS
    <2>1. list \in Seq(Threads) /\ IsInjective(list) /\ Len(list) \in Nat
      BY DEF TypeOK, ListInv
    <2>2. CASE iter = "fill" /\ node \notin Listed \cup {None}
      <3>1. FillInv /\ Len(mutators) \in Nat
        BY DEF IterInv, TypeOK
      <3>2. Len(mutators) + 1 \in 1..Len(list) /\ node = list[Len(mutators) + 1]
        BY <2>1, <2>2, <3>1 DEF FillInv
      <3> QED
        BY <2>1, <2>2, <3>2, AfterNode
    <2>3. CASE \E t \in packets : ~Boxed(t)
      <3>1. PICK t \in packets : ~Boxed(t)
        BY <2>3
      <3>2. t \in Threads /\ life[t] # "listed"
        BY <3>1 DEF Boxed, TypeOK
      <3>3. t \notin Listed
        BY <3>2 DEF ListInv
      <3>4. iter \in {"yield", "done"}
        BY <1>1, <3>1 DEF IterInv, FillInv, QuietInv, TypeOK
      <3> QED
        BY <3>1, <3>2, <3>3, <3>4 DEF IterInv, YieldInv
    <2> QED
      BY <2>2, <2>3 DEF IterStray
  <1>3. TypeOK'
    BY <1>1 DEF TypeOK, ledger, threads, roots
  <1>4. LedgerInv' /\ ListInv' /\ WalkInv' /\ QuietInv'
    BY <1>1 DEF LedgerInv, ListInv, Listed, WalkInv, QuietInv, ledger, threads, roots
  <1>5. IterInv'
    BY <1>1, <1>2 DEF IterInv
  <1> QED
    BY <1>3, <1>4, <1>5

\* A collection begins with its readers at the start, and ends when both are
\* done and no packet is left.
LEMMA BoundaryStep ==
    ASSUME IInv, Begin \/ End
    PROVE  IInv'
  <1> USE DEF IInv
  <1> USE MaxCollectionsAssumption
  <1>1. /\ UNCHANGED <<threads, head, node, mutators, packets, stops, resumes>>
        /\ ~quietWalk' /\ ~quietIter'
        /\ scanned' = <<>> /\ prepared' = [t \in Threads |-> 0] /\ packets = {}
    BY DEF Begin, End, Pause!Begin, Pause!End, QuietInv, TypeOK
  <1>2. \/ /\ begun' = begun + 1 /\ ended' = ended /\ ended = begun
           /\ begun < MaxCollections
           /\ walk' = "start" /\ iter' = "start"
        \/ /\ begun' = begun /\ ended' = ended + 1 /\ ended < begun
           /\ walk' = "off" /\ iter' = "off"
    BY DEF Begin, End, Pause!Begin, Pause!End
  <1>3. LedgerInv'
    BY <1>1, <1>2 DEF LedgerInv, TypeOK
  <1>4. ListInv' /\ WalkInv' /\ IterInv'
    BY <1>1 DEF ListInv, Listed, WalkInv, IterInv, threads
  <1>5. QuietInv'
    BY <1>1 DEF QuietInv
  <1>6. TypeOK'
    <2>1. /\ begun' \in 0..MaxCollections /\ ended' \in 0..begun'
          /\ stops' \in 0..begun' /\ resumes' \in 0..stops'
          /\ begun' = ended' <=> walk' = "off"
      BY <1>1, <1>2 DEF TypeOK, LedgerInv
    <2>2. quietWalk' \in BOOLEAN /\ quietIter' \in BOOLEAN
      BY DEF Begin, End, TypeOK
    <2> QED
      BY <1>1, <1>2, <2>1, <2>2 DEF TypeOK, threads
  <1> QED
    BY <1>3, <1>4, <1>5, <1>6

\* A stop or a resume touches the ledger alone, and comes while no reader has
\* seen its own stop.
LEMMA PauseStep ==
    ASSUME IInv, Stop \/ Resume
    PROVE  IInv'
  <1> USE DEF IInv
  <1>1. ~quietWalk /\ ~quietIter
    BY QuietStopped
  <1>2. UNCHANGED <<threads, roots, plan, begun, ended>>
    BY DEF Stop, Resume, Pause!Stop, Pause!Resume
  <1>3. /\ LedgerInv' /\ stops' \in 0..begun' /\ resumes' \in 0..stops'
    BY <1>2 DEF Stop, Resume, Pause!Stop, Pause!Resume, LedgerInv, TypeOK
  <1>4. TypeOK'
    BY <1>2, <1>3 DEF TypeOK, threads, roots, plan
  <1>5. ListInv' /\ QuietInv' /\ WalkInv' /\ IterInv'
    BY <1>1, <1>2 DEF ListInv, Listed, QuietInv, WalkInv, IterInv, threads, roots, plan
  <1> QED
    BY <1>3, <1>4, <1>5

-----------------------------------------------------------------------------
(* Theorems.                                                               *)

\* The invariant holds in every state: it holds at first, and each step of a
\* thread, of a reader and of the handshake keeps it.
THEOREM Invariance == Spec => []IInv
  <1>1. IInv /\ [Next]_vars => IInv'
    <2> SUFFICES ASSUME IInv, [Next]_vars PROVE IInv'
      OBVIOUS
    <2>1. CASE UNCHANGED vars
      BY <2>1 DEF vars, IInv, TypeOK, LedgerInv, ListInv, Listed, QuietInv, WalkInv,
                  IterInv, FillInv, YieldInv, Made
    <2>2. CASE Next
      BY <2>2, ThreadStep, WalkStep, FillStep, PopStep, PrepareStep, StrayStep,
         BoundaryStep, PauseStep DEF Next, Iterate
    <2> QED
      BY <2>1, <2>2
  <1> QED
    BY <1>1, InitInv, PTL DEF Spec

\* TypeOK holds in every state: a collection is under way just while its readers
\* are (scanning.rs:339-352, active_plan.rs:17-43).
THEOREM TypeCorrect == Spec => []TypeOK
  <1>1. IInv => TypeOK
    BY DEF IInv
  <1> QED
    BY <1>1, Invariance, PTL

\* A walk of the thread list that saw its own collection's stop scans each listed
\* thread once (scanning.rs:344-350).
THEOREM WalkCorrect == Spec => []WalkExact
  <1>1. IInv => WalkExact
    <2> SUFFICES ASSUME IInv, walk = "done", quietWalk PROVE scanned = list
      BY DEF WalkExact
    <2>1. scanned \in Seq(Threads) /\ list \in Seq(Threads)
      BY DEF IInv, TypeOK
    <2>2. Len(scanned) = Len(list) /\ \A i \in 1..Len(scanned) : scanned[i] = list[i]
      BY DEF IInv, WalkInv
    <2> QED
      BY <2>1, <2>2, SeqEqual
  <1> QED
    BY <1>1, Invariance, PTL

\* An iterator that saw its own collection's stop yields every listed thread's
\* mutator once, and each of their packets runs once (active_plan.rs:17-43).
THEOREM PreparedCorrect == Spec => []PreparedExact
  <1>1. IInv => PreparedExact
    <2> SUFFICES ASSUME IInv, iter = "done", packets = {}, quietIter, NEW t \in Threads
                 PROVE  prepared[t] = IF t \in Listed THEN 1 ELSE 0
      BY DEF PreparedExact
    <2>1. /\ mutators = <<>> /\ list \in Seq(Threads) /\ Made = Len(list) /\ YieldInv
      BY DEF IInv, TypeOK, IterInv, YieldInv, Made
    <2> QED
      BY <2>1 DEF YieldInv, Listed, Range
  <1> QED
    BY <1>1, Invariance, PTL

\* Under the same condition nothing that either reader holds has been freed
\* (api.rs:97-102, active_plan.rs:26).
THEOREM DanglingCorrect == Spec => []NoDangling
  <1>1. IInv => NoDangling
    <2> SUFFICES ASSUME IInv PROVE NoDangling
      OBVIOUS
    <2> USE NoneAssumption
    <2>1. /\ list \in Seq(Threads) /\ IsInjective(list) /\ Len(list) \in Nat
          /\ Len(scanned) \in Nat /\ Len(mutators) \in Nat
          /\ mutators \in Seq(Threads) /\ packets \subseteq Threads
      BY DEF IInv, TypeOK, ListInv
    <2>2. ASSUME quietWalk, walk \in {"node", "next", "undefined"}
          PROVE  walk # "undefined" /\ head \in Listed \cup {None}
      <3>1. /\ walk # "undefined"
            /\ head = None \/ \E i \in 1..Len(list) : head = list[i]
        BY <2>1, <2>2 DEF IInv, WalkInv
      <3> QED
        BY <2>1, <3>1, AfterNode
    <2>3. ASSUME quietIter, iter \in {"fill", "yield", "done", "undefined"}
          PROVE  /\ iter # "undefined"
                 /\ iter = "fill" => node \in Listed \cup {None}
                 /\ \A t \in Range(mutators) \cup packets : Boxed(t)
      <3>1. iter # "undefined" /\ FillInv /\ YieldInv
        BY <2>3 DEF IInv, IterInv
      <3>2. iter = "fill" => node \in Listed \cup {None}
        <4>1. iter = "fill" => node = None \/ \E i \in 1..Len(list) : node = list[i]
          BY <2>1, <3>1 DEF FillInv
        <4> QED
          BY <2>1, <4>1, AfterNode
      <3>3. \A i \in 1..Len(mutators) : \E j \in 1..Len(list) : mutators[i] = list[j]
        <4>1. CASE iter = "fill"
          BY <2>1, <3>1, <4>1 DEF FillInv
        <4>2. CASE iter \in {"yield", "done"}
          <5>1. \A i \in 1..Len(mutators) : Made + i \in 1..Len(list)
            BY <2>1, <3>1, <4>2 DEF YieldInv, Made
          <5> QED
            BY <2>1, <3>1, <4>2, <5>1 DEF YieldInv
        <4> QED
          BY <2>3, <3>1, <4>1, <4>2
      <3>4. \A t \in Range(mutators) : t \in Listed /\ t \in Threads
        <4>1. \A i \in 1..Len(mutators) : mutators[i] \in Listed /\ mutators[i] \in Threads
          BY <2>1, <3>3, AfterNode
        <4> QED
          BY <2>1, <4>1 DEF Range
      <3>5. \A t \in packets : t \in Listed /\ t \in Threads
        BY <2>1, <2>3, <3>1 DEF FillInv, YieldInv
      <3>6. \A t \in Threads : t \in Listed => Boxed(t)
        BY DEF IInv, ListInv, Boxed
      <3> QED
        BY <3>1, <3>2, <3>4, <3>5, <3>6
    <2> QED
      BY <2>2, <2>3 DEF NoDangling
  <1> QED
    BY <1>1, Invariance, PTL
===============================================================================
