-------------------------- MODULE RootsClosureProofs --------------------------
(***************************************************************************)
(* Theorems about RootsClosure, for every packet capacity, every capacity  *)
(* the allocator may give a buffer, and any number of roots and closures.  *)
(***************************************************************************)
EXTENDS RootsClosure, TLAPS, SequenceTheorems

\* The fields of an open closure describe the Vec lent last, and its slots
\* before the cursor are written.
BufferInv ==
    IF open
      THEN /\ Len(vecs) > 0 /\ buffer = Len(vecs) /\ capacity = vecs[buffer]
           /\ Len(slots) = capacity
           /\ cursor < capacity
           /\ \A i \in 1..cursor : slots[i] \in Objects
      ELSE cursor = 0 /\ slots = <<>>

\* The Vecs are freed in the order they were lent.
FreedInv ==
    /\ Len(freed) = Len(vecs) - (IF open THEN 1 ELSE 0)
    /\ \A i \in 1..Len(freed) :
         /\ freed[i].vec = i
         /\ freed[i].capacity = vecs[i]
         /\ freed[i].length <= freed[i].capacity

\* What was handed over is what was delivered and what the buffer holds.
PendingInv == handed = delivered \o SubSeq(slots, 1, cursor)

IInv == TypeOK /\ BufferInv /\ FreedInv /\ PendingInv

-----------------------------------------------------------------------------
(* Sequences.                                                              *)

\* Writing behind a prefix of objects makes a prefix longer by that object.
LEMMA WriteExtends ==
    ASSUME NEW S, NEW x, NEW s \in Seq(S \cup {x}), NEW n \in Nat, n < Len(s),
           \A i \in 1..n : s[i] \in S, NEW p \in S,
           NEW w, w = [s EXCEPT ![n + 1] = p]
    PROVE  /\ w \in Seq(S \cup {x}) /\ Len(w) = Len(s)
           /\ \A i \in 1..(n + 1) : w[i] \in S
           /\ SubSeq(s, 1, n) \in Seq(S) /\ SubSeq(w, 1, n + 1) \in Seq(S)
           /\ SubSeq(w, 1, n + 1) = Append(SubSeq(s, 1, n), p)
  <1>1. Len(s) \in Nat /\ n + 1 \in 1..Len(s)
    BY LenProperties
  <1>2. /\ w \in Seq(S \cup {x}) /\ Len(w) = Len(s)
        /\ \A j \in 1..Len(s) : w[j] = IF j = n + 1 THEN p ELSE s[j]
    BY <1>1, ExceptSeq
  <1>3. \A i \in 1..(n + 1) : w[i] \in S
    BY <1>1, <1>2
  <1>4. /\ SubSeq(s, 1, n) \in Seq(S)
        /\ Len(SubSeq(s, 1, n)) = n
        /\ \A i \in 1..n : SubSeq(s, 1, n)[i] = s[i]
    BY SubSeqProperties
  <1>5. /\ SubSeq(w, 1, n + 1) \in Seq(S)
        /\ Len(SubSeq(w, 1, n + 1)) = n + 1
        /\ \A i \in 1..(n + 1) : SubSeq(w, 1, n + 1)[i] = w[i]
    BY <1>3, SubSeqProperties
  <1> DEFINE a == Append(SubSeq(s, 1, n), p)
  <1>6. /\ a \in Seq(S) /\ Len(a) = n + 1
        /\ \A i \in 1..n : a[i] = s[i]
        /\ a[n + 1] = p
    BY <1>4, AppendProperties
  <1>7. \A i \in 1..(n + 1) : SubSeq(w, 1, n + 1)[i] = a[i]
    BY <1>1, <1>2, <1>5, <1>6
  <1>8. SubSeq(w, 1, n + 1) = a
    BY <1>5, <1>6, <1>7, SeqEqual
  <1> QED
    BY <1>2, <1>3, <1>4, <1>5, <1>8

-----------------------------------------------------------------------------
(* Buffers.                                                                *)

\* What lending a new buffer does: it is the last Vec, empty, and as long as
\* the field capacity says.
LEMMA LendEffect ==
    ASSUME TypeOK, NEW c \in Capacities, Lend(c)
    PROVE  /\ c \in Nat /\ c > 0 /\ c >= WorkPacketCapacity
           /\ vecs' \in Seq(Capacities) /\ Len(vecs') = Len(vecs) + 1
           /\ \A i \in 1..Len(vecs) : vecs'[i] = vecs[i]
           /\ vecs'[Len(vecs) + 1] = c
           /\ buffer' = Len(vecs) + 1 /\ capacity' = c /\ cursor' = 0
           /\ slots' \in Seq(Objects \cup {Uninit}) /\ Len(slots') = c
           /\ SubSeq(slots', 1, cursor') = <<>>
  <1>1. c \in Nat /\ c > 0 /\ c >= WorkPacketCapacity
    BY CapacityAssumption, SlackAssumption DEF Capacities
  <1>2. /\ vecs' \in Seq(Capacities) /\ Len(vecs') = Len(vecs) + 1
        /\ \A i \in 1..Len(vecs) : vecs'[i] = vecs[i]
        /\ vecs'[Len(vecs) + 1] = c
    BY AppendProperties DEF TypeOK, Lend
  <1>3. slots' \in Seq(Objects \cup {Uninit}) /\ Len(slots') = c
    BY <1>1 DEF Lend
  <1>4. cursor' = 0 /\ SubSeq(slots', 1, 0) = <<>>
    BY SubSeqEmpty DEF Lend
  <1> QED
    BY <1>1, <1>2, <1>3, <1>4 DEF Lend

\* Flushing a buffer w with its first n slots written delivers those, frees
\* the Vec it was in and lends another one.
LEMMA FlushEffect ==
    ASSUME TypeOK, BufferInv, FreedInv, open, open',
           NEW c \in Capacities, NEW w, NEW n \in Nat,
           n <= capacity, \A i \in 1..n : w[i] \in Objects,
           Flush(w, n, c)
    PROVE  /\ BufferInv' /\ FreedInv'
           /\ vecs' \in Seq(Capacities)
           /\ freed' \in Seq([vec : Nat, length : Nat, capacity : Nat])
           /\ slots' \in Seq(Objects \cup {Uninit})
           /\ buffer' \in Nat /\ capacity' \in Nat /\ cursor' \in Nat
           /\ delivered' = delivered \o SubSeq(w, 1, n)
           /\ delivered' \in Seq(Objects)
           /\ SubSeq(slots', 1, cursor') = <<>>
  <1>1. Lend(c)
    BY DEF Flush
  <1>2. /\ c \in Nat /\ c > 0
        /\ vecs' \in Seq(Capacities) /\ Len(vecs') = Len(vecs) + 1
        /\ \A i \in 1..Len(vecs) : vecs'[i] = vecs[i]
        /\ vecs'[Len(vecs) + 1] = c
        /\ buffer' = Len(vecs) + 1 /\ capacity' = c /\ cursor' = 0
        /\ slots' \in Seq(Objects \cup {Uninit}) /\ Len(slots') = c
        /\ SubSeq(slots', 1, cursor') = <<>>
    BY <1>1, LendEffect
  <1>3. Len(vecs) \in Nat /\ Len(freed) \in Nat
    BY LenProperties DEF TypeOK
  <1>4. BufferInv'
    BY <1>2, <1>3 DEF BufferInv
  <1>5. delivered' = delivered \o SubSeq(w, 1, n) /\ delivered' \in Seq(Objects)
    <2>1. SubSeq(w, 1, n) \in Seq(Objects)
      BY SubSeqProperties
    <2> QED
      BY <2>1, ConcatProperties DEF TypeOK, Flush, Deliver
  <1> DEFINE r == [vec |-> buffer, length |-> n, capacity |-> capacity]
  <1>6. /\ freed' \in Seq([vec : Nat, length : Nat, capacity : Nat])
        /\ Len(freed') = Len(freed) + 1
        /\ \A i \in 1..Len(freed) : freed'[i] = freed[i]
        /\ freed'[Len(freed) + 1] = r
    <2>1. r \in [vec : Nat, length : Nat, capacity : Nat] /\ freed' = Append(freed, r)
      BY DEF TypeOK, Flush, Reclaim
    <2> HIDE DEF r
    <2> QED
      BY <2>1, AppendProperties DEF TypeOK
  <1>7. FreedInv'
    <2>1. Len(freed) = Len(vecs) - 1 /\ buffer = Len(vecs) /\ capacity = vecs[Len(vecs)]
      BY DEF FreedInv, BufferInv
    <2>2. Len(freed') = Len(vecs') - 1
      BY <1>2, <1>3, <1>6, <2>1
    <2>3. ASSUME NEW i \in 1..Len(freed')
          PROVE  /\ freed'[i].vec = i /\ freed'[i].capacity = vecs'[i]
                 /\ freed'[i].length <= freed'[i].capacity
      <3>1. CASE i \in 1..Len(freed)
        <4>1. freed'[i] = freed[i]
          BY <1>6, <3>1
        <4>2. i \in 1..Len(vecs) /\ vecs'[i] = vecs[i]
          BY <1>2, <1>3, <2>1, <3>1
        <4>3. /\ freed[i].vec = i /\ freed[i].capacity = vecs[i]
              /\ freed[i].length <= freed[i].capacity
          BY <3>1 DEF FreedInv
        <4> QED
          BY <4>1, <4>2, <4>3
      <3>2. CASE i = Len(freed) + 1
        <4>1. i = Len(vecs) /\ i \in 1..Len(vecs)
          BY <1>3, <2>1, <3>2
        <4>2. freed'[i].vec = buffer /\ freed'[i].length = n /\ freed'[i].capacity = capacity
          BY <1>6, <3>2
        <4> QED
          BY <1>2, <2>1, <4>1, <4>2
      <3> QED
        BY <1>3, <1>6, <3>1, <3>2
    <2> QED
      BY <2>2, <2>3 DEF FreedInv
  <1> QED
    BY <1>2, <1>3, <1>4, <1>5, <1>6, <1>7 DEF TypeOK

-----------------------------------------------------------------------------
(* The inductive invariant.                                                *)

\* The invariant holds before the first closure is made.
LEMMA InitIInv == Init => IInv
  <1> SUFFICES ASSUME Init PROVE IInv
    OBVIOUS
  <1> USE DEF Init
  <1>1. TypeOK
    <2>1. \A S : <<>> \in Seq(S)
      BY EmptySeq
    <2>2. closures \in 0..MaxClosures
      BY MaxClosuresAssumption
    <2> QED
      BY <2>1, <2>2 DEF TypeOK, Null
  <1>2. BufferInv /\ FreedInv
    BY DEF BufferInv, FreedInv
  <1>3. SubSeq(slots, 1, cursor) = <<>>
    BY SubSeqEmpty
  <1>4. PendingInv
    BY <1>3, EmptySeq, ConcatEmptySeq DEF PendingInv
  <1> QED
    BY <1>1, <1>2, <1>4 DEF IInv

\* RootsClosure::new keeps the invariant.
LEMMA NewStep ==
    ASSUME IInv, NEW c \in Capacities, New(c)
    PROVE  IInv'
  <1> USE DEF IInv
  <1>1. /\ ~open /\ open' /\ closures' \in 0..MaxClosures
        /\ UNCHANGED <<freed, delivered, handed>>
    BY MaxClosuresAssumption DEF New, TypeOK
  <1>2. /\ c \in Nat /\ c > 0
        /\ vecs' \in Seq(Capacities) /\ Len(vecs') = Len(vecs) + 1
        /\ \A i \in 1..Len(vecs) : vecs'[i] = vecs[i]
        /\ vecs'[Len(vecs) + 1] = c
        /\ buffer' = Len(vecs) + 1 /\ capacity' = c /\ cursor' = 0
        /\ slots' \in Seq(Objects \cup {Uninit}) /\ Len(slots') = c
        /\ SubSeq(slots', 1, cursor') = <<>>
    BY LendEffect DEF New
  <1>3. Len(vecs) \in Nat /\ Len(freed) \in Nat
    BY LenProperties DEF TypeOK
  <1>4. TypeOK'
    BY <1>1, <1>2, <1>3 DEF TypeOK, New
  <1>5. BufferInv'
    BY <1>1, <1>2, <1>3 DEF BufferInv
  <1>6. FreedInv'
    BY <1>1, <1>2, <1>3 DEF FreedInv
  <1>7. PendingInv'
    <2>1. SubSeq(slots, 1, cursor) = <<>>
      BY <1>1, SubSeqEmpty DEF BufferInv
    <2> QED
      BY <1>1, <1>2, <2>1 DEF PendingInv
  <1> QED
    BY <1>4, <1>5, <1>6, <1>7

\* do_work keeps the invariant, whether or not the buffer gets full.
LEMMA DoWorkStep ==
    ASSUME IInv, NEW p \in Objects, NEW c \in Capacities, DoWork(p, c)
    PROVE  IInv'
  <1> USE DEF IInv
  <1> DEFINE w == [slots EXCEPT ![cursor + 1] = p]
  <1>1. /\ open /\ open' /\ handed' = Append(handed, p)
        /\ UNCHANGED closures
    BY DEF DoWork, TypeOK
  <1>2. /\ w \in Seq(Objects \cup {Uninit}) /\ Len(w) = Len(slots)
        /\ \A i \in 1..(cursor + 1) : w[i] \in Objects
        /\ SubSeq(slots, 1, cursor) \in Seq(Objects)
        /\ SubSeq(w, 1, cursor + 1) \in Seq(Objects)
        /\ SubSeq(w, 1, cursor + 1) = Append(SubSeq(slots, 1, cursor), p)
    <2>1. cursor \in Nat /\ cursor < Len(slots) /\ \A i \in 1..cursor : slots[i] \in Objects
      BY <1>1 DEF TypeOK, BufferInv
    <2>2. slots \in Seq(Objects \cup {Uninit})
      BY DEF TypeOK
    <2> QED
      BY <2>1, <2>2, WriteExtends
  <1>3. handed' \in Seq(Objects)
    BY <1>1, AppendProperties DEF TypeOK
  <1>4. handed' = delivered \o SubSeq(w, 1, cursor + 1)
    <2> DEFINE t == SubSeq(slots, 1, cursor)
    <2>1. delivered \in Seq(Objects) /\ t \in Seq(Objects)
      BY <1>2 DEF TypeOK
    <2>2. handed' = Append(delivered \o t, p)
      BY <1>1 DEF PendingInv
    <2>3. SubSeq(w, 1, cursor + 1) = Append(t, p)
      BY <1>2
    <2> HIDE DEF t, w
    <2>4. Append(delivered \o t, p) = delivered \o Append(t, p)
      <3>1. <<p>> \in Seq(Objects) /\ delivered \o t \in Seq(Objects)
        BY <2>1, ConcatProperties
      <3>2. Append(delivered \o t, p) = (delivered \o t) \o <<p>>
        BY <3>1, AppendIsConcat
      <3>3. Append(t, p) = t \o <<p>>
        BY <2>1, AppendIsConcat
      <3> QED
        BY <2>1, <3>1, <3>2, <3>3, ConcatAssociative
    <2> QED
      BY <2>2, <2>3, <2>4
  <1> HIDE DEF w
  <1>5. CASE cursor + 1 >= capacity
    <2>1. Flush(w, cursor + 1, c)
      BY <1>5 DEF DoWork, w
    <2>2. cursor + 1 \in Nat /\ cursor + 1 <= capacity
      BY <1>1 DEF BufferInv, TypeOK
    <2>3. /\ BufferInv' /\ FreedInv'
          /\ vecs' \in Seq(Capacities)
          /\ freed' \in Seq([vec : Nat, length : Nat, capacity : Nat])
          /\ slots' \in Seq(Objects \cup {Uninit})
          /\ buffer' \in Nat /\ capacity' \in Nat /\ cursor' \in Nat
          /\ delivered' = delivered \o SubSeq(w, 1, cursor + 1)
          /\ delivered' \in Seq(Objects)
          /\ SubSeq(slots', 1, cursor') = <<>>
      BY <1>1, <1>2, <2>1, <2>2, FlushEffect
    <2>4. TypeOK'
      BY <1>1, <1>3, <2>3 DEF TypeOK
    <2>5. PendingInv'
      BY <1>4, <2>3, ConcatEmptySeq DEF PendingInv
    <2> QED
      BY <2>3, <2>4, <2>5
  <1>6. CASE ~(cursor + 1 >= capacity)
    <2>1. /\ slots' = w /\ cursor' = cursor + 1
          /\ UNCHANGED <<buffer, capacity, vecs, freed, delivered>>
      BY <1>6 DEF DoWork, w
    <2>2. TypeOK'
      BY <1>1, <1>2, <1>3, <2>1 DEF TypeOK
    <2>3. BufferInv'
      BY <1>1, <1>2, <1>6, <2>1 DEF BufferInv, TypeOK
    <2>4. FreedInv'
      BY <1>1, <2>1 DEF FreedInv
    <2>5. PendingInv'
      BY <1>4, <2>1 DEF PendingInv
    <2> QED
      BY <2>2, <2>3, <2>4, <2>5
  <1> QED
    BY <1>5, <1>6

\* drop keeps the invariant: it flushes and releases the buffer the flush lent.
LEMMA DropStep ==
    ASSUME IInv, NEW c \in Capacities, Drop(c)
    PROVE  IInv'
  <1> USE DEF IInv
  <1> DEFINE Freed == [vec : Nat, length : Nat, capacity : Nat]
             last == [vec |-> buffer, length |-> cursor, capacity |-> capacity]
             spare == [vec |-> Len(vecs) + 1, length |-> 0, capacity |-> c]
  <1>1. /\ open /\ ~open' /\ open' \in BOOLEAN
        /\ buffer' = 0 /\ cursor' = 0 /\ capacity' = 0 /\ slots' = <<>>
        /\ UNCHANGED <<handed, closures>>
    BY DEF Drop, Null
  <1>2. /\ Len(vecs) \in Nat /\ Len(vecs) > 0 /\ buffer = Len(vecs)
        /\ capacity = vecs[Len(vecs)] /\ cursor < capacity
        /\ cursor \in Nat /\ capacity \in Nat
        /\ \A i \in 1..cursor : slots[i] \in Objects
        /\ Len(freed) = Len(vecs) - 1
    BY <1>1, LenProperties DEF TypeOK, BufferInv, FreedInv
  <1>3. c \in Nat /\ c >= 0
    BY CapacityAssumption, SlackAssumption DEF Capacities
  <1>4. last \in Freed /\ spare \in Freed
    BY <1>2, <1>3
  <1>5. /\ last.vec = Len(vecs) /\ last.length <= last.capacity
        /\ last.capacity = vecs[Len(vecs)]
    BY <1>2
  <1>6. spare.vec = Len(vecs) + 1 /\ spare.length <= spare.capacity /\ spare.capacity = c
    BY <1>3
  <1>7. BufferInv' /\ SubSeq(slots', 1, cursor') = <<>> /\ slots' \in Seq(Objects \cup {Uninit})
    BY <1>1, SubSeqEmpty, EmptySeq DEF BufferInv
  <1>8. CASE cursor > 0
    <2>1. /\ delivered' = delivered \o SubSeq(slots, 1, cursor)
          /\ vecs' = Append(vecs, c)
          /\ freed' = freed \o <<last, spare>>
      BY <1>8 DEF Drop, Deliver
    <2>2. /\ vecs' \in Seq(Capacities) /\ Len(vecs') = Len(vecs) + 1
          /\ \A i \in 1..Len(vecs) : vecs'[i] = vecs[i]
          /\ vecs'[Len(vecs) + 1] = c
      BY <2>1, AppendProperties DEF TypeOK
    <2> HIDE DEF last, spare, Freed
    <2>3. /\ <<last, spare>> \in Seq(Freed) /\ Len(<<last, spare>>) = 2
          /\ <<last, spare>>[1] = last /\ <<last, spare>>[2] = spare
      BY <1>4
    <2>4. freed \in Seq(Freed)
      BY DEF TypeOK, Freed
    <2>5. /\ freed' \in Seq(Freed) /\ Len(freed') = Len(freed) + 2
          /\ \A i \in 1..(Len(freed) + 2) :
               freed'[i] = IF i <= Len(freed) THEN freed[i]
                           ELSE <<last, spare>>[i - Len(freed)]
      BY <2>1, <2>3, <2>4, ConcatProperties
    <2>6. ASSUME NEW i \in 1..Len(freed')
          PROVE  /\ freed'[i].vec = i /\ freed'[i].capacity = vecs'[i]
                 /\ freed'[i].length <= freed'[i].capacity
      <3>1. CASE i \in 1..Len(freed)
        <4>1. freed'[i] = freed[i] /\ vecs'[i] = vecs[i]
          BY <1>2, <2>2, <2>5, <3>1
        <4>2. /\ freed[i].vec = i /\ freed[i].capacity = vecs[i]
              /\ freed[i].length <= freed[i].capacity
          BY <3>1 DEF FreedInv
        <4> QED
          BY <4>1, <4>2
      <3>2. CASE i = Len(vecs)
        <4>1. freed'[i] = last /\ vecs'[i] = vecs[i]
          BY <1>2, <2>2, <2>3, <2>5, <3>2
        <4> QED
          BY <1>5, <3>2, <4>1
      <3>3. CASE i = Len(vecs) + 1
        <4>1. freed'[i] = spare /\ vecs'[i] = c
          BY <1>2, <2>2, <2>3, <2>5, <3>3
        <4> QED
          BY <1>6, <3>3, <4>1
      <3> QED
        BY <1>2, <2>5, <3>1, <3>2, <3>3
    <2>7. FreedInv'
      BY <1>1, <1>2, <2>2, <2>5, <2>6 DEF FreedInv
    <2>8. delivered' \in Seq(Objects)
      <3>1. SubSeq(slots, 1, cursor) \in Seq(Objects)
        BY <1>2, SubSeqProperties
      <3> QED
        BY <2>1, <3>1, ConcatProperties DEF TypeOK
    <2>9. TypeOK'
      BY <1>1, <1>7, <2>2, <2>5, <2>8 DEF TypeOK, Freed
    <2>10. PendingInv'
      BY <1>1, <1>7, <2>1, <2>8, ConcatEmptySeq DEF PendingInv
    <2> QED
      BY <1>7, <2>7, <2>9, <2>10
  <1>9. CASE ~(cursor > 0)
    <2>1. /\ freed' = Append(freed, last)
          /\ UNCHANGED <<delivered, vecs>>
      BY <1>9 DEF Drop, Reclaim
    <2>2. cursor = 0 /\ SubSeq(slots, 1, cursor) = <<>>
      BY <1>2, <1>9, SubSeqEmpty
    <2> HIDE DEF last, spare, Freed
    <2>3. /\ freed' \in Seq(Freed) /\ Len(freed') = Len(freed) + 1
          /\ \A i \in 1..Len(freed) : freed'[i] = freed[i]
          /\ freed'[Len(freed) + 1] = last
      <3>1. freed \in Seq(Freed)
        BY DEF TypeOK, Freed
      <3> QED
        BY <1>4, <2>1, <3>1, AppendProperties
    <2>4. ASSUME NEW i \in 1..Len(freed')
          PROVE  /\ freed'[i].vec = i /\ freed'[i].capacity = vecs'[i]
                 /\ freed'[i].length <= freed'[i].capacity
      <3>1. CASE i \in 1..Len(freed)
        BY <2>1, <2>3, <3>1 DEF FreedInv
      <3>2. CASE i = Len(vecs)
        BY <1>2, <1>5, <2>1, <2>3, <3>2
      <3> QED
        BY <1>2, <2>3, <3>1, <3>2
    <2>5. FreedInv'
      BY <1>1, <1>2, <2>1, <2>3, <2>4 DEF FreedInv
    <2>6. TypeOK'
      BY <1>1, <1>7, <2>1, <2>3 DEF TypeOK, Freed
    <2>7. PendingInv'
      BY <1>1, <1>7, <2>1, <2>2 DEF PendingInv
    <2> QED
      BY <1>7, <2>5, <2>6, <2>7
  <1> QED
    BY <1>8, <1>9

\* Every step of a closure keeps the invariant.
LEMMA StepIInv == IInv /\ [Next]_vars => IInv'
  <1> SUFFICES ASSUME IInv, [Next]_vars PROVE IInv'
    OBVIOUS
  <1>1. ASSUME NEW c \in Capacities, New(c) PROVE IInv'
    BY <1>1, NewStep
  <1>2. ASSUME NEW c \in Capacities, NEW p \in Objects, DoWork(p, c) PROVE IInv'
    BY <1>2, DoWorkStep
  <1>3. ASSUME NEW c \in Capacities, Drop(c) PROVE IInv'
    BY <1>3, DropStep
  <1>4. CASE UNCHANGED vars
    BY <1>4 DEF vars, IInv, TypeOK, BufferInv, FreedInv, PendingInv
  <1> QED
    BY <1>1, <1>2, <1>3, <1>4 DEF Next

\* The inductive invariant holds in every state of every behaviour.
THEOREM Invariance == Spec => []IInv
  BY InitIInv, StepIInv, PTL DEF Spec

-----------------------------------------------------------------------------
(* What follows from it.                                                   *)

\* Type correctness: no packet carries a slot that was never written.
THEOREM TypeCorrect == Spec => []TypeOK
  BY Invariance, PTL DEF IInv

\* No do_work writes outside the Vec that is lent.
THEOREM BoundsCorrect == Spec => []InBounds
  <1>1. IInv => InBounds
    <2> SUFFICES ASSUME IInv, open PROVE buffer \in 1..Len(vecs) /\ cursor < vecs[buffer]
      BY DEF InBounds
    <2> QED
      BY LenProperties DEF IInv, TypeOK, BufferInv
  <1> QED
    BY <1>1, Invariance, PTL

\* Every Vec lent is freed once, as it was allocated, but for the one in use.
THEOREM OwnershipCorrect == Spec => []Ownership
  <1>1. IInv => Ownership
    <2> SUFFICES ASSUME IInv PROVE Ownership
      OBVIOUS
    <2>1. /\ Len(freed) \in Nat /\ Len(vecs) \in Nat
          /\ open => buffer = Len(vecs) /\ Len(freed) = Len(vecs) - 1
          /\ ~open => Len(freed) = Len(vecs)
      BY LenProperties DEF IInv, TypeOK, BufferInv, FreedInv
    <2>2. \A i \in 1..Len(freed) :
            /\ freed[i].vec = i /\ freed[i].capacity = vecs[i]
            /\ freed[i].length <= freed[i].capacity
      BY DEF IInv, FreedInv
    <2>3. {freed[i].vec : i \in 1..Len(freed)} = 1..Len(freed)
      BY <2>2
    <2>4. 1..Len(freed) = (1..Len(vecs)) \ (IF open THEN {buffer} ELSE {})
      BY <2>1
    <2>5. \A i \in 1..Len(freed) : i \in 1..Len(vecs)
      BY <2>1
    <2> QED
      BY <2>2, <2>3, <2>4, <2>5 DEF Ownership
  <1> QED
    BY <1>1, Invariance, PTL

\* The buffer holds what was handed over and not delivered, cursor objects.
PendingFacts ==
    /\ Len(handed) = Len(delivered) + cursor
    /\ Len(handed) \in Nat /\ Len(delivered) \in Nat
    /\ cursor = 0 => delivered = handed

\* The objects handed over are those delivered and those below the cursor.
LEMMA PendingLength == IInv => PendingFacts
  <1> SUFFICES ASSUME IInv PROVE PendingFacts
    OBVIOUS
  <1>1. cursor \in Nat /\ \A i \in 1..cursor : slots[i] \in Objects
    BY DEF IInv, TypeOK, BufferInv
  <1>2. SubSeq(slots, 1, cursor) \in Seq(Objects) /\ Len(SubSeq(slots, 1, cursor)) = cursor
    BY <1>1, SubSeqProperties
  <1>3. Len(handed) = Len(delivered) + cursor
    BY <1>2, ConcatProperties DEF IInv, TypeOK, PendingInv
  <1>4. ASSUME cursor = 0 PROVE delivered = handed
    <2>1. SubSeq(slots, 1, cursor) = <<>>
      BY <1>4, SubSeqEmpty
    <2> QED
      BY <2>1, ConcatEmptySeq DEF IInv, TypeOK, PendingInv
  <1> QED
    BY <1>3, <1>4, LenProperties DEF IInv, TypeOK, PendingFacts

\* The same in the state after a step.
LEMMA PendingLengthNext == IInv' => PendingFacts'
  BY PendingLength, PTL

\* A do_work that delivers empties a full buffer.
LEMMA DoWorkDelivers ==
    ASSUME IInv, IInv', NEW p \in Objects, NEW c \in Capacities, DoWork(p, c)
    PROVE  /\ handed' = Append(handed, p)
           /\ \/ delivered' = delivered
              \/ /\ delivered' = handed'
                 /\ Len(delivered') - Len(delivered) >= WorkPacketCapacity
  <1>1. handed' = Append(handed, p) /\ open
    BY DEF DoWork
  <1>2. CASE cursor + 1 >= capacity
    <2>1. cursor' = 0
      BY <1>2 DEF DoWork, Flush, Lend
    <2>2. delivered' = handed' /\ Len(delivered) \in Nat
      BY <2>1, PendingLength, PendingLengthNext DEF PendingFacts
    <2>3. Len(handed') = Len(handed) + 1
      BY <1>1, AppendProperties DEF IInv, TypeOK
    <2>4. capacity >= WorkPacketCapacity /\ capacity \in Nat
      <3>1. capacity \in Capacities
        BY <1>1, ElementOfSeq, LenProperties DEF IInv, TypeOK, BufferInv
      <3> QED
        BY <3>1, CapacityAssumption, SlackAssumption DEF Capacities
    <2>5. Len(delivered') - Len(delivered) = cursor + 1
      <3>1. /\ Len(handed) = Len(delivered) + cursor
            /\ Len(delivered) \in Nat /\ cursor \in Nat
        BY PendingLength DEF PendingFacts, IInv, TypeOK
      <3>2. Len(delivered') = Len(handed) + 1
        BY <2>2, <2>3
      <3> QED
        BY <3>1, <3>2
    <2> QED
      BY <1>1, <1>2, <2>2, <2>4, <2>5, CapacityAssumption DEF IInv, TypeOK
  <1>3. CASE ~(cursor + 1 >= capacity)
    BY <1>1, <1>3 DEF DoWork
  <1> QED
    BY <1>2, <1>3

\* Every packet but the last one of a closure is a full one.
THEOREM FullPacketsCorrect == Spec => FullPackets
  <1>1. IInv /\ IInv' /\ [Next]_vars => [PacketIsFull]_vars
    <2> SUFFICES ASSUME IInv, IInv', Next PROVE PacketIsFull
      OBVIOUS
    <2>1. ASSUME NEW c \in Capacities, NEW p \in Objects, DoWork(p, c)
          PROVE  PacketIsFull
      BY <2>1, DoWorkDelivers DEF PacketIsFull
    <2>2. ASSUME NEW c \in Capacities, New(c) PROVE PacketIsFull
      BY <2>2 DEF New, PacketIsFull
    <2>3. ASSUME NEW c \in Capacities, Drop(c) PROVE PacketIsFull
      BY <2>3 DEF Drop, PacketIsFull
    <2> QED
      BY <2>1, <2>2, <2>3 DEF Next
  <1> QED
    BY <1>1, Invariance, PTL DEF Spec, FullPackets

-----------------------------------------------------------------------------
(* The closure implements RootReporting.                                   *)

\* Every step of a closure is a step of RootReporting or leaves it alone.
LEMMA ReportingStep ==
    IInv /\ IInv' /\ [Next]_vars => [RootReporting!Next]_(RootReporting!reporting)
  <1> SUFFICES ASSUME IInv, IInv', [Next]_vars
               PROVE  RootReporting!Next \/ UNCHANGED <<open, handed, delivered>>
    BY DEF RootReporting!reporting
  <1>1. ASSUME NEW c \in Capacities, New(c) PROVE RootReporting!Next
    BY <1>1 DEF New, RootReporting!Next, RootReporting!Open
  <1>2. ASSUME NEW c \in Capacities, NEW p \in Objects, DoWork(p, c)
        PROVE  RootReporting!Next
    <2>1. open /\ UNCHANGED open
      BY <1>2 DEF DoWork
    <2>2. RootReporting!Hand(p)
      BY <1>2, <2>1, DoWorkDelivers DEF RootReporting!Hand
    <2> QED
      BY <2>2 DEF RootReporting!Next
  <1>3. ASSUME NEW c \in Capacities, Drop(c) PROVE RootReporting!Next
    <2>1. open /\ open' = FALSE /\ cursor' = 0 /\ UNCHANGED handed
      BY <1>3 DEF Drop
    <2>2. delivered' = handed
      BY <2>1, PendingLengthNext DEF PendingFacts
    <2> QED
      BY <2>1, <2>2 DEF RootReporting!Next, RootReporting!Close
  <1>4. CASE UNCHANGED vars
    BY <1>4 DEF vars
  <1> QED
    BY <1>1, <1>2, <1>3, <1>4 DEF Next

\* No root is lost, repeated or reordered, and a closed closure has delivered
\* every root, whatever the capacities.
THEOREM ImplementsReporting == Spec => Reporting
  <1>1. Init => RootReporting!Init
    BY DEF Init, RootReporting!Init
  <1> QED
    BY <1>1, ReportingStep, Invariance, PTL DEF Spec, Reporting, RootReporting!Spec
=============================================================================
