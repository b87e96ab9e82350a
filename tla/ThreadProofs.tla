---------------------------- MODULE ThreadProofs ----------------------------
(***************************************************************************)
(* Proofs about the three components whose threads share memory: the ring  *)
(* buffer, the wait group and the wait-queue kernel module.                *)
(*                                                                         *)
(* For every capacity, every type of items and any number of threads, the  *)
(* indices of circular_buffer stay inside the array, and the buffer        *)
(* implements BoundedFifo.  For any sets of tasks, workers and waiters, no *)
(* waiter of WaitGroup sleeps through the last Done, and Wait returns only *)
(* when every announced task is retired.  For any number of readers and    *)
(* reads, no wake-up of the kernel module's thread is missed, and          *)
(* read_count never runs ahead of the reads.                               *)
(***************************************************************************)
EXTENDS CircularBuffer, WaitGroup, WaitQueue, SequenceTheorems, FiniteSetTheorems, TLAPS

-----------------------------------------------------------------------------
(* The ring buffer *)

Stored == Items \cup {Garbage}

(* Advance moves to the next slot, and from the last one to the first. *)
LEMMA AdvanceWraps ==
  ASSUME NEW i \in Slots
  PROVE  Advance(i) = IF i + 1 = Max THEN 0 ELSE i + 1
  BY CBAssumption DEF Slots, Advance, CBAssumption

(* A buffer whose full_ is raised only when its indices meet holds         *)
(* size() items; it holds Max of them exactly when full_ is raised, and    *)
(* none exactly when empty().                                              *)
LEMMA SizeRange ==
  ASSUME NEW h \in Slots, NEW t \in Slots, NEW f \in BOOLEAN
  PROVE  /\ Size(h, t, f) \in 0..Max
         /\ Size(h, t, f) = Max <=> f
         /\ Size(h, t, f) = 0 <=> (~f /\ h = t)
  BY CBAssumption DEF Slots, Size, CBAssumption

LEMMA SegmentSeq ==
  ASSUME NEW b \in [Slots -> Stored], NEW t \in Slots, NEW n \in 0..Max
  PROVE  /\ Segment(b, t, n) \in Seq(Stored)
         /\ Len(Segment(b, t, n)) = n
         /\ \A i \in 1..n : /\ Segment(b, t, n)[i] = b[Slot(t, i - 1)]
                           /\ Slot(t, i - 1) \in Slots
<1>1. \A i \in 1..n : Slot(t, i - 1) \in Slots
  BY CBAssumption DEF Slots, Slot, CBAssumption
<1>2. \A i \in 1..n : b[Slot(t, i - 1)] \in Stored
  BY <1>1
<1>3. Segment(b, t, n) \in [1..n -> Stored]
  BY <1>2 DEF Segment
<1>4. n \in Nat
  BY CBAssumption DEF CBAssumption
<1>5. Segment(b, t, n) \in Seq(Stored) /\ Len(Segment(b, t, n)) = n
  BY <1>3, <1>4
<1>6. QED
  BY <1>1, <1>5 DEF Segment

(* The stores of a put turn the contents into what BoundedFifo's put makes *)
(* of them.                                                                *)
LEMMA PutContents ==
  ASSUME NEW b \in [Slots -> Stored], NEW h \in Slots, NEW t \in Slots, NEW f \in BOOLEAN,
         NEW x \in Items, f => h = t
  PROVE  LET c == Contents(b, h, t, f)
         IN  AfterPutStore(b, h, t, f, x)
               = IF Len(c) = Max THEN Append(Tail(c), x) ELSE Append(c, x)
<1> DEFINE c == Contents(b, h, t, f)
           bb == [b EXCEPT ![h] = x]
           hh == Advance(h)
           tt == IF f THEN Advance(t) ELSE t
           ff == (hh = tt)
           d == Contents(bb, hh, tt, ff)
           e == IF Len(c) = Max THEN Append(Tail(c), x) ELSE Append(c, x)
<1>1. AfterPutStore(b, h, t, f, x) = d
  BY DEF AfterPutStore, AfterPutTail, AfterPutHead, AfterPutFull
<1>2. bb \in [Slots -> Stored] /\ hh \in Slots /\ tt \in Slots /\ ff \in BOOLEAN
  BY AdvanceWraps, CBAssumption DEF Slots, Stored, CBAssumption
<1>3. /\ c \in Seq(Stored) /\ Len(c) = Size(h, t, f)
      /\ \A i \in 1..Size(h, t, f) : c[i] = b[Slot(t, i - 1)] /\ Slot(t, i - 1) \in Slots
  BY SizeRange, SegmentSeq DEF Contents
<1>4. /\ d \in Seq(Stored) /\ Len(d) = Size(hh, tt, ff)
      /\ \A i \in 1..Size(hh, tt, ff) : d[i] = bb[Slot(tt, i - 1)] /\ Slot(tt, i - 1) \in Slots
  <2>1. Size(hh, tt, ff) \in 0..Max
    BY <1>2, CBAssumption DEF Size, Slots, CBAssumption
  <2> HIDE DEF bb, hh, tt, ff
  <2>2. QED
    BY <1>2, <2>1, SegmentSeq DEF Contents
<1>5. CASE f
  <2>1. Len(c) = Max /\ Size(hh, tt, ff) = Max /\ c # <<>>
    BY <1>3, <1>5, SizeRange, CBAssumption DEF Size, CBAssumption
  <2>2. e = Append(Tail(c), x) /\ Tail(c) \in Seq(Stored) /\ Len(Tail(c)) = Max - 1
        /\ \A i \in 1..(Max - 1) : Tail(c)[i] = c[i + 1]
    BY <1>3, <2>1, HeadTailProperties
  <2>3. e \in Seq(Stored) /\ Len(e) = Max
        /\ \A i \in 1..Max : e[i] = IF i = Max THEN x ELSE c[i + 1]
    BY <2>2, CBAssumption DEF Stored, CBAssumption
  <2>4. ASSUME NEW i \in 1..Max PROVE d[i] = e[i]
    <3>1. d[i] = bb[Slot(tt, i - 1)]
      BY <1>4, <2>1, <2>4
    <3>2. CASE i = Max
      <4>1. Slot(tt, i - 1) = h
        BY <1>5, <3>2, AdvanceWraps, CBAssumption DEF Slot, Slots, CBAssumption
      <4>2. QED
        BY <2>3, <3>1, <3>2, <4>1
    <3>3. CASE i # Max
      <4>1. i + 1 \in 1..Max
        BY <2>4, <3>3, CBAssumption DEF CBAssumption
      <4>2. c[i + 1] = b[Slot(t, i)] /\ Slot(t, i) \in Slots
        BY <1>3, <2>1, <4>1
      <4>3. Slot(tt, i - 1) = Slot(t, i) /\ Slot(t, i) # h
        BY <1>5, <3>3, AdvanceWraps, CBAssumption DEF Slot, Slots, CBAssumption
      <4>4. QED
        BY <2>3, <3>1, <3>3, <4>2, <4>3
    <3>4. QED
      BY <3>2, <3>3
  <2>5. d = e
    <3> HIDE DEF d, e
    <3>1. QED
      BY <1>4, <2>1, <2>3, <2>4, SeqEqual
  <2>6. QED
    BY <1>1, <2>5
<1>6. CASE ~f
  <2>1. Len(c) # Max /\ Len(c) \in Nat /\ Len(c) < Max /\ tt = t
    BY <1>3, <1>6, SizeRange, CBAssumption DEF CBAssumption
  <2>2. Size(hh, tt, ff) = Len(c) + 1
    <3>1. hh = IF h + 1 = Max THEN 0 ELSE h + 1
      BY AdvanceWraps
    <3>2. Len(c) = IF h >= t THEN h - t ELSE Max + h - t
      BY <1>3, <1>6 DEF Size
    <3>3. Size(hh, t, hh = t) = IF hh = t THEN Max ELSE IF hh >= t THEN hh - t ELSE Max + hh - t
      BY DEF Size
    <3>4. QED
      <4> HIDE DEF c, hh
      <4>1. QED
        BY <2>1, <3>1, <3>2, <3>3, CBAssumption DEF Slots, CBAssumption
  <2>3. e = Append(c, x)
    BY <2>1
  <2>4. e \in Seq(Stored) /\ Len(e) = Len(c) + 1
        /\ \A i \in 1..(Len(c) + 1) : e[i] = IF i = Len(c) + 1 THEN x ELSE c[i]
    <3>1. x \in Stored
      BY DEF Stored
    <3> HIDE DEF c
    <3>2. Append(c, x) \in Seq(Stored) /\ Len(Append(c, x)) = Len(c) + 1
          /\ \A i \in 1..(Len(c) + 1) : Append(c, x)[i] = IF i = Len(c) + 1 THEN x ELSE c[i]
      BY <1>3, <3>1
    <3>3. QED
      BY <2>3, <3>2
  <2>5. ASSUME NEW i \in 1..(Len(c) + 1) PROVE d[i] = e[i]
    <3>1. d[i] = bb[Slot(t, i - 1)]
      BY <1>4, <2>1, <2>2
    <3>2. CASE i = Len(c) + 1
      <4>1. Slot(t, i - 1) = h
        BY <1>3, <1>6, <3>2, CBAssumption DEF Slot, Slots, Size, CBAssumption
      <4>2. QED
        BY <2>4, <3>1, <3>2, <4>1
    <3>3. CASE i # Len(c) + 1
      <4>1. i \in 1..Len(c)
        BY <2>1, <3>3
      <4>2. c[i] = b[Slot(t, i - 1)] /\ Slot(t, i - 1) \in Slots
        BY <1>3, <4>1
      <4>3. Slot(t, i - 1) # h
        BY <1>3, <1>6, <4>1, CBAssumption DEF Slot, Slots, Size, CBAssumption
      <4>4. QED
        BY <2>4, <3>1, <3>3, <4>2, <4>3
    <3>4. QED
      BY <3>2, <3>3
  <2>6. d = e
    <3> HIDE DEF c, d, e
    <3>1. QED
      BY <1>4, <2>1, <2>2, <2>4, <2>5, SeqEqual
  <2>7. QED
    BY <1>1, <2>6
<1>7. QED
  BY <1>5, <1>6

(* Reading slot tail_ and advancing tail_ hands out the oldest item and    *)
(* keeps the others in order.                                              *)
LEMMA GetContents ==
  ASSUME NEW b \in [Slots -> Stored], NEW h \in Slots, NEW t \in Slots, NEW f \in BOOLEAN,
         f => h = t, ~(~f /\ h = t)
  PROVE  LET c == Contents(b, h, t, f)
         IN  /\ c # <<>>
             /\ Head(c) = b[t]
             /\ AfterGetTail(b, h, t, FALSE) = Tail(c)
<1> DEFINE c == Contents(b, h, t, f)
           m == Size(h, t, f)
           tt == Advance(t)
           d == Contents(b, h, tt, FALSE)
<1>1. m \in 1..Max
  BY SizeRange
<1>2. /\ c \in Seq(Stored) /\ Len(c) = m
      /\ \A i \in 1..m : c[i] = b[Slot(t, i - 1)] /\ Slot(t, i - 1) \in Slots
  <2>1. c = Segment(b, t, m)
    BY DEF Contents
  <2>2. m \in 0..Max
    BY <1>1
  <2> HIDE DEF c, m
  <2>3. QED
    BY <2>1, <2>2, SegmentSeq
<1>3. tt = IF t + 1 = Max THEN 0 ELSE t + 1
  BY AdvanceWraps
<1>4. tt \in Slots /\ Size(h, tt, FALSE) = m - 1
  BY <1>3, CBAssumption DEF Size, Slots, CBAssumption
<1>5. /\ d \in Seq(Stored) /\ Len(d) = m - 1
      /\ \A i \in 1..(m - 1) : d[i] = b[Slot(tt, i - 1)]
  <2>1. d = Segment(b, tt, Size(h, tt, FALSE))
    BY DEF Contents
  <2> HIDE DEF d, tt, m
  <2>2. m - 1 \in 0..Max
    BY <1>1, CBAssumption DEF CBAssumption
  <2>3. d = Segment(b, tt, m - 1)
    BY <1>4, <2>1
  <2>4. QED
    BY <1>4, <2>2, <2>3, SegmentSeq
<1>6. c # <<>> /\ Head(c) = b[t]
  <2>1. c[1] = b[Slot(t, 0)] /\ Slot(t, 0) = t
    BY <1>1, <1>2, CBAssumption DEF Slot, Slots, CBAssumption
  <2> HIDE DEF c, m
  <2>2. QED
    BY <1>1, <1>2, <2>1
<1>7. Tail(c) \in Seq(Stored) /\ Len(Tail(c)) = m - 1
      /\ \A i \in 1..(m - 1) : Tail(c)[i] = c[i + 1]
  <2> HIDE DEF c, m
  <2>1. QED
    BY <1>2, <1>6, HeadTailProperties
<1>8. ASSUME NEW i \in 1..(m - 1) PROVE d[i] = Tail(c)[i]
  <2>1. Slot(tt, i - 1) = Slot(t, i)
    <3> HIDE DEF m, tt
    <3>1. QED
      BY <1>1, <1>3, CBAssumption DEF Slot, Slots, CBAssumption
  <2>2. c[i + 1] = b[Slot(t, i)]
    <3> HIDE DEF m, c
    <3>1. i + 1 \in 1..m /\ (i + 1) - 1 = i
      BY <1>1, CBAssumption DEF CBAssumption
    <3>2. QED
      BY <1>2, <3>1
  <2> HIDE DEF c, d, m, tt
  <2>3. QED
    BY <1>5, <1>7, <2>1, <2>2
<1>9. d = Tail(c)
  <2> HIDE DEF c, d, m
  <2>1. QED
    BY <1>1, <1>5, <1>7, <1>8, SeqEqual
<1>10. QED
  BY <1>6, <1>9 DEF AfterGetTail

(* No items: the contents of an empty buffer. *)
LEMMA EmptyContents ==
  ASSUME NEW b \in [Slots -> Stored], NEW h \in Slots
  PROVE  Contents(b, h, h, FALSE) = <<>>
<1>1. Size(h, h, FALSE) = 0
  BY CBAssumption DEF Size, Slots, CBAssumption
<1>2. Segment(b, h, 0) \in Seq(Stored) /\ Len(Segment(b, h, 0)) = 0
  BY SegmentSeq, CBAssumption DEF CBAssumption
<1>3. QED
  BY <1>1, <1>2, EmptySeq DEF Contents

-----------------------------------------------------------------------------
LEMMA InitIInv == Init => IInv
<1> USE CBAssumption DEF Init, CBAssumption
<1>1. Init => full \in BOOLEAN
  BY Zenon
<1>2. Init => TypeOK
  BY <1>1 DEF TypeOK, Slots, Points
<1>3. Init => OwnerOK
  BY DEF OwnerOK
<1>4. Init => FieldsOK
  BY DEF FieldsOK
<1>5. QED
  BY <1>2, <1>3, <1>4 DEF IInv

(* Every store keeps both indices inside the array. *)
LEMMA TypeStep == TypeOK /\ OwnerOK /\ [Next]_vars => TypeOK'
<1>1. SUFFICES ASSUME TypeOK, OwnerOK, [Next]_vars PROVE TypeOK'
  OBVIOUS
<1> USE CBAssumption DEF CBAssumption, Goto, TypeOK, OwnerOK, Points, PutPoints, GetPoints
<1>2. CASE UNCHANGED vars
  BY <1>1, <1>2 DEF vars
<1>3. ASSUME NEW t \in Threads, NEW x \in Items, PutLock(t, x) PROVE TypeOK'
  BY <1>1, <1>3 DEF PutLock, Acquire, fields
<1>4. ASSUME NEW t \in Threads, GetLock(t) PROVE TypeOK'
  BY <1>1, <1>4 DEF GetLock, Acquire, fields
<1>5. ASSUME NEW t \in Threads, ResetLock(t) PROVE TypeOK'
  BY <1>1, <1>5 DEF ResetLock, Acquire, fields
<1>6. ASSUME NEW t \in Threads, Release(t) PROVE TypeOK'
  BY <1>1, <1>6 DEF Release
<1>7. ASSUME NEW t \in Threads, Put(t) PROVE TypeOK'
  <2>1. CASE PutStore(t)
    BY <1>1, <2>1 DEF PutStore
  <2>2. CASE PutTail(t)
    BY <1>1, <2>2, AdvanceWraps DEF PutTail, Slots
  <2>3. CASE PutHead(t)
    BY <1>1, <2>3, AdvanceWraps DEF PutHead, Slots
  <2>4. CASE PutFull(t)
    BY <1>1, <2>4 DEF PutFull
  <2>5. QED
    BY <1>7, <2>1, <2>2, <2>3, <2>4 DEF Put
<1>8. ASSUME NEW t \in Threads, Get(t) PROVE TypeOK'
  <2>1. CASE GetTest(t)
    BY <1>1, <2>1 DEF GetTest
  <2>2. CASE GetRead(t)
    BY <1>1, <2>2 DEF GetRead
  <2>3. CASE GetFull(t)
    BY <1>1, <2>3 DEF GetFull
  <2>4. CASE GetTail(t)
    BY <1>1, <2>4, AdvanceWraps DEF GetTail, Slots
  <2>5. QED
    BY <1>8, <2>1, <2>2, <2>3, <2>4 DEF Get
<1>9. ASSUME NEW t \in Threads, Reset(t) PROVE TypeOK'
  <2>1. CASE ResetHead(t)
    BY <1>1, <2>1 DEF ResetHead
  <2>2. CASE ResetFull(t)
    BY <1>1, <2>2 DEF ResetFull
  <2>3. QED
    BY <1>9, <2>1, <2>2 DEF Reset
<1>10. QED
  BY <1>1, <1>2, <1>3, <1>4, <1>5, <1>6, <1>7, <1>8, <1>9 DEF Next

(* Whoever is inside an operation owns the mutex. *)
LEMMA OwnerStep == TypeOK /\ OwnerOK /\ [Next]_vars => OwnerOK'
<1>1. SUFFICES ASSUME TypeOK, OwnerOK, [Next]_vars PROVE OwnerOK'
  OBVIOUS
<1> USE CBAssumption DEF CBAssumption, Goto, TypeOK, OwnerOK
<1>2. CASE UNCHANGED vars
  BY <1>1, <1>2 DEF vars
<1>3. ASSUME NEW t \in Threads, NEW x \in Items, PutLock(t, x) PROVE OwnerOK'
  BY <1>1, <1>3 DEF PutLock, Acquire, fields
<1>4. ASSUME NEW t \in Threads, GetLock(t) PROVE OwnerOK'
  BY <1>1, <1>4 DEF GetLock, Acquire, fields
<1>5. ASSUME NEW t \in Threads, ResetLock(t) PROVE OwnerOK'
  BY <1>1, <1>5 DEF ResetLock, Acquire, fields
<1>6. ASSUME NEW t \in Threads, Release(t) PROVE OwnerOK'
  <2>1. mutex = t /\ \A u \in Threads \ {t} : pc[u] = "idle"
    BY <1>1, <1>6 DEF Release
  <2>2. \A u \in Threads : pc'[u] = "idle"
    BY <1>1, <1>6, <2>1 DEF Release
  <2>3. QED
    BY <1>6, <2>2 DEF Release
<1>7. ASSUME NEW t \in Threads, Put(t) PROVE OwnerOK'
  <2>1. CASE PutStore(t)
    BY <1>1, <2>1 DEF PutStore
  <2>2. CASE PutTail(t)
    BY <1>1, <2>2, AdvanceWraps DEF PutTail, Slots
  <2>3. CASE PutHead(t)
    BY <1>1, <2>3, AdvanceWraps DEF PutHead, Slots
  <2>4. CASE PutFull(t)
    BY <1>1, <2>4 DEF PutFull
  <2>5. QED
    BY <1>7, <2>1, <2>2, <2>3, <2>4 DEF Put
<1>8. ASSUME NEW t \in Threads, Get(t) PROVE OwnerOK'
  <2>1. CASE GetTest(t)
    BY <1>1, <2>1 DEF GetTest
  <2>2. CASE GetRead(t)
    BY <1>1, <2>2 DEF GetRead
  <2>3. CASE GetFull(t)
    BY <1>1, <2>3 DEF GetFull
  <2>4. CASE GetTail(t)
    BY <1>1, <2>4, AdvanceWraps DEF GetTail, Slots
  <2>5. QED
    BY <1>8, <2>1, <2>2, <2>3, <2>4 DEF Get
<1>9. ASSUME NEW t \in Threads, Reset(t) PROVE OwnerOK'
  <2>1. CASE ResetHead(t)
    BY <1>1, <2>1 DEF ResetHead
  <2>2. CASE ResetFull(t)
    BY <1>1, <2>2 DEF ResetFull
  <2>3. QED
    BY <1>9, <2>1, <2>2 DEF Reset
<1>10. QED
  BY <1>1, <1>2, <1>3, <1>4, <1>5, <1>6, <1>7, <1>8, <1>9 DEF Next

(* full_ stays truthful outside the stores of a put. *)
LEMMA FieldsStep == TypeOK /\ OwnerOK /\ FieldsOK /\ [Next]_vars => FieldsOK'
<1>1. SUFFICES ASSUME TypeOK, OwnerOK, FieldsOK, [Next]_vars PROVE FieldsOK'
  OBVIOUS
<1> USE CBAssumption DEF CBAssumption, Goto, TypeOK, OwnerOK, FieldsOK
<1>2. CASE UNCHANGED vars
  BY <1>1, <1>2 DEF vars
<1>3. ASSUME NEW t \in Threads, NEW x \in Items, PutLock(t, x) PROVE FieldsOK'
  BY <1>1, <1>3 DEF PutLock, Acquire, fields
<1>4. ASSUME NEW t \in Threads, GetLock(t) PROVE FieldsOK'
  BY <1>1, <1>4 DEF GetLock, Acquire, fields
<1>5. ASSUME NEW t \in Threads, ResetLock(t) PROVE FieldsOK'
  BY <1>1, <1>5 DEF ResetLock, Acquire, fields
<1>6. ASSUME NEW t \in Threads, Release(t) PROVE FieldsOK'
  BY <1>1, <1>6 DEF Release
<1>7. ASSUME NEW t \in Threads, Put(t) PROVE FieldsOK'
  <2>1. CASE PutStore(t)
    BY <1>1, <2>1 DEF PutStore
  <2>2. CASE PutTail(t)
    BY <1>1, <2>2, AdvanceWraps DEF PutTail, Slots
  <2>3. CASE PutHead(t)
    BY <1>1, <2>3, AdvanceWraps DEF PutHead, Slots
  <2>4. CASE PutFull(t)
    BY <1>1, <2>4 DEF PutFull
  <2>5. QED
    BY <1>7, <2>1, <2>2, <2>3, <2>4 DEF Put
<1>8. ASSUME NEW t \in Threads, Get(t) PROVE FieldsOK'
  <2>1. CASE GetTest(t)
    BY <1>1, <2>1 DEF GetTest
  <2>2. CASE GetRead(t)
    BY <1>1, <2>2 DEF GetRead
  <2>3. CASE GetFull(t)
    BY <1>1, <2>3 DEF GetFull
  <2>4. CASE GetTail(t)
    BY <1>1, <2>4 DEF GetTail
  <2>5. QED
    BY <1>8, <2>1, <2>2, <2>3, <2>4 DEF Get
<1>9. ASSUME NEW t \in Threads, Reset(t) PROVE FieldsOK'
  <2>1. CASE ResetHead(t)
    BY <1>1, <2>1 DEF ResetHead
  <2>2. CASE ResetFull(t)
    BY <1>1, <2>2 DEF ResetFull
  <2>3. QED
    BY <1>9, <2>1, <2>2 DEF Reset
<1>10. QED
  BY <1>1, <1>2, <1>3, <1>4, <1>5, <1>6, <1>7, <1>8, <1>9 DEF Next

LEMMA Inductive == Spec => []IInv
<1>1. IInv /\ [Next]_vars => IInv'
  BY TypeStep, OwnerStep, FieldsStep DEF IInv
<1>2. QED
  BY <1>1, InitIInv, PTL DEF Spec

(* Both indices stay inside the array in every interleaving of put, get    *)
(* and reset, for every capacity.                                          *)
THEOREM TypeCorrect == Spec => []TypeOK
<1>1. IInv => TypeOK
  BY DEF IInv
<1>2. QED
  BY <1>1, Inductive, PTL

-----------------------------------------------------------------------------
(* The queue a state stands for, by the next statement of the owner. *)
LEMMA QueueAt ==
  /\ Where = "putStore" => Queue = AfterPutStore(buf, head, tail, full, item[mutex])
  /\ Where = "putTail" => Queue = AfterPutTail(buf, head, tail, full)
  /\ Where = "putHead" => Queue = AfterPutHead(buf, head, tail)
  /\ Where = "putFull" => Queue = AfterPutFull(buf, head, tail)
  /\ Where = "getTest" => Queue = IF Empty THEN <<>> ELSE AfterGetTail(buf, head, tail, FALSE)
  /\ Where \in {"getRead", "getFull"} => Queue = AfterGetTail(buf, head, tail, FALSE)
  /\ Where = "getTail" => Queue = AfterGetTail(buf, head, tail, full)
  /\ Where \in {"resetHead", "resetFull"} => Queue = <<>>
  /\ Where \in {"idle", "unlock"} => Queue = Contents(buf, head, tail, full)
  BY DEF Queue

(* The thread that makes a step inside an operation owns the mutex; all    *)
(* the others are outside, so what they got is in val.                     *)
LEMMA OneInside ==
  ASSUME IInv, NEW t \in Threads, pc[t] # "idle"
  PROVE  mutex = t /\ Where = pc[t] /\ \A u \in Threads \ {t} : pc[u] = "idle"
  BY CBAssumption DEF IInv, OwnerOK, Where, CBAssumption

LEMMA NobodyInside ==
  ASSUME IInv, mutex = NoThread
  PROVE  Where = "idle" /\ \A u \in Threads : pc[u] = "idle"
  BY CBAssumption DEF IInv, OwnerOK, Where, CBAssumption

LEMMA InitRefines == Init => Fifo!FifoInit
<1>1. SUFFICES ASSUME Init PROVE Queue = <<>> /\ Got = [t \in Threads |-> Default]
  BY DEF Fifo!FifoInit
<1>2. Where = "idle"
  BY <1>1 DEF Init, Where
<1>3. IInv
  BY <1>1, InitIInv
<1>4. head = tail /\ full = FALSE /\ head \in Slots /\ buf \in [Slots -> Stored]
  BY <1>1, <1>3 DEF Init, IInv, TypeOK, Stored
<1>5. Queue = <<>>
  BY <1>2, <1>4, QueueAt, EmptyContents
<1>6. Got = [t \in Threads |-> Default]
  BY <1>1 DEF Init, Got
<1>7. QED
  BY <1>5, <1>6

(* A put takes effect when it takes the mutex. *)
LEMMA PutLockRefines ==
  ASSUME IInv, IInv', NEW t \in Threads, NEW x \in Items, PutLock(t, x)
  PROVE  Fifo!FifoPut(x)
<1>1. Where = "idle" /\ \A u \in Threads : pc[u] = "idle"
  BY NobodyInside DEF PutLock, Acquire
<1>2. /\ mutex' = t /\ pc'[t] = "putStore" /\ item'[t] = x
      /\ \A u \in Threads \ {t} : pc'[u] = "idle"
      /\ buf' = buf /\ head' = head /\ tail' = tail /\ full' = full /\ val' = val
  BY <1>1 DEF PutLock, Acquire, Goto, fields, IInv, TypeOK
<1>3. Where' = "putStore"
  BY <1>2, CBAssumption DEF Where, CBAssumption
<1>4. Queue' = AfterPutStore(buf, head, tail, full, x)
  <2>1. Queue' = AfterPutStore(buf', head', tail', full', item'[mutex'])
    BY <1>3 DEF Queue
  <2>2. QED
    BY <1>2, <2>1
<1>5. Queue = Contents(buf, head, tail, full)
  BY <1>1, QueueAt
<1>6. /\ buf \in [Slots -> Stored] /\ head \in Slots /\ tail \in Slots /\ full \in BOOLEAN
      /\ full => head = tail
  BY <1>1 DEF IInv, TypeOK, FieldsOK, Stored
<1>7. Queue' = IF Len(Queue) = Max THEN Append(Tail(Queue), x) ELSE Append(Queue, x)
  BY <1>4, <1>5, <1>6, PutContents
<1>8. Got' = Got
  BY <1>1, <1>2 DEF Got
<1>9. QED
  BY <1>7, <1>8 DEF Fifo!FifoPut

(* So does a get, with the oldest item or, on an empty buffer, T(). *)
LEMMA GetLockRefines ==
  ASSUME IInv, IInv', NEW t \in Threads, GetLock(t)
  PROVE  Fifo!FifoGet(t)
<1>1. Where = "idle" /\ \A u \in Threads : pc[u] = "idle"
  BY NobodyInside DEF GetLock, Acquire
<1>2. /\ mutex' = t /\ pc'[t] = "getTest"
      /\ \A u \in Threads \ {t} : pc'[u] = "idle"
      /\ buf' = buf /\ head' = head /\ tail' = tail /\ full' = full /\ val' = val
  BY <1>1 DEF GetLock, Acquire, Goto, fields, IInv, TypeOK
<1>3. Where' = "getTest" /\ (Empty' <=> Empty)
  BY <1>2, CBAssumption DEF Where, Empty, CBAssumption
<1>4. Queue' = IF Empty THEN <<>> ELSE AfterGetTail(buf, head, tail, FALSE)
  <2>1. Queue' = IF Empty' THEN <<>> ELSE AfterGetTail(buf', head', tail', FALSE)
    BY <1>3 DEF Queue
  <2>2. QED
    BY <1>2, <1>3, <2>1
<1>5. Queue = Contents(buf, head, tail, full)
  BY <1>1, QueueAt
<1>6. /\ buf \in [Slots -> Stored] /\ head \in Slots /\ tail \in Slots /\ full \in BOOLEAN
      /\ full => head = tail
  BY <1>1 DEF IInv, TypeOK, FieldsOK, Stored
<1>7. Got = [u \in Threads |-> val[u]]
  BY <1>1 DEF Got
<1>8. Got' = [Got EXCEPT ![t] = IF Empty THEN Default ELSE buf[tail]]
  BY <1>2, <1>3, <1>7 DEF Got
<1>9. CASE Empty
  <2>1. head = tail /\ full = FALSE
    BY <1>6, <1>9 DEF Empty
  <2>2. Queue = <<>>
    BY <1>5, <1>6, <2>1, EmptyContents
  <2>3. QED
    BY <1>4, <1>8, <1>9, <2>2 DEF Fifo!FifoGet
<1>10. CASE ~Empty
  <2>1. ~(~full /\ head = tail)
    BY <1>10 DEF Empty
  <2>2. Queue # <<>> /\ Head(Queue) = buf[tail] /\ Queue' = Tail(Queue)
    BY <1>4, <1>5, <1>6, <1>10, <2>1, GetContents
  <2>3. QED
    BY <1>8, <1>10, <2>2 DEF Fifo!FifoGet
<1>11. QED
  BY <1>9, <1>10

LEMMA ResetLockRefines ==
  ASSUME IInv, IInv', NEW t \in Threads, ResetLock(t)
  PROVE  Fifo!FifoReset
<1>1. \A u \in Threads : pc[u] = "idle"
  BY NobodyInside DEF ResetLock, Acquire
<1>2. /\ mutex' = t /\ pc'[t] = "resetHead" /\ val' = val
      /\ \A u \in Threads \ {t} : pc'[u] = "idle"
  BY <1>1 DEF ResetLock, Acquire, Goto, fields, IInv, TypeOK
<1>3. Where' = "resetHead"
  BY <1>2, CBAssumption DEF Where, CBAssumption
<1>4. Queue' = <<>>
  BY <1>3 DEF Queue
<1>5. Got' = Got
  BY <1>1, <1>2 DEF Got
<1>6. QED
  BY <1>4, <1>5 DEF Fifo!FifoReset

(* The stores of put, get and reset, and the release of the mutex, change  *)
(* nothing a caller can tell: they only carry out what the lock decided.   *)
LEMMA InsideStutters ==
  ASSUME IInv, IInv', NEW t \in Threads, Release(t) \/ Put(t) \/ Get(t) \/ Reset(t)
  PROVE  Queue' = Queue /\ Got' = Got
<1>1. pc[t] # "idle"
  BY DEF Release, Put, PutStore, PutTail, PutHead, PutFull, Get, GetTest, GetRead, GetFull,
     GetTail, Reset, ResetHead, ResetFull
<1>2. mutex = t /\ Where = pc[t] /\ \A u \in Threads \ {t} : pc[u] = "idle"
  BY <1>1, OneInside
<1>3. pc \in [Threads -> Points] /\ t # NoThread
  BY CBAssumption DEF IInv, TypeOK, CBAssumption
<1>4. /\ buf \in [Slots -> Stored] /\ head \in Slots /\ tail \in Slots /\ full \in BOOLEAN
      /\ pc[t] = "resetFull" => head = tail
  BY DEF IInv, TypeOK, FieldsOK, Stored
<1>5. CASE Release(t)
  <2>1. Where = "unlock" /\ Where' = "idle"
    BY <1>2, <1>3, <1>5 DEF Release, Where
  <2>2. Queue = Contents(buf, head, tail, full)
    BY <2>1, QueueAt
  <2>3. Queue' = Contents(buf', head', tail', full')
    BY <2>1 DEF Queue
  <2>4. Got' = Got
    BY <1>2, <1>3, <1>5 DEF Release, Goto, Got
  <2>5. QED
    BY <1>5, <2>2, <2>3, <2>4 DEF Release
<1>6. CASE PutStore(t)
  <2>1. Where = "putStore" /\ Where' = "putTail"
    BY <1>2, <1>3, <1>6 DEF PutStore, Goto, Where
  <2>2. Queue = AfterPutStore(buf, head, tail, full, item[t])
    BY <1>2, <2>1, QueueAt
  <2>3. Queue' = AfterPutTail(buf', head', tail', full')
    BY <2>1 DEF Queue
  <2>4. Queue' = Queue
    BY <1>6, <2>2, <2>3 DEF PutStore, AfterPutStore
  <2>5. Got' = Got
    BY <1>2, <1>3, <1>6 DEF PutStore, Goto, Got
  <2>6. QED
    BY <2>4, <2>5
<1>7. CASE PutTail(t)
  <2>1. Where = "putTail" /\ Where' = "putHead"
    BY <1>2, <1>3, <1>7 DEF PutTail, Goto, Where
  <2>2. Queue = AfterPutTail(buf, head, tail, full)
    BY <2>1, QueueAt
  <2>3. Queue' = AfterPutHead(buf', head', tail')
    BY <2>1 DEF Queue
  <2>4. Queue' = Queue
    BY <1>7, <2>2, <2>3 DEF PutTail, AfterPutTail
  <2>5. Got' = Got
    BY <1>2, <1>3, <1>7 DEF PutTail, Goto, Got
  <2>6. QED
    BY <2>4, <2>5
<1>8. CASE PutHead(t)
  <2>1. Where = "putHead" /\ Where' = "putFull"
    BY <1>2, <1>3, <1>8 DEF PutHead, Goto, Where
  <2>2. Queue = AfterPutHead(buf, head, tail)
    BY <2>1, QueueAt
  <2>3. Queue' = AfterPutFull(buf', head', tail')
    BY <2>1 DEF Queue
  <2>4. Queue' = Queue
    BY <1>8, <2>2, <2>3 DEF PutHead, AfterPutHead
  <2>5. Got' = Got
    BY <1>2, <1>3, <1>8 DEF PutHead, Goto, Got
  <2>6. QED
    BY <2>4, <2>5
<1>9. CASE PutFull(t)
  <2>1. Where = "putFull" /\ Where' = "unlock"
    BY <1>2, <1>3, <1>9 DEF PutFull, Goto, Where
  <2>2. Queue = AfterPutFull(buf, head, tail)
    BY <2>1, QueueAt
  <2>3. Queue' = Contents(buf', head', tail', full')
    BY <2>1 DEF Queue
  <2>4. Queue' = Queue
    BY <1>9, <2>2, <2>3 DEF PutFull, AfterPutFull
  <2>5. Got' = Got
    BY <1>2, <1>3, <1>9 DEF PutFull, Goto, Got
  <2>6. QED
    BY <2>4, <2>5
<1>10. CASE GetTest(t) /\ Empty
  <2>1. Where = "getTest" /\ Where' = "unlock"
    BY <1>2, <1>3, <1>10 DEF GetTest, Goto, Where
  <2>2. Queue = <<>>
    BY <1>10, <2>1, QueueAt
  <2>3. Queue' = Contents(buf', head', tail', full')
    BY <2>1 DEF Queue
  <2>4. head = tail /\ full = FALSE
    BY <1>4, <1>10 DEF Empty
  <2>5. Queue' = <<>>
    BY <1>4, <1>10, <2>3, <2>4, EmptyContents DEF GetTest
  <2>6. Got' = Got
    BY <1>2, <1>3, <1>10 DEF GetTest, Goto, Got, IInv, TypeOK
  <2>7. QED
    BY <2>2, <2>5, <2>6
<1>11. CASE GetTest(t) /\ ~Empty
  <2>1. Where = "getTest" /\ Where' = "getRead"
    BY <1>2, <1>3, <1>11 DEF GetTest, Goto, Where
  <2>2. Queue = AfterGetTail(buf, head, tail, FALSE)
    BY <1>11, <2>1, QueueAt
  <2>3. Queue' = AfterGetTail(buf', head', tail', FALSE)
    BY <2>1 DEF Queue
  <2>4. Got' = Got
    BY <1>2, <1>3, <1>11 DEF GetTest, Goto, Got
  <2>5. QED
    BY <1>11, <2>2, <2>3, <2>4 DEF GetTest
<1>12. CASE GetRead(t)
  <2>1. Where = "getRead" /\ Where' = "getFull"
    BY <1>2, <1>3, <1>12 DEF GetRead, Goto, Where
  <2>2. Queue = AfterGetTail(buf, head, tail, FALSE)
    BY <2>1, QueueAt
  <2>3. Queue' = AfterGetTail(buf', head', tail', FALSE)
    BY <2>1 DEF Queue
  <2>4. Got' = Got
    BY <1>2, <1>3, <1>12 DEF GetRead, Goto, Got, IInv, TypeOK
  <2>5. QED
    BY <1>12, <2>2, <2>3, <2>4 DEF GetRead
<1>13. CASE GetFull(t)
  <2>1. Where = "getFull" /\ Where' = "getTail"
    BY <1>2, <1>3, <1>13 DEF GetFull, Goto, Where
  <2>2. Queue = AfterGetTail(buf, head, tail, FALSE)
    BY <2>1, QueueAt
  <2>3. Queue' = AfterGetTail(buf', head', tail', full')
    BY <2>1 DEF Queue
  <2>4. Got' = Got
    BY <1>2, <1>3, <1>13 DEF GetFull, Goto, Got
  <2>5. QED
    BY <1>13, <2>2, <2>3, <2>4 DEF GetFull
<1>14. CASE GetTail(t)
  <2>1. Where = "getTail" /\ Where' = "unlock"
    BY <1>2, <1>3, <1>14 DEF GetTail, Goto, Where
  <2>2. Queue = AfterGetTail(buf, head, tail, full)
    BY <2>1, QueueAt
  <2>3. Queue' = Contents(buf', head', tail', full')
    BY <2>1 DEF Queue
  <2>4. Queue' = Queue
    BY <1>14, <2>2, <2>3 DEF GetTail, AfterGetTail
  <2>5. Got' = Got
    BY <1>2, <1>3, <1>14 DEF GetTail, Goto, Got
  <2>6. QED
    BY <2>4, <2>5
<1>15. CASE ResetHead(t)
  <2>1. Where = "resetHead" /\ Where' = "resetFull"
    BY <1>2, <1>3, <1>15 DEF ResetHead, Goto, Where
  <2>2. Queue = <<>>
    BY <2>1, QueueAt
  <2>3. Queue' = <<>>
    BY <2>1 DEF Queue
  <2>4. Got' = Got
    BY <1>2, <1>3, <1>15 DEF ResetHead, Goto, Got
  <2>5. QED
    BY <2>2, <2>3, <2>4
<1>16. CASE ResetFull(t)
  <2>1. Where = "resetFull" /\ Where' = "unlock"
    BY <1>2, <1>3, <1>16 DEF ResetFull, Goto, Where
  <2>2. Queue = <<>>
    BY <2>1, QueueAt
  <2>3. Queue' = Contents(buf', head', tail', full')
    BY <2>1 DEF Queue
  <2>4. head' = tail' /\ full' = FALSE /\ buf' = buf /\ tail' = tail
    BY <1>4, <1>16 DEF ResetFull
  <2>5. Queue' = <<>>
    BY <1>4, <2>3, <2>4, EmptyContents
  <2>6. Got' = Got
    BY <1>2, <1>3, <1>16 DEF ResetFull, Goto, Got
  <2>7. QED
    BY <2>2, <2>5, <2>6
<1>17. QED
  BY <1>5, <1>6, <1>7, <1>8, <1>9, <1>10, <1>11, <1>12, <1>13, <1>14, <1>15, <1>16
     DEF Put, Get, Reset

(* put, get and reset of circular_buffer, in any interleaving and for any  *)
(* capacity, implement a bounded queue that drops its oldest item.         *)
THEOREM Refinement == Spec => ImplementsBoundedFifo
<1>1. IInv /\ IInv' /\ [Next]_vars => [Fifo!FifoNext]_(Fifo!fifoVars)
  <2>1. SUFFICES ASSUME IInv, IInv', [Next]_vars
                 PROVE  Fifo!FifoNext \/ (Queue' = Queue /\ Got' = Got)
    BY DEF Fifo!fifoVars
  <2>2. CASE UNCHANGED vars
    BY <2>2 DEF vars, Queue, Got, Where, Empty
  <2>3. ASSUME NEW t \in Threads, NEW x \in Items, PutLock(t, x) PROVE Fifo!FifoNext
    BY <2>1, <2>3, PutLockRefines DEF Fifo!FifoNext
  <2>4. ASSUME NEW t \in Threads, GetLock(t) PROVE Fifo!FifoNext
    BY <2>1, <2>4, GetLockRefines DEF Fifo!FifoNext
  <2>5. ASSUME NEW t \in Threads, ResetLock(t) PROVE Fifo!FifoNext
    BY <2>1, <2>5, ResetLockRefines DEF Fifo!FifoNext
  <2>6. ASSUME NEW t \in Threads, Release(t) \/ Put(t) \/ Get(t) \/ Reset(t)
        PROVE  Queue' = Queue /\ Got' = Got
    BY <2>1, <2>6, InsideStutters
  <2>7. QED
    BY <2>1, <2>2, <2>3, <2>4, <2>5, <2>6 DEF Next
<1>2. QED
  BY <1>1, InitRefines, Inductive, PTL DEF Spec, ImplementsBoundedFifo, Fifo!FifoSpec

-----------------------------------------------------------------------------
(* The wait group *)

(* What the two counting steps do to the counter: sizes of finite sets of  *)
(* tasks add up and subtract.                                              *)
LEMMA Counting ==
  ASSUME NEW A, NEW B, A \subseteq Tasks, B \subseteq Tasks
  PROVE  /\ Cardinality(A) \in Nat
         /\ A \cap B = {} => Cardinality(A \cup B) = Cardinality(A) + Cardinality(B)
         /\ B \subseteq A => Cardinality(A \ B) = Cardinality(A) - Cardinality(B)
         /\ Cardinality(A) = 0 <=> A = {}
<1>1. IsFiniteSet(A) /\ IsFiniteSet(B)
  BY WGAssumption, FS_Subset DEF WGAssumption
<1>2. Cardinality(A) \in Nat /\ (Cardinality(A) = 0 <=> A = {})
  BY <1>1, FS_CardinalityType, FS_EmptySet
<1>3. A \cap B = {} => Cardinality(A \cup B) = Cardinality(A) + Cardinality(B)
  <2>1. Cardinality(A \cup B) = Cardinality(A) + Cardinality(B) - Cardinality(A \cap B)
    BY <1>1, FS_Union
  <2>2. A \cap B = {} => Cardinality(A \cap B) = 0
    BY FS_EmptySet
  <2>3. Cardinality(A) \in Nat /\ Cardinality(B) \in Nat
    BY <1>1, FS_CardinalityType
  <2>4. QED
    BY <2>1, <2>2, <2>3
<1>4. B \subseteq A => Cardinality(A \ B) = Cardinality(A) - Cardinality(B)
  <2>1. SUFFICES ASSUME B \subseteq A
                 PROVE  Cardinality(A \ B) = Cardinality(A) - Cardinality(B)
    OBVIOUS
  <2>2. A \cap B = B
    BY <2>1
  <2>3. QED
    BY <1>1, <2>2, FS_Difference
<1>5. QED
  BY <1>2, <1>3, <1>4

(* Initially nobody sleeps and the counter is the number of open tasks. *)
LEMMA GroupInit == WGInit => WGInv
<1>1. SUFFICES ASSUME WGInit PROVE WGInv
  OBVIOUS
<1>2. Cardinality(open) \in Nat
  BY <1>1, Counting DEF WGInit
<1>3. QED
  BY <1>1, <1>2, WGAssumption DEF WGInit, WGInv, WGTypeOK, MutexOK, CountOK, NoLostWakeup,
     Callers, WorkerPoints, WaiterPoints, WGAssumption

(* Every step keeps the types. *)
LEMMA GroupTypes == WGTypeOK /\ CountOK /\ MutexOK /\ [WGNext]_wgVars => WGTypeOK'
<1>1. SUFFICES ASSUME WGTypeOK, CountOK, MutexOK, [WGNext]_wgVars PROVE WGTypeOK'
  OBVIOUS
<1> USE WGAssumption DEF WGTypeOK, Callers, WorkerPoints, WaiterPoints, WGAssumption
<1>2. CASE \E S \in (SUBSET todo) \ {{}} : Add(S)
  <2>1. PICK S \in SUBSET todo : Add(S)
    BY <1>2
  <2>2. Cardinality(S) \in Nat
    BY <1>1, <2>1, Counting
  <2>3. QED
    BY <1>1, <2>1, <2>2 DEF Add
<1>3. ASSUME NEW w \in Workers, Retire(w) PROVE WGTypeOK'
  <2>1. PICK S \in SUBSET open : DoneDecrement(w, S)
    BY <1>3 DEF Retire
  <2>2. Cardinality(S) \in Nat
    BY <1>1, <2>1, Counting
  <2>3. QED
    BY <1>1, <2>1, <2>2 DEF DoneDecrement
<1>4. ASSUME NEW w \in Workers, DoneStep(w) PROVE WGTypeOK'
  <2>1. CASE DoneTest(w)
    BY <1>1, <2>1 DEF DoneTest
  <2>2. CASE DoneLock(w)
    BY <1>1, <2>2 DEF DoneLock
  <2>3. CASE DoneNotify(w)
    BY <1>1, <2>3 DEF DoneNotify, WakeAll
  <2>4. CASE DoneUnlock(w)
    BY <1>1, <2>4 DEF DoneUnlock
  <2>5. QED
    BY <1>4, <2>1, <2>2, <2>3, <2>4 DEF DoneStep
<1>5. ASSUME NEW v \in Waiters, WaiterStep(v) PROVE WGTypeOK'
  <2>1. CASE WaitLock(v)
    BY <1>1, <2>1 DEF WaitLock
  <2>2. CASE WaitPredicate(v)
    BY <1>1, <2>2 DEF WaitPredicate
  <2>3. CASE WaitBlock(v)
    BY <1>1, <2>3 DEF WaitBlock
  <2>4. CASE WaitReturn(v)
    BY <1>1, <2>4 DEF WaitReturn
  <2>5. QED
    BY <1>5, <2>1, <2>2, <2>3, <2>4 DEF WaiterStep
<1>6. ASSUME NEW v \in Waiters, SpuriousWakeup(v) PROVE WGTypeOK'
  BY <1>1, <1>6 DEF SpuriousWakeup
<1>7. CASE UNCHANGED wgVars
  BY <1>1, <1>7 DEF wgVars
<1>8. QED
  BY <1>1, <1>2, <1>3, <1>4, <1>5, <1>6, <1>7 DEF WGNext

(* Every step keeps the mutex discipline, the count and the promise that   *)
(* somebody is still about to notify.                                      *)
LEMMA GroupStep == WGInv /\ [WGNext]_wgVars => WGInv'
<1>1. SUFFICES ASSUME WGInv, [WGNext]_wgVars PROVE MutexOK' /\ CountOK' /\ NoLostWakeup'
  BY GroupTypes DEF WGInv
<1>2. WGTypeOK /\ MutexOK /\ CountOK /\ NoLostWakeup
  BY <1>1 DEF WGInv
<1> USE WGAssumption DEF WGAssumption, Callers, WorkerPoints, WaiterPoints
<1>3. CASE \E S \in (SUBSET todo) \ {{}} : Add(S)
  <2>1. PICK S \in (SUBSET todo) \ {{}} : Add(S)
    BY <1>3
  <2>2. /\ Cardinality(open \cup S) = Cardinality(open) + Cardinality(S)
        /\ Cardinality(S) \in Nat \ {0}
        /\ Cardinality(open) \in Nat
    <3>1. open \subseteq Tasks /\ S \subseteq Tasks /\ open \cap S = {} /\ S # {}
      BY <1>2, <2>1 DEF WGTypeOK, CountOK
    <3>2. Cardinality(S) \in Nat /\ (Cardinality(S) = 0 <=> S = {})
      BY <3>1, Counting
    <3>3. Cardinality(open \cup S) = Cardinality(open) + Cardinality(S)
          /\ Cardinality(open) \in Nat
      BY <3>1, Counting
    <3>4. QED
      BY <3>1, <3>2, <3>3
  <2>3. MutexOK' /\ CountOK'
    BY <1>2, <2>1, <2>2 DEF Add, MutexOK, CountOK
  <2>4. count' \in Nat /\ count' # 0
    BY <1>2, <2>1, <2>2 DEF Add, CountOK
  <2>5. ~(count' <= 0)
    BY <2>4
  <2>6. NoLostWakeup'
    BY <2>5 DEF NoLostWakeup
  <2>7. QED
    BY <2>3, <2>6
<1>4. ASSUME NEW w \in Workers, Retire(w) PROVE MutexOK' /\ CountOK' /\ NoLostWakeup'
  <2>1. PICK S \in SUBSET open : DoneDecrement(w, S)
    BY <1>4 DEF Retire
  <2>2. Cardinality(open \ S) = Cardinality(open) - Cardinality(S)
    BY <1>2, <2>1, Counting DEF WGTypeOK
  <2>3. CountOK'
    BY <1>2, <2>1, <2>2 DEF DoneDecrement, CountOK
  <2>4. MutexOK'
    BY <1>2, <2>1 DEF DoneDecrement, MutexOK, WGTypeOK
  <2>5. NoLostWakeup'
    BY <1>2, <2>1 DEF DoneDecrement, NoLostWakeup, WGTypeOK
  <2>6. QED
    BY <2>3, <2>4, <2>5
<1>5. ASSUME NEW w \in Workers, DoneStep(w) PROVE MutexOK' /\ CountOK' /\ NoLostWakeup'
  <2>1. CASE DoneTest(w)
    BY <1>2, <2>1 DEF DoneTest, MutexOK, CountOK, NoLostWakeup, WGTypeOK
  <2>2. CASE DoneLock(w)
    BY <1>2, <2>2 DEF DoneLock, MutexOK, CountOK, NoLostWakeup, WGTypeOK
  <2>3. CASE DoneNotify(w)
    BY <1>2, <2>3 DEF DoneNotify, WakeAll, MutexOK, CountOK, NoLostWakeup, WGTypeOK
  <2>4. CASE DoneUnlock(w)
    BY <1>2, <2>4 DEF DoneUnlock, MutexOK, CountOK, NoLostWakeup, WGTypeOK
  <2>5. QED
    BY <1>5, <2>1, <2>2, <2>3, <2>4 DEF DoneStep
<1>6. ASSUME NEW v \in Waiters, WaiterStep(v) PROVE MutexOK' /\ CountOK' /\ NoLostWakeup'
  <2>1. CASE WaitLock(v)
    BY <1>2, <2>1 DEF WaitLock, MutexOK, CountOK, NoLostWakeup, WGTypeOK
  <2>2. CASE WaitPredicate(v)
    BY <1>2, <2>2 DEF WaitPredicate, MutexOK, CountOK, NoLostWakeup, WGTypeOK
  <2>3. CASE WaitBlock(v)
    BY <1>2, <2>3 DEF WaitBlock, MutexOK, CountOK, NoLostWakeup, WGTypeOK
  <2>4. CASE WaitReturn(v)
    BY <1>2, <2>4 DEF WaitReturn, MutexOK, CountOK, NoLostWakeup, WGTypeOK
  <2>5. QED
    BY <1>6, <2>1, <2>2, <2>3, <2>4 DEF WaiterStep
<1>7. ASSUME NEW v \in Waiters, SpuriousWakeup(v) PROVE MutexOK' /\ CountOK' /\ NoLostWakeup'
  BY <1>2, <1>7 DEF SpuriousWakeup, MutexOK, CountOK, NoLostWakeup, WGTypeOK
<1>8. CASE UNCHANGED wgVars
  BY <1>2, <1>8 DEF wgVars, MutexOK, CountOK, NoLostWakeup
<1>9. QED
  BY <1>1, <1>3, <1>4, <1>5, <1>6, <1>7, <1>8 DEF WGNext

LEMMA GroupInductive == WGSpec => []WGInv
  BY GroupInit, GroupStep, PTL DEF WGSpec

(* Members of Data and control points keep their types in every call order. *)
THEOREM GroupTypeCorrect == WGSpec => []WGTypeOK
<1>1. WGInv => WGTypeOK
  BY DEF WGInv
<1>2. QED
  BY <1>1, GroupInductive, PTL

(* Done's subtraction outside the mutex loses no wakeup: as long as a      *)
(* waiter sleeps on a counter at zero, some Done is still going to notify. *)
THEOREM NoWakeupLost == WGSpec => []NoLostWakeup
<1>1. WGInv => NoLostWakeup
  BY DEF WGInv
<1>2. QED
  BY <1>1, GroupInductive, PTL

(* Wait's predicate lets a waiter leave only when no announced task is     *)
(* left unretired.                                                         *)
THEOREM WaitMeansDone == WGSpec => LeaveOnlyWhenDone
<1> DEFINE Leave == \A v \in Waiters : (point[v] = "pred" /\ point'[v] = "leave") => open = {}
<1>1. WGInv /\ [WGNext]_wgVars => [Leave]_wgVars
  <2>1. SUFFICES ASSUME WGInv, WGNext, NEW v \in Waiters, point[v] = "pred", point'[v] = "leave"
                 PROVE  open = {}
    OBVIOUS
  <2>2. count <= 0
    <3>1. ASSUME NEW u \in Waiters, WaitPredicate(u) PROVE count <= 0
      BY <2>1, <3>1 DEF WaitPredicate, WGInv, WGTypeOK, Callers
    <3>2. ASSUME NEW u \in Waiters, WaiterStep(u) \/ SpuriousWakeup(u) PROVE count <= 0
      BY <2>1, <3>1, <3>2 DEF WaiterStep, WaitLock, WaitBlock, WaitReturn, SpuriousWakeup,
         WGInv, WGTypeOK, Callers
    <3>3. ASSUME NEW w \in Workers, Retire(w) \/ DoneStep(w) PROVE FALSE
      BY <2>1, <3>3, WGAssumption DEF Retire, DoneStep, DoneDecrement, DoneTest, DoneLock,
         DoneNotify, WakeAll, DoneUnlock, WGInv, WGTypeOK, Callers, WGAssumption
    <3>4. QED
      BY <2>1, <3>2, <3>3 DEF WGNext, Add, wgVars
  <2>3. open \subseteq Tasks /\ count = Cardinality(open)
    BY <2>1 DEF WGInv, WGTypeOK, CountOK
  <2>4. Cardinality(open) \in Nat /\ (Cardinality(open) = 0 <=> open = {})
    BY <2>3, Counting
  <2>5. QED
    BY <2>2, <2>3, <2>4
<1>2. QED
  BY <1>1, GroupInductive, PTL DEF WGSpec, LeaveOnlyWhenDone

-----------------------------------------------------------------------------
(* The wait-queue module *)

(* Before init has made the thread, nothing is raised, queued or counted. *)
LEMMA QueueInit == WQInit => WQInv
<1>1. WQInit => queued \in BOOLEAN
  BY Zenon DEF WQInit
<1>2. WQInit => WQTypeOK
  BY <1>1, WQAssumption DEF WQInit, WQTypeOK, ThreadPoints, WQAssumption
<1>3. WQInit => NoMissedWake /\ CountedReadsHappened /\ PassOwed
  BY DEF WQInit, NoMissedWake, CountedReadsHappened, PassOwed
<1>4. QED
  BY <1>2, <1>3 DEF WQInv

(* WQInit and exit of the module keep the invariant. *)
LEMMA ModuleKeeps ==
  ASSUME WQInv, ModuleStep \/ ExitFlag PROVE WQInv'
<1> USE DEF WQInv, WQTypeOK, NoMissedWake, CountedReadsHappened, PassOwed, ThreadPoints
<1>1. CASE InitProc
  BY <1>1 DEF InitProc
<1>2. CASE InitThread
  <2>1. CASE thread' = "wait" /\ module' = "loaded"
    BY <1>2, <2>1 DEF InitThread
  <2>2. CASE thread' = thread /\ module' = "oops"
    BY <1>2, <2>2 DEF InitThread
  <2>3. QED
    BY <1>2, <2>1, <2>2 DEF InitThread
<1>3. CASE ExitFlag
  BY <1>3 DEF ExitFlag
<1>4. CASE ExitWake
  BY <1>4 DEF ExitWake, WakeUp
<1>5. CASE ExitRemove
  BY <1>5 DEF ExitRemove
<1>6. QED
  BY <1>1, <1>2, <1>3, <1>4, <1>5 DEF ModuleStep

(* A read keeps it: the flag goes up before the wake-up. *)
LEMMA ShowKeeps ==
  ASSUME WQInv, NEW r \in Readers, ShowPrint(r) \/ ShowStep(r) PROVE WQInv'
<1> USE WQAssumption DEF WQInv, WQTypeOK, NoMissedWake, CountedReadsHappened, PassOwed,
        ThreadPoints, WQAssumption
<1>1. CASE ShowPrint(r)
  BY <1>1 DEF ShowPrint
<1>2. CASE ShowFlag(r)
  BY <1>2 DEF ShowFlag
<1>3. CASE ShowWake(r)
  BY <1>3 DEF ShowWake, WakeUp
<1>4. QED
  BY <1>1, <1>2, <1>3 DEF ShowStep

(* The thread keeps it: it is on the queue before it tests the flag for    *)
(* the last time.                                                          *)
LEMMA ThreadKeeps ==
  ASSUME WQInv, ThreadStep PROVE WQInv'
<1> USE DEF WQInv, WQTypeOK, NoMissedWake, CountedReadsHappened, PassOwed, ThreadPoints
<1>1. CASE WaitTest
  BY <1>1 DEF WaitTest
<1>2. CASE WaitPrepare
  BY <1>2 DEF WaitPrepare
<1>3. CASE WaitRetest
  BY <1>3 DEF WaitRetest
<1>4. CASE WaitSchedule
  BY <1>4 DEF WaitSchedule
<1>5. CASE CheckExit
  BY <1>5 DEF CheckExit
<1>6. CASE CountRead
  BY <1>6 DEF CountRead
<1>7. CASE ClearFlag
  BY <1>7 DEF ClearFlag
<1>8. CASE ThreadFaults
  BY <1>8 DEF ThreadFaults
<1>9. QED
  BY <1>1, <1>2, <1>3, <1>4, <1>5, <1>6, <1>7, <1>8 DEF ThreadStep

LEMMA QueueInductive == WQSpec => []WQInv
<1>1. WQInv /\ [WQNext]_wqVars => WQInv'
  <2>1. SUFFICES ASSUME WQInv, [WQNext]_wqVars PROVE WQInv'
    OBVIOUS
  <2>2. CASE UNCHANGED wqVars
    BY <2>1, <2>2 DEF wqVars, WQInv, WQTypeOK, NoMissedWake, CountedReadsHappened, PassOwed
  <2>3. QED
    BY <2>1, <2>2, ModuleKeeps, ShowKeeps, ThreadKeeps DEF WQNext
<1>2. QED
  BY <1>1, QueueInit, PTL DEF WQSpec

(* The module's variables keep their types. *)
THEOREM QueueTypeCorrect == WQSpec => []WQTypeOK
<1>1. WQInv => WQTypeOK
  BY DEF WQInv
<1>2. QED
  BY <1>1, QueueInductive, PTL

(* Whoever raises the flag before wake_up wakes the thread: it never       *)
(* sleeps on a raised flag that nobody is going to announce.               *)
THEOREM NoWakeMissed == WQSpec => []NoMissedWake
<1>1. WQInv => NoMissedWake
  BY DEF WQInv
<1>2. QED
  BY <1>1, QueueInductive, PTL

(* The thread counts no read that did not happen, with any number of       *)
(* readers and an exit storing to the unlocked flag.                       *)
THEOREM CountedHappened == WQSpec => []CountedReadsHappened
<1>1. WQInv => CountedReadsHappened
  BY DEF WQInv
<1>2. QED
  BY <1>1, QueueInductive, PTL
=============================================================================
