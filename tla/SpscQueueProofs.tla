-------------------------- MODULE SpscQueueProofs --------------------------
(***************************************************************************)
(* Proofs about SpscQueue for every capacity, every number of pushes and   *)
(* every slice that fits the buffer.                                       *)
(***************************************************************************)
EXTENDS SpscQueue, SequenceTheorems, TLAPS

\* The callers' side of push_slice: a slice is at most as long as the buffer.
SlicesFit == MaxSlice <= Capacity

USE CapacityAssumption, MaxSliceAssumption, MaxSentAssumption

----------------------------------------------------------------------------
(* Arithmetic of the words.                                                *)

\* A remainder by Capacity of a number below twice Capacity.
LEMMA ModBelowTwice ==
    \A a \in Nat : a >= Capacity /\ a < Capacity + Capacity =>
        a % Capacity = a - Capacity
  OBVIOUS

\* The distance between ordered words is a number of slots.
LEMMA DistanceBound ==
    ASSUME NEW h \in HeadWord, NEW t \in TailWord, Ordered(h, t)
    PROVE  Distance(h, t) \in 0 .. Capacity
  BY DEF HeadWord, TailWord, Slots, Ordered, Distance

\* push moves tail one element away from head.
LEMMA TailNext1 ==
    ASSUME NEW h \in HeadWord, NEW t \in TailWord, Ordered(h, t),
           Distance(h, t) + 1 <= Capacity
    PROVE  /\ Open(Next1(t)) \in TailWord
           /\ Ordered(h, Open(Next1(t)))
           /\ Distance(h, Open(Next1(t))) = Distance(h, t) + 1
  BY DEF HeadWord, TailWord, Slots, Ordered, Distance, Open, Next1

\* push_slice moves tail n elements away from head.
LEMMA TailNextN ==
    ASSUME NEW h \in HeadWord, NEW t \in TailWord, NEW n \in Nat, Ordered(h, t),
           Distance(h, t) + n <= Capacity
    PROVE  /\ Open(NextN(t, n)) \in TailWord
           /\ Ordered(h, Open(NextN(t, n)))
           /\ Distance(h, Open(NextN(t, n))) = Distance(h, t) + n
<1> DEFINE a == t.idx + n
<1>1. t.idx \in 0 .. Capacity - 1 /\ h.idx \in 0 .. Capacity - 1 /\ a \in Nat
      /\ t.lap \in Nat /\ h.lap \in Nat
  BY DEF HeadWord, TailWord, Slots
<1>2. n <= Capacity
  BY DistanceBound
<1>3. CASE a < Capacity
  BY <1>1, <1>3 DEF HeadWord, TailWord, Slots, Ordered, Distance, Open, NextN
<1>4. CASE a >= Capacity
  <2>1. a % Capacity = a - Capacity
    BY <1>1, <1>2, <1>4, ModBelowTwice
  <2>2. NextN(t, n) = [lap |-> t.lap + 1, idx |-> a - Capacity]
    BY <1>1, <1>4, <2>1 DEF NextN
  <2>3. Open(NextN(t, n)) = [lap |-> t.lap + 1, idx |-> a - Capacity, closed |-> FALSE]
    BY <2>2 DEF Open
  <2> QED
    BY <1>1, <1>2, <1>4, <2>3 DEF TailWord, Slots, Ordered, Distance
<1> QED
  BY <1>1, <1>3, <1>4

\* pop moves head one element towards tail.
LEMMA HeadNext1 ==
    ASSUME NEW h \in HeadWord, NEW t \in TailWord, Ordered(h, t),
           Distance(h, t) > 0
    PROVE  /\ Next1(h) \in HeadWord
           /\ Ordered(Next1(h), t)
           /\ Distance(Next1(h), t) = Distance(h, t) - 1
  BY DEF HeadWord, TailWord, Slots, Ordered, Distance, Next1

\* Where push refuses nothing there is room for one more element.
LEMMA NotFullRoom ==
    ASSUME NEW h \in HeadWord, NEW t \in TailWord, Ordered(h, t), ~PushFull(h, t)
    PROVE  Distance(h, t) + 1 <= Capacity
  BY DEF HeadWord, TailWord, Slots, Ordered, Distance, PushFull

\* push_slice refuses a slice exactly when the free slots do not hold it.
LEMMA SliceFullExact ==
    ASSUME NEW h \in HeadWord, NEW t \in TailWord, NEW n \in Nat, Ordered(h, t),
           n <= Capacity
    PROVE  SliceFull(h, NextN(t, n)) <=> Distance(h, t) + n > Capacity
<1> DEFINE a == t.idx + n
<1>1. t.idx \in 0 .. Capacity - 1 /\ h.idx \in 0 .. Capacity - 1 /\ a \in Nat
      /\ t.lap \in Nat /\ h.lap \in Nat
  BY DEF HeadWord, TailWord, Slots
<1>3. CASE a < Capacity
  BY <1>1, <1>3 DEF Ordered, Distance, NextN, SliceFull
<1>4. CASE a >= Capacity
  <2>1. a % Capacity = a - Capacity
    BY <1>1, <1>4, ModBelowTwice
  <2>2. NextN(t, n) = [lap |-> t.lap + 1, idx |-> a - Capacity]
    BY <1>1, <1>4, <2>1 DEF NextN
  <2> QED
    BY <1>1, <1>4, <2>2 DEF Ordered, Distance, SliceFull
<1> QED
  BY <1>1, <1>3, <1>4

\* len is exact on an open queue.
LEMMA LenExact ==
    ASSUME NEW h \in HeadWord, NEW t \in TailWord, Ordered(h, t), ~t.closed
    PROVE  LenOf(h, t) = Distance(h, t)
  BY DEF HeadWord, TailWord, Slots, Ordered, Distance, LenOf, PushFull

\* len never leaves the range of the buffer, whatever it reads.
LEMMA LenBound ==
    ASSUME NEW h \in HeadWord, NEW t \in TailWord
    PROVE  LenOf(h, t) \in 0 .. Capacity
  BY DEF HeadWord, TailWord, Slots, LenOf

\* The slots of the elements in flight are not among the next n free ones.
LEMMA FreeSlotsApart ==
    ASSUME NEW h \in HeadWord, NEW t \in TailWord, NEW n \in Nat, Ordered(h, t),
           Distance(h, t) + n <= Capacity,
           NEW j \in 0 .. Capacity - 1, j < Distance(h, t)
    PROVE  /\ SlotAt(h, j) \in Slots
           /\ ~(SlotAt(h, j) < t.idx + n - Capacity)
           /\ ~(SlotAt(h, j) >= t.idx /\ SlotAt(h, j) < t.idx + n)
<1>1. t.idx \in 0 .. Capacity - 1 /\ h.idx \in 0 .. Capacity - 1
  BY DEF HeadWord, TailWord, Slots
<1>2. CASE h.idx + j < Capacity
  BY <1>1, <1>2 DEF SlotAt, Slots, Ordered, Distance
<1>3. CASE h.idx + j >= Capacity
  BY <1>1, <1>3 DEF SlotAt, Slots, Ordered, Distance
<1> QED
  BY <1>1, <1>2, <1>3

\* The j-th of the next n free slots is written with the j-th element.
LEMMA FreeSlotsWritten ==
    ASSUME NEW t \in TailWord, NEW n \in Nat, n <= Capacity,
           NEW j \in 0 .. Capacity - 1, j < n
    PROVE  /\ SlotAt(t, j) \in Slots
           /\ IF SlotAt(t, j) < t.idx + n - Capacity
              THEN (Capacity - t.idx) + SlotAt(t, j) = j
              ELSE /\ SlotAt(t, j) >= t.idx /\ SlotAt(t, j) < t.idx + n
                   /\ SlotAt(t, j) - t.idx = j
<1>1. t.idx \in 0 .. Capacity - 1
  BY DEF TailWord, Slots
<1>2. CASE t.idx + j < Capacity
  BY <1>1, <1>2 DEF SlotAt, Slots
<1>3. CASE t.idx + j >= Capacity
  BY <1>1, <1>3 DEF SlotAt, Slots
<1> QED
  BY <1>1, <1>2, <1>3

----------------------------------------------------------------------------
(* The inductive invariant.                                                *)

LEMMA InitIndInv == Init => IndInv
<1> SUFFICES ASSUME Init PROVE IndInv
  OBVIOUS
<1> USE DEF Init, Slots
<1>1. TypeOK
  BY DEF TypeOK, HeadWord, TailWord, ProducerLocals, ConsumerLocals
<1>2. Ahead = 0
  BY DEF Ahead, Distance
<1>3. LocalsFresh /\ RoomReserved /\ AvailStillFree /\ AvailableSuffices /\ CloseSeen
  BY <1>2 DEF LocalsFresh, RoomReserved, AvailStillFree, AvailableSuffices,
              CloseSeen, ClosedMeansDrained
<1>4. SlotsHold
  BY <1>2 DEF SlotsHold, Ordered
<1> QED
  BY <1>1, <1>3, <1>4 DEF IndInv

\* The first step of push, push_slice and available: a load of tail.
CallStarts(o, m) ==
    /\ ProducerIdle
    /\ prod' = [prod EXCEPT !.pc = "loadHead", !.op = o, !.n = m,
                            !.tail = tail, !.res = "none"]
    /\ UNCHANGED <<head, tail, buffer, cons, sent, received, dropped>>

LEMMA CallStartsKeepsIndInv ==
    ASSUME IndInv, NEW o \in {"push", "slice", "available"},
           NEW m \in 0 .. MaxSlice, o = "push" => m = 1, CallStarts(o, m)
    PROVE  IndInv'
<1> USE DEF IndInv, ProducerIdle, CallStarts
<1>1. TypeOK'
  BY DEF TypeOK, ProducerLocals
<1>2. Ahead' = Ahead
  BY DEF Ahead, Distance
<1>3. /\ prod'.pc = "loadHead" /\ prod'.op = o /\ prod'.n = m /\ prod'.tail = tail
      /\ prod'.res = "none" /\ prod'.avail = prod.avail
  BY DEF TypeOK, ProducerLocals
<1>4. LocalsFresh'
  BY <1>3 DEF LocalsFresh, SamePlace
<1>5. RoomReserved'
  BY <1>2, <1>3 DEF RoomReserved
<1>6. AvailStillFree' /\ AvailableSuffices'
  BY <1>2, <1>3 DEF AvailStillFree, AvailableSuffices
<1>7. CloseSeen'
  BY DEF CloseSeen, ClosedMeansDrained
<1>8. SlotsHold'
  BY <1>2, <1>3 DEF SlotsHold
<1> QED
  BY <1>1, <1>4, <1>5, <1>6, <1>7, <1>8

LEMMA CallsKeepIndInv ==
    ASSUME IndInv, SlicesFit, ProducerCall
    PROVE  IndInv'
<1>1. CASE Push
  <2>1. CallStarts("push", 1)
    BY <1>1 DEF Push, CallStarts
  <2> QED
    BY <2>1, CallStartsKeepsIndInv
<1>2. ASSUME NEW n \in 0 .. MaxSlice, PushSlice(n)
      PROVE  IndInv'
  <2>1. CallStarts("slice", n)
    BY <1>2 DEF PushSlice, CallStarts
  <2> QED
    BY <2>1, CallStartsKeepsIndInv
<1>3. CASE Available
  <2>1. CallStarts("available", 0)
    BY <1>3 DEF Available, CallStarts
  <2> QED
    BY <2>1, CallStartsKeepsIndInv
<1> QED
  BY <1>1, <1>2, <1>3 DEF ProducerCall

LEMMA LoadHeadKeepsIndInv ==
    ASSUME IndInv, SlicesFit, ProducerLoadHead
    PROVE  IndInv'
<1> USE DEF IndInv, ProducerLoadHead
<1>1. TypeOK'
  BY DEF TypeOK, ProducerLocals
<1>2. Ahead' = Ahead
  BY DEF Ahead, Distance
<1>3. /\ head \in HeadWord /\ tail \in TailWord /\ prod.n \in 0 .. MaxSlice
      /\ Ordered(head, tail) /\ SamePlace(prod.tail, tail) /\ prod.tail \in TailWord
  BY DEF TypeOK, ProducerLocals, LocalsFresh, SlotsHold
<1>4. Distance(head, prod.tail) = Ahead /\ Ordered(head, prod.tail)
  BY <1>3 DEF SamePlace, Ahead, Distance, Ordered
<1>5. Ahead \in 0 .. Capacity
  BY <1>3, DistanceBound DEF Ahead
<1>6. /\ prod'.op = prod.op /\ prod'.n = prod.n /\ prod'.tail = prod.tail
      /\ prod'.avail = prod.avail
      /\ prod'.pc \in {"idle", "write"}
      /\ prod'.res \in {"Closed", "Full", prod.res}
  BY DEF TypeOK, ProducerLocals
<1>7. LocalsFresh'
  BY <1>6 DEF LocalsFresh, SamePlace
<1>8. ASSUME prod'.pc = "write"
      PROVE  Ahead + prod.n <= Capacity /\ (prod.op = "slice" \/ (prod.op = "push" /\ prod.n = 1))
  <2>1. CASE prod.op = "push"
    <3>1. ~PushFull(head, prod.tail) /\ prod.n = 1
      BY <1>8, <2>1 DEF TypeOK, ProducerLocals, RoomReserved
    <3> QED
      BY <2>1, <3>1, <1>3, <1>4, NotFullRoom
  <2>2. CASE prod.op = "slice"
    <3>1. ~SliceFull(head, NextN(prod.tail, prod.n))
      BY <1>8, <2>2 DEF TypeOK, ProducerLocals
    <3>2. prod.n \in Nat /\ prod.n <= Capacity
      BY <1>3 DEF SlicesFit
    <3> QED
      BY <2>2, <3>1, <3>2, <1>3, <1>4, <1>5, SliceFullExact
  <2> QED
    BY <2>1, <2>2 DEF TypeOK, ProducerLocals
<1>9. RoomReserved'
  BY <1>2, <1>6, <1>8 DEF RoomReserved
<1>10. AvailStillFree'
  BY <1>2, <1>6 DEF AvailStillFree
<1>11. AvailableSuffices'
  <2>1. SUFFICES ASSUME prod.op = "slice", prod'.res = "Full", ~prod.n > prod.avail
                 PROVE  FALSE
    BY <1>6 DEF AvailableSuffices
  <2>2. CASE prod.tail.closed
    BY <2>1, <2>2 DEF TypeOK, ProducerLocals, AvailableSuffices
  <2>3. CASE ~prod.tail.closed
    <3>1. prod.avail <= Capacity - Ahead /\ prod.avail \in 0 .. Capacity
      BY <2>3 DEF AvailStillFree, TypeOK, ProducerLocals
    <3>2. prod.n \in Nat /\ prod.n <= Capacity
      BY <1>3 DEF SlicesFit
    <3>3. ~SliceFull(head, NextN(prod.tail, prod.n))
      BY <3>1, <3>2, <2>1, <1>3, <1>4, <1>5, SliceFullExact
    <3>4. prod'.res = prod.res
      BY <3>3, <2>1, <2>3 DEF TypeOK, ProducerLocals
    <3> QED
      BY <2>1, <3>4 DEF AvailableSuffices
  <2> QED
    BY <2>2, <2>3
<1>12. CloseSeen'
  BY DEF CloseSeen, ClosedMeansDrained
<1>13. SlotsHold'
  BY <1>2, <1>6 DEF SlotsHold
<1> QED
  BY <1>1, <1>7, <1>9, <1>10, <1>11, <1>12, <1>13

LEMMA LoadHeadForLenKeepsIndInv ==
    ASSUME IndInv, ProducerLoadHeadForLen
    PROVE  IndInv'
<1> USE DEF IndInv, ProducerLoadHeadForLen
<1>1. /\ head \in HeadWord /\ tail \in TailWord /\ prod.tail \in TailWord
      /\ Ordered(head, tail) /\ SamePlace(prod.tail, tail)
      /\ prod.tail.closed => tail.closed
  BY DEF TypeOK, ProducerLocals, LocalsFresh, SlotsHold
<1>2. Distance(head, prod.tail) = Ahead /\ Ordered(head, prod.tail)
  BY <1>1 DEF SamePlace, Ahead, Distance, Ordered
<1>3. AvailableOf(head, prod.tail) \in 0 .. Capacity
  BY <1>1, LenBound DEF AvailableOf
<1>4. TypeOK'
  BY <1>3 DEF TypeOK, ProducerLocals
<1>5. Ahead' = Ahead
  BY DEF Ahead, Distance
<1>6. /\ prod'.op = "available" /\ prod'.n = prod.n /\ prod'.tail = prod.tail
      /\ prod'.avail = AvailableOf(head, prod.tail)
      /\ prod'.pc = "idle" /\ prod'.res = prod.res
  BY DEF TypeOK, ProducerLocals
<1>7. tail.closed \/ prod'.avail <= Capacity - Ahead
  <2>1. CASE tail.closed
    BY <2>1
  <2>2. CASE ~tail.closed
    <3>1. LenOf(head, prod.tail) = Ahead
      BY <1>1, <1>2, <2>2, LenExact
    <3>2. Ahead \in 0 .. Capacity
      BY <1>1, DistanceBound DEF Ahead
    <3> QED
      BY <3>1, <3>2, <1>6 DEF AvailableOf
  <2> QED
    BY <2>1, <2>2
<1>8. AvailStillFree' /\ AvailableSuffices'
  BY <1>5, <1>6, <1>7 DEF AvailStillFree, AvailableSuffices
<1>9. LocalsFresh' /\ CloseSeen'
  BY <1>6 DEF LocalsFresh, CloseSeen, ClosedMeansDrained
<1>10. RoomReserved' /\ SlotsHold'
  BY <1>5, <1>6 DEF RoomReserved, SlotsHold
<1> QED
  BY <1>4, <1>8, <1>9, <1>10

\* The slots written lie outside the ones that hold elements in flight.
LEMMA WriteKeepsIndInv ==
    ASSUME IndInv, ProducerWrite
    PROVE  IndInv'
<1> USE DEF IndInv, ProducerWrite
<1>1. /\ head \in HeadWord /\ tail \in TailWord /\ prod.n \in Nat
      /\ Ordered(head, tail) /\ prod.tail.idx = tail.idx /\ sent \in Nat
      /\ buffer \in [Slots -> Nat]
  BY DEF TypeOK, ProducerLocals, LocalsFresh, SlotsHold, SamePlace
<1>2. Ahead \in 0 .. Capacity /\ Ahead + prod.n <= Capacity
  BY <1>1, DistanceBound DEF Ahead, RoomReserved
<1>3. Ahead' = Ahead
  BY DEF Ahead, Distance
<1> DEFINE i == tail.idx
           n == prod.n
           New(s) == IF s < i + n - Capacity THEN sent + (Capacity - i) + s + 1
                     ELSE IF s >= i /\ s < i + n THEN sent + (s - i) + 1
                     ELSE buffer[s]
<1>a. i \in Slots /\ n \in Nat
  BY <1>1 DEF TailWord
<1>b. buffer' = [s \in Slots |-> New(s)]
  BY <1>1 DEF Copied
<1>c. ASSUME NEW s \in Slots
      PROVE  New(s) \in Nat
  <2>1. s \in 0 .. Capacity - 1 /\ i \in 0 .. Capacity - 1 /\ buffer[s] \in Nat
    BY <1>1, <1>a DEF Slots
  <2>2. CASE s < i + n - Capacity
    <3>1. New(s) = sent + (Capacity - i) + s + 1
      BY <2>2
    <3> HIDE DEF New, i
    <3> QED
      BY <3>1, <2>1, <1>1
  <2>3. CASE ~(s < i + n - Capacity) /\ s >= i /\ s < i + n
    <3>1. New(s) = sent + (s - i) + 1
      BY <2>3
    <3> HIDE DEF New, i
    <3> QED
      BY <3>1, <2>1, <2>3, <1>1
  <2> QED
    BY <2>1, <2>2, <2>3
<1>4. buffer' \in [Slots -> Nat]
  <2> HIDE DEF New
  <2> QED
    BY <1>b, <1>c
<1>5. TypeOK'
  BY <1>4 DEF TypeOK, ProducerLocals
<1>6. /\ prod'.op = prod.op /\ prod'.n = prod.n /\ prod'.tail = prod.tail
      /\ prod'.avail = prod.avail /\ prod'.pc = "storeTail" /\ prod'.res = prod.res
  BY DEF TypeOK, ProducerLocals
<1>7. LocalsFresh' /\ CloseSeen'
  BY <1>6 DEF LocalsFresh, CloseSeen, ClosedMeansDrained, SamePlace
<1>8. RoomReserved' /\ AvailStillFree' /\ AvailableSuffices'
  BY <1>3, <1>6 DEF RoomReserved, AvailStillFree, AvailableSuffices
<1>9. SlotsHold'
  <2>1. ASSUME NEW j \in 0 .. Capacity - 1, j < Ahead
        PROVE  buffer'[SlotAt(head, j)] = sent - Ahead + j + 1
    <3>2. /\ SlotAt(head, j) \in Slots
          /\ ~(SlotAt(head, j) < tail.idx + prod.n - Capacity)
          /\ ~(SlotAt(head, j) >= tail.idx /\ SlotAt(head, j) < tail.idx + prod.n)
      BY <1>1, <1>2, <2>1, FreeSlotsApart DEF Ahead
    <3>3. buffer'[SlotAt(head, j)] = buffer[SlotAt(head, j)]
      BY <1>b, <3>2
    <3> QED
      BY <2>1, <3>3 DEF SlotsHold
  <2>2. ASSUME NEW j \in 0 .. Capacity - 1, j < prod.n
        PROVE  buffer'[SlotAt(tail, j)] = sent + j + 1
    <3> DEFINE x == SlotAt(tail, j)
    <3>1. /\ x \in Slots
          /\ IF x < i + n - Capacity THEN (Capacity - i) + x = j
             ELSE x >= i /\ x < i + n /\ x - i = j
      BY <1>1, <1>2, <2>2, FreeSlotsWritten
    <3>2. buffer'[x] = New(x)
      BY <1>b, <3>1
    <3>3. New(x) = sent + j + 1
      <4> HIDE DEF x
      <4>1. CASE x < i + n - Capacity
        <5>1. New(x) = sent + (Capacity - i) + x + 1 /\ (Capacity - i) + x = j
          BY <3>1, <4>1
        <5> HIDE DEF i, New
        <5> QED
          BY <5>1, <1>1, <1>a, <3>1 DEF Slots
      <4>2. CASE ~(x < i + n - Capacity)
        BY <3>1, <4>2
      <4> QED
        BY <4>1, <4>2
    <3> QED
      BY <3>2, <3>3
  <2>3. UNCHANGED <<head, tail, sent, received, cons, dropped>>
    OBVIOUS
  <2>4. /\ \A j \in 0 .. Capacity - 1 :
            j < Ahead' => buffer'[SlotAt(head, j)'] = sent' - Ahead' + j + 1
        /\ \A j \in 0 .. Capacity - 1 :
            j < prod'.n => buffer'[SlotAt(tail, j)'] = sent' + j + 1
    BY <2>1, <2>2, <2>3, <1>3, <1>6 DEF SlotAt
  <2> QED
    BY <2>3, <2>4, <1>3 DEF SlotsHold, Ordered
<1> QED
  BY <1>5, <1>7, <1>8, <1>9

\* The elements written become part of the queue.
LEMMA StoreTailKeepsIndInv ==
    ASSUME IndInv, ProducerStoreTail
    PROVE  IndInv'
<1> USE DEF IndInv, ProducerStoreTail
<1>1. /\ head \in HeadWord /\ tail \in TailWord /\ prod.n \in Nat
      /\ Ordered(head, tail) /\ SamePlace(prod.tail, tail) /\ sent \in Nat
      /\ "producer" \notin dropped /\ received \in Nat
  BY DEF TypeOK, ProducerLocals, LocalsFresh, SlotsHold
<1>2. Ahead \in 0 .. Capacity /\ Ahead + prod.n <= Capacity
  BY <1>1, DistanceBound DEF Ahead, RoomReserved
<1>3. /\ tail' \in TailWord /\ Ordered(head, tail')
      /\ Distance(head, tail') = Ahead + prod.n /\ tail'.closed = FALSE
  <2>1. CASE prod.op = "push"
    <3>1. prod.n = 1 /\ tail' = Open(Next1(tail))
      BY <2>1, <1>1 DEF RoomReserved, Next1, Open, SamePlace
    <3> QED
      BY <3>1, <1>1, <1>2, TailNext1 DEF Ahead, Open
  <2>2. CASE prod.op = "slice"
    <3>1. tail' = Open(NextN(tail, prod.n))
      BY <2>2, <1>1 DEF NextN, Open, SamePlace
    <3> QED
      BY <3>1, <1>1, <1>2, TailNextN DEF Ahead, Open
  <2> QED
    BY <2>1, <2>2 DEF RoomReserved
<1>4. Ahead' = Ahead + prod.n
  BY <1>3 DEF Ahead, Distance
<1>5. TypeOK'
  <2>1. sent' \in Nat
    BY <1>1
  <2>2. prod' \in ProducerLocals
    <3>1. prod \in ProducerLocals /\ 0 \in 0 .. Capacity
      BY DEF TypeOK
    <3>2. prod' = [prod EXCEPT !.pc = "idle", !.avail = 0, !.res = "Ok"]
      OBVIOUS
    <3> HIDE DEF ProducerStoreTail, IndInv
    <3> QED
      BY <3>1, <3>2 DEF ProducerLocals
  <2> QED
    BY <1>3, <2>1, <2>2 DEF TypeOK
<1>6. /\ prod'.op = prod.op /\ prod'.n = prod.n /\ prod'.tail = prod.tail
      /\ prod'.avail = 0 /\ prod'.pc = "idle" /\ prod'.res = "Ok"
  BY DEF TypeOK, ProducerLocals
<1>7. LocalsFresh'
  BY <1>1, <1>6 DEF LocalsFresh
<1>8. CloseSeen'
  BY <1>1, <1>3 DEF CloseSeen, ClosedMeansDrained
<1>9. RoomReserved'
  BY <1>1, <1>2, <1>4, <1>6 DEF RoomReserved
<1>11. AvailStillFree' /\ AvailableSuffices'
  BY <1>1, <1>2, <1>4, <1>6 DEF AvailStillFree, AvailableSuffices
<1>10. SlotsHold'
  <2>1. ASSUME NEW j \in 0 .. Capacity - 1, j < Ahead + prod.n
        PROVE  buffer[SlotAt(head, j)] = sent - Ahead + j + 1
    <3>1. CASE j < Ahead
      BY <3>1 DEF SlotsHold
    <3>2. CASE j >= Ahead
      <4>1. /\ j - Ahead \in 0 .. Capacity - 1 /\ j - Ahead < prod.n
            /\ SlotAt(head, j) = SlotAt(tail, j - Ahead)
        BY <1>1, <1>2, <2>1, <3>2
           DEF SlotAt, Ahead, Distance, Ordered, HeadWord, TailWord, Slots
      <4>2. buffer[SlotAt(tail, j - Ahead)] = sent + (j - Ahead) + 1
        BY <4>1 DEF SlotsHold
      <4> QED
        BY <4>1, <4>2, <1>1, <1>2
    <3> QED
      BY <3>1, <3>2, <1>2
  <2>2. sent' - Ahead' = sent - Ahead
    BY <1>1, <1>2, <1>4
  <2>3. \A j \in 0 .. Capacity - 1 :
            j < Ahead' => buffer'[SlotAt(head, j)'] = sent' - Ahead' + j + 1
    BY <2>1, <2>2, <1>4 DEF SlotAt
  <2>4. "queue" \notin dropped' =>
          received' = IF cons'.pc = "storeHead" THEN sent' - Ahead' + 1
                      ELSE sent' - Ahead'
    BY <2>2 DEF SlotsHold
  <2>5. Ordered(head, tail)'
    BY <1>3 DEF Ordered
  <2> QED
    BY <2>3, <2>4, <2>5, <1>6 DEF SlotsHold
<1> QED
  BY <1>5, <1>7, <1>8, <1>9, <1>10, <1>11

LEMMA PopKeepsIndInv ==
    ASSUME IndInv, Pop
    PROVE  IndInv'
<1> USE DEF IndInv, Pop, ConsumerIdle
<1>1. TypeOK'
  BY DEF TypeOK, ConsumerLocals
<1>2. Ahead' = Ahead
  BY DEF Ahead, Distance
<1>3. LocalsFresh' /\ RoomReserved'
  BY <1>2 DEF LocalsFresh, RoomReserved, SamePlace
<1>4. AvailStillFree' /\ AvailableSuffices'
  BY <1>2 DEF AvailStillFree, AvailableSuffices
<1>5. CloseSeen'
  BY DEF CloseSeen, ClosedMeansDrained
<1>6. SlotsHold'
  BY <1>2 DEF SlotsHold, Ordered, SlotAt
<1> QED
  BY <1>1, <1>3, <1>4, <1>5, <1>6

LEMMA LoadTailKeepsIndInv ==
    ASSUME IndInv, ConsumerLoadTail
    PROVE  IndInv'
<1> USE DEF IndInv, ConsumerLoadTail
<1>1. /\ head \in HeadWord /\ tail \in TailWord /\ Ordered(head, tail) /\ sent \in Nat
      /\ cons.head = head /\ "consumer" \notin dropped /\ "queue" \notin dropped
      /\ dropped \in SUBSET {"producer", "consumer", "queue"}
  BY DEF TypeOK, LocalsFresh, SlotsHold
<1>2. TypeOK'
  BY DEF TypeOK, ConsumerLocals
<1>3. Ahead' = Ahead
  BY DEF Ahead, Distance
<1>4. /\ cons'.head = cons.head
      /\ \/ ~SamePlace(head, tail) /\ cons'.pc = "read" /\ cons'.res = "none"
         \/ /\ SamePlace(head, tail) /\ cons'.pc = "idle"
            /\ cons'.res = IF tail.closed THEN "Closed" ELSE "Empty"
  BY <1>1 DEF TypeOK, ConsumerLocals, LocalsFresh
<1>5. SamePlace(head, tail) <=> Ahead = 0
  BY <1>1 DEF SamePlace, Ahead, Distance, Ordered, HeadWord, TailWord, Slots
<1>6. Ahead \in 0 .. Capacity
  BY <1>1, DistanceBound DEF Ahead
<1>7. LocalsFresh'
  BY <1>4 DEF LocalsFresh, SamePlace
<1>8. RoomReserved'
  BY <1>3, <1>4, <1>5, <1>6 DEF RoomReserved
<1>9. AvailStillFree' /\ AvailableSuffices'
  BY <1>3 DEF AvailStillFree, AvailableSuffices
<1>10. CloseSeen'
  <2>1. cons'.res = "Closed" => tail.closed /\ Ahead = 0
    BY <1>4, <1>5
  <2>2. tail.closed => "producer" \in dropped
    BY <1>1 DEF CloseSeen
  <2>3. Ahead = 0 => received = sent
    BY <1>1 DEF SlotsHold
  <2> QED
    BY <2>1, <2>2, <2>3 DEF CloseSeen, ClosedMeansDrained
<1>11. SlotsHold'
  BY <1>3, <1>4 DEF SlotsHold, Ordered, SlotAt
<1> QED
  BY <1>2, <1>7, <1>8, <1>9, <1>10, <1>11

LEMMA ReadKeepsIndInv ==
    ASSUME IndInv, ConsumerRead
    PROVE  IndInv'
<1> USE DEF IndInv, ConsumerRead
<1>1. /\ head \in HeadWord /\ tail \in TailWord /\ Ordered(head, tail) /\ sent \in Nat
      /\ cons.head = head /\ buffer \in [Slots -> Nat] /\ Ahead > 0 /\ cons.res = "none"
  BY DEF TypeOK, LocalsFresh, SlotsHold, RoomReserved
<1>2. Ahead \in 0 .. Capacity
  BY <1>1, DistanceBound DEF Ahead
<1>3. received' = sent - Ahead + 1 /\ received' \in Nat
  <2>1. 0 \in 0 .. Capacity - 1 /\ SlotAt(head, 0) = head.idx /\ head.idx \in Slots
    BY <1>1 DEF SlotAt, HeadWord, Slots
  <2>2. buffer[SlotAt(head, 0)] = sent - Ahead + 0 + 1
    BY <1>1, <1>2, <2>1 DEF SlotsHold
  <2> QED
    BY <1>1, <1>2, <2>1, <2>2
<1>4. TypeOK'
  BY <1>3 DEF TypeOK, ConsumerLocals
<1>5. Ahead' = Ahead
  BY DEF Ahead, Distance
<1>6. cons'.head = cons.head /\ cons'.pc = "storeHead" /\ cons'.res = "none"
  BY <1>1 DEF TypeOK, ConsumerLocals
<1>7. LocalsFresh'
  BY <1>6 DEF LocalsFresh, SamePlace
<1>8. RoomReserved'
  BY <1>1, <1>5, <1>6 DEF RoomReserved
<1>9. AvailStillFree' /\ AvailableSuffices'
  BY <1>5 DEF AvailStillFree, AvailableSuffices
<1>10. CloseSeen'
  BY <1>6 DEF CloseSeen, ClosedMeansDrained
<1>11. SlotsHold'
  BY <1>3, <1>5, <1>6 DEF SlotsHold, Ordered, SlotAt
<1> QED
  BY <1>4, <1>7, <1>8, <1>9, <1>10, <1>11

LEMMA StoreHeadKeepsIndInv ==
    ASSUME IndInv, ConsumerStoreHead
    PROVE  IndInv'
<1> USE DEF IndInv, ConsumerStoreHead
<1>1. /\ head \in HeadWord /\ tail \in TailWord /\ Ordered(head, tail) /\ sent \in Nat
      /\ cons.head = head /\ Ahead > 0 /\ cons.res = "none"
      /\ "consumer" \notin dropped /\ "queue" \notin dropped
  BY DEF TypeOK, LocalsFresh, SlotsHold, RoomReserved
<1>2. Ahead \in 0 .. Capacity
  BY <1>1, DistanceBound DEF Ahead
<1>3. head' = Next1(head) /\ head' \in HeadWord /\ Ordered(head', tail)
      /\ Distance(head', tail) = Ahead - 1
  BY <1>1, HeadNext1 DEF Ahead
<1>4. Ahead' = Ahead - 1
  BY <1>3 DEF Ahead, Distance
<1>5. TypeOK'
  BY <1>3 DEF TypeOK, ConsumerLocals
<1>6. cons'.pc = "idle" /\ cons'.res = "Ok"
  BY DEF TypeOK, ConsumerLocals
<1>7. LocalsFresh'
  BY <1>1, <1>6 DEF LocalsFresh, SamePlace
<1>8. RoomReserved'
  <2>1. prod.pc \in {"write", "storeTail"} => Ahead' + prod.n <= Capacity
    BY <1>2, <1>4 DEF RoomReserved, TypeOK, ProducerLocals
  <2> QED
    BY <2>1, <1>6 DEF RoomReserved
<1>9. AvailStillFree' /\ AvailableSuffices'
  <2>1. prod.avail \in 0 .. Capacity
    BY DEF TypeOK, ProducerLocals
  <2> QED
    BY <1>2, <1>4, <2>1 DEF AvailStillFree, AvailableSuffices
<1>10. CloseSeen'
  BY <1>6 DEF CloseSeen, ClosedMeansDrained
<1>11. SlotsHold'
  <2>1. ASSUME NEW j \in 0 .. Capacity - 1, j < Ahead - 1
        PROVE  buffer[SlotAt(head', j)] = sent - (Ahead - 1) + j + 1
    <3>1. j + 1 \in 0 .. Capacity - 1 /\ j + 1 < Ahead
      BY <1>2, <2>1
    <3>2. SlotAt(head', j) = SlotAt(head, j + 1)
      BY <1>1, <1>3, <3>1 DEF SlotAt, Next1, HeadWord, Slots
    <3>3. buffer[SlotAt(head, j + 1)] = sent - Ahead + (j + 1) + 1
      BY <3>1 DEF SlotsHold
    <3> QED
      BY <1>1, <1>2, <3>2, <3>3
  <2>2. received = sent - (Ahead - 1)
    BY <1>1, <1>2 DEF SlotsHold
  <2>3. \A j \in 0 .. Capacity - 1 :
            j < Ahead' => buffer'[SlotAt(head, j)'] = sent' - Ahead' + j + 1
    BY <1>4, <2>1 DEF SlotAt
  <2>4. Ordered(head, tail)'
    BY <1>3 DEF Ordered
  <2> QED
    BY <1>4, <1>6, <2>2, <2>3, <2>4 DEF SlotsHold, SlotAt
<1> QED
  BY <1>5, <1>7, <1>8, <1>9, <1>10, <1>11

LEMMA DropsKeepIndInv ==
    ASSUME IndInv, ProducerDrop \/ ConsumerDrop
    PROVE  IndInv'
<1> USE DEF IndInv, ProducerDrop, ConsumerDrop, ProducerIdle, ConsumerIdle
<1>1. /\ tail \in TailWord /\ tail' = [tail EXCEPT !.closed = TRUE]
      /\ tail' \in TailWord /\ tail'.closed = TRUE
      /\ tail'.lap = tail.lap /\ tail'.idx = tail.idx
  BY DEF TypeOK, TailWord
<1>2. TypeOK'
  BY <1>1 DEF TypeOK
<1>3. Ahead' = Ahead
  BY <1>1 DEF Ahead, Distance
<1>4. LocalsFresh'
  BY <1>1 DEF LocalsFresh, SamePlace
<1>5. RoomReserved'
  BY <1>3 DEF RoomReserved
<1>6. AvailStillFree' /\ AvailableSuffices'
  BY <1>1, <1>3 DEF AvailStillFree, AvailableSuffices
<1>7. CloseSeen'
  BY <1>1 DEF CloseSeen, ClosedMeansDrained
<1>8. SlotsHold'
  BY <1>1, <1>3 DEF SlotsHold, Ordered, SlotAt
<1> QED
  BY <1>2, <1>4, <1>5, <1>6, <1>7, <1>8

LEMMA QueueDropKeepsIndInv ==
    ASSUME IndInv, QueueDrop
    PROVE  IndInv'
<1> USE DEF IndInv, QueueDrop
<1>1. /\ tail \in TailWord /\ head' \in HeadWord /\ SamePlace(head', tail)
      /\ prod.pc = "idle" /\ cons.pc = "idle" /\ tail.closed
  BY DEF TypeOK, TailWord, HeadWord, SamePlace, LocalsFresh, CloseSeen
<1>2. TypeOK'
  BY <1>1 DEF TypeOK
<1>3. Ahead' = 0 /\ Ordered(head', tail)
  BY <1>1 DEF Ahead, Distance, Ordered, SamePlace, TailWord, HeadWord, Slots
<1>4. LocalsFresh' /\ RoomReserved'
  BY <1>1 DEF LocalsFresh, SamePlace, RoomReserved
<1>5. AvailStillFree' /\ AvailableSuffices' /\ CloseSeen'
  BY <1>1 DEF AvailStillFree, AvailableSuffices, CloseSeen, ClosedMeansDrained
<1>6. SlotsHold'
  BY <1>1, <1>3 DEF SlotsHold, Ordered, SlotAt
<1> QED
  BY <1>2, <1>4, <1>5, <1>6

\* Every step of the two threads keeps the invariant.
LEMMA NextKeepsIndInv ==
    ASSUME IndInv, SlicesFit, [Next]_vars
    PROVE  IndInv'
<1>1. CASE ProducerCall
  BY <1>1, CallsKeepIndInv
<1>2. CASE ProducerStep
  BY <1>2, LoadHeadKeepsIndInv, LoadHeadForLenKeepsIndInv, WriteKeepsIndInv,
     StoreTailKeepsIndInv DEF ProducerStep
<1>3. CASE Pop
  BY <1>3, PopKeepsIndInv
<1>4. CASE ConsumerStep
  BY <1>4, LoadTailKeepsIndInv, ReadKeepsIndInv, StoreHeadKeepsIndInv DEF ConsumerStep
<1>5. CASE ProducerDrop \/ ConsumerDrop
  BY <1>5, DropsKeepIndInv
<1>6. CASE QueueDrop
  BY <1>6, QueueDropKeepsIndInv
<1>7. CASE UNCHANGED vars
  BY <1>7 DEF vars, IndInv, TypeOK, LocalsFresh, RoomReserved, SlotsHold,
     AvailStillFree, AvailableSuffices, CloseSeen, ClosedMeansDrained, Ahead,
     Distance, Ordered, SamePlace, SlotAt
<1> QED
  BY <1>1, <1>2, <1>3, <1>4, <1>5, <1>6, <1>7 DEF Next

\* The invariant of push, push_slice, pop and the drops, for every capacity
\* and every slice that fits.
THEOREM IndInvHolds ==
    ASSUME SlicesFit
    PROVE  Spec => []IndInv
<1>1. Init => IndInv
  BY InitIndInv
<1>2. IndInv /\ [Next]_vars => IndInv'
  BY NextKeepsIndInv
<1> QED
  BY <1>1, <1>2, PTL DEF Spec

\* The slots written and the slot read are always different ones.
LEMMA IndInvNoDataRace == IndInv => NoDataRace
<1> SUFFICES ASSUME IndInv, prod.pc = "write", cons.pc = "read"
             PROVE  cons.head.idx \notin WrittenSlots(prod.tail.idx, prod.n)
  BY DEF NoDataRace
<1>1. /\ head \in HeadWord /\ tail \in TailWord /\ Ordered(head, tail)
      /\ cons.head = head /\ Ahead > 0 /\ Ahead + prod.n <= Capacity
      /\ prod.tail.idx = tail.idx /\ prod.n \in Nat
  BY DEF IndInv, TypeOK, ProducerLocals, LocalsFresh, SamePlace, SlotsHold, RoomReserved
<1>2. 0 \in 0 .. Capacity - 1 /\ SlotAt(head, 0) = head.idx
  BY <1>1 DEF SlotAt, HeadWord, Slots
<1> QED
  BY <1>1, <1>2, FreeSlotsApart DEF WrittenSlots, Ahead

\* Type correctness, data-race freedom of the unsafe slot accesses,
\* sufficiency of available() and the meaning of Closed, for every capacity.
THEOREM SpscSafety ==
    ASSUME SlicesFit
    PROVE  Spec => [](TypeOK /\ NoDataRace /\ AvailableSuffices /\ ClosedMeansDrained)
<1>1. IndInv => TypeOK /\ NoDataRace /\ AvailableSuffices /\ ClosedMeansDrained
  BY IndInvNoDataRace DEF IndInv, CloseSeen
<1> QED
  BY <1>1, IndInvHolds, PTL

----------------------------------------------------------------------------
(* The queue implements the bounded FIFO.                                  *)

\* The values after r up to s.
Run(r, s) == [j \in 1 .. s - r |-> r + j]

LEMMA RunAppend ==
    ASSUME NEW r \in Nat, NEW s \in Nat, r <= s, NEW n \in Nat
    PROVE  Run(r, s + n) = Run(r, s) \o [i \in 1 .. n |-> s + i]
  BY DEF Run

LEMMA RunTail ==
    ASSUME NEW r \in Nat, NEW s \in Nat, r < s
    PROVE  /\ Run(r, s) # << >>
           /\ Head(Run(r, s)) = r + 1
           /\ Tail(Run(r, s)) = Run(r + 1, s)
<1>1. Run(r, s) \in Seq(Nat) /\ Len(Run(r, s)) = s - r
      /\ \A i \in 1 .. s - r : Run(r, s)[i] = r + i
  BY DEF Run
<1>2. Run(r + 1, s) \in Seq(Nat) /\ Len(Run(r + 1, s)) = s - (r + 1)
      /\ \A i \in 1 .. s - (r + 1) : Run(r + 1, s)[i] = r + 1 + i
  BY DEF Run
<1>3. Run(r, s) # << >> /\ Head(Run(r, s)) = r + 1
  BY <1>1
<1>4. Tail(Run(r, s)) \in Seq(Nat) /\ Len(Tail(Run(r, s))) = s - (r + 1)
      /\ \A i \in 1 .. s - (r + 1) : Tail(Run(r, s))[i] = r + 1 + i
  BY <1>1, <1>3, HeadTailProperties
<1>5. Tail(Run(r, s)) = Run(r + 1, s)
  BY <1>2, <1>4, SeqEqual
<1> QED
  BY <1>3, <1>5

\* What is between head and tail is what was sent and not yet received.
LEMMA ContentsAreRun ==
    ASSUME IndInv, "queue" \notin dropped
    PROVE  Contents = Run(received, sent) /\ received <= sent
           /\ received \in Nat /\ sent \in Nat
           /\ sent - received <= Capacity
<1>1. /\ head \in HeadWord /\ tail \in TailWord /\ Ordered(head, tail) /\ sent \in Nat
      /\ received \in Nat
  BY DEF IndInv, TypeOK, SlotsHold
<1>2. Ahead \in 0 .. Capacity
  BY <1>1, DistanceBound DEF Ahead
<1>3. CASE cons.pc # "storeHead"
  <2>1. received = sent - Ahead /\ NextHead = head
    BY <1>3 DEF IndInv, SlotsHold, NextHead
  <2>2. Distance(NextHead, tail) = sent - received
    BY <1>1, <1>2, <2>1 DEF Ahead
  <2>3. ASSUME NEW j \in 1 .. Ahead
        PROVE  buffer[SlotAt(head, j - 1)] = received + j
    <3>1. j - 1 \in 0 .. Capacity - 1 /\ j - 1 < Ahead
      BY <1>2
    <3>2. buffer[SlotAt(head, j - 1)] = sent - Ahead + (j - 1) + 1
      BY <3>1 DEF IndInv, SlotsHold
    <3> QED
      BY <3>2, <1>1, <1>2, <2>1
  <2> QED
    BY <1>1, <1>2, <2>1, <2>2, <2>3 DEF Contents, Run
<1>4. CASE cons.pc = "storeHead"
  <2>1. received = sent - Ahead + 1 /\ NextHead = Next1(head) /\ Ahead > 0
    BY <1>4 DEF IndInv, SlotsHold, NextHead, LocalsFresh, RoomReserved
  <2>2. Distance(NextHead, tail) = sent - received /\ sent - received = Ahead - 1
    BY <1>1, <1>2, <2>1, HeadNext1 DEF Ahead
  <2>3. ASSUME NEW j \in 1 .. Ahead - 1
        PROVE  buffer[SlotAt(NextHead, j - 1)] = received + j
    <3>1. j \in 0 .. Capacity - 1 /\ j < Ahead
      BY <1>2
    <3>2. SlotAt(NextHead, j - 1) = SlotAt(head, j)
      BY <1>1, <2>1, <3>1 DEF SlotAt, Next1, HeadWord, Slots
    <3>3. buffer[SlotAt(head, j)] = sent - Ahead + j + 1
      BY <3>1 DEF IndInv, SlotsHold
    <3> QED
      BY <3>2, <3>3, <1>1, <1>2, <2>1
  <2> QED
    BY <1>1, <1>2, <2>1, <2>2, <2>3 DEF Contents, Run
<1> QED
  BY <1>3, <1>4

LEMMA ContentsAfterDrop ==
    ASSUME IndInv, "queue" \in dropped
    PROVE  Contents = << >>
<1>1. NextHead = head /\ SamePlace(head, tail)
  BY DEF IndInv, LocalsFresh, NextHead
<1>2. head \in HeadWord /\ tail \in TailWord
  BY DEF IndInv, TypeOK
<1>3. Distance(NextHead, tail) = 0
  BY <1>1, <1>2 DEF Distance, SamePlace, HeadWord, TailWord, Slots
<1> QED
  BY <1>3 DEF Contents

\* Both lemmas as one state predicate, for a state and for its successor.
ContentsKnown ==
    IF "queue" \in dropped THEN Contents = << >>
    ELSE /\ Contents = Run(received, sent)
         /\ received \in Nat /\ sent \in Nat
         /\ received <= sent /\ sent - received <= Capacity

LEMMA ContentsKnownNow == IndInv => ContentsKnown
  BY ContentsAreRun, ContentsAfterDrop DEF ContentsKnown

LEMMA ContentsKnownNext == IndInv' => ContentsKnown'
  BY ContentsKnownNow, PTL

\* A step that neither sends nor receives leaves the contents alone.
LEMMA ContentsKept ==
    ASSUME IndInv, IndInv', UNCHANGED <<sent, received>>,
           "queue" \in dropped <=> "queue" \in dropped'
    PROVE  Contents' = Contents
  BY ContentsKnownNow, ContentsKnownNext DEF ContentsKnown, Run

LEMMA FifoStepRefines ==
    ASSUME IndInv, IndInv', [Next]_vars
    PROVE  [Fifo!FifoNext]_(Fifo!fifoVars)
<1> USE DEF Fifo!FifoNext, Fifo!fifoVars
<1>1. ASSUME UNCHANGED <<sent, received, dropped>>
      PROVE  UNCHANGED Fifo!fifoVars
  BY <1>1, ContentsKept
<1>2. CASE ProducerCall \/ Pop \/ UNCHANGED vars
  BY <1>1, <1>2 DEF ProducerCall, Push, PushSlice, Available, Pop, vars
<1>3. CASE ProducerLoadHead \/ ProducerLoadHeadForLen \/ ProducerWrite
  BY <1>1, <1>3 DEF ProducerLoadHead, ProducerLoadHeadForLen, ProducerWrite
<1>4. CASE ConsumerLoadTail \/ ConsumerStoreHead
  BY <1>1, <1>4 DEF ConsumerLoadTail, ConsumerStoreHead
<1>5. CASE ProducerStoreTail
  <2>1. /\ sent' = sent + prod.n /\ received' = received /\ dropped' = dropped
        /\ "producer" \notin dropped /\ "queue" \notin dropped
        /\ prod.n \in 0 .. MaxSlice
    BY <1>5 DEF ProducerStoreTail, IndInv, LocalsFresh, TypeOK, ProducerLocals
  <2>2. CASE prod.n = 0
    <3>1. sent' = sent
      BY <2>1, <2>2 DEF IndInv, TypeOK
    <3> QED
      BY <1>1, <2>1, <3>1
  <2>3. CASE prod.n # 0
    <3>1. /\ Contents = Run(received, sent) /\ Contents' = Run(received, sent + prod.n)
          /\ received \in Nat /\ sent \in Nat /\ received <= sent
          /\ (sent + prod.n) - received <= Capacity
      BY <2>1, ContentsKnownNow, ContentsKnownNext DEF ContentsKnown, Run
    <3>2. prod.n \in Nat /\ prod.n \in 1 .. Capacity
      BY <2>1, <2>3, <3>1
    <3>3. Contents' = Contents \o [i \in 1 .. prod.n |-> sent + i]
      BY <3>1, <3>2, RunAppend, ZenonT(60)
    <3>4. Len(Contents) + prod.n <= Capacity
      <4>1. Len(Run(received, sent)) = sent - received
        BY <3>1 DEF Run
      <4> QED
        BY <3>1, <3>2, <4>1
    <3>5. Fifo!Put(prod.n)
      BY <2>1, <3>3, <3>4 DEF Fifo!Put
    <3> QED
      BY <3>2, <3>5
  <2> QED
    BY <2>2, <2>3
<1>6. CASE ConsumerRead
  <2>1. /\ sent' = sent /\ dropped' = dropped /\ "queue" \notin dropped
        /\ cons.pc = "read" /\ cons'.pc = "storeHead"
    BY <1>6 DEF ConsumerRead, IndInv, LocalsFresh, TypeOK, ConsumerLocals
  <2>2. received' = received + 1 /\ received < sent
    <3>1. received = sent - Ahead /\ Ahead > 0
      BY <2>1 DEF IndInv, SlotsHold, RoomReserved
    <3>2. received' = sent' - Ahead' + 1
      BY <2>1 DEF IndInv, SlotsHold
    <3>3. Ahead' = Ahead
      BY <1>6 DEF ConsumerRead, Ahead, Distance
    <3>4. Ahead \in 0 .. Capacity /\ sent \in Nat
      BY DistanceBound DEF IndInv, TypeOK, SlotsHold, Ahead
    <3> QED
      BY <2>1, <3>1, <3>2, <3>3, <3>4
  <2>3. /\ Contents = Run(received, sent) /\ Contents' = Run(received + 1, sent)
        /\ received \in Nat /\ sent \in Nat
    BY <2>1, <2>2, ContentsKnownNow, ContentsKnownNext DEF ContentsKnown, Run
  <2>4. Fifo!Take
    BY <2>1, <2>2, <2>3, RunTail DEF Fifo!Take
  <2> QED
    BY <2>4
<1>7. CASE ProducerDrop
  <2>1. UNCHANGED <<sent, received>> /\ dropped' = dropped \cup {"producer"}
    BY <1>7 DEF ProducerDrop
  <2>2. Contents' = Contents
    BY <2>1, ContentsKept
  <2> QED
    BY <2>1, <2>2 DEF Fifo!Finish
<1>8. CASE ConsumerDrop
  <2>1. UNCHANGED <<sent, received>> /\ dropped' = dropped \cup {"consumer"}
    BY <1>8 DEF ConsumerDrop
  <2>2. Contents' = Contents
    BY <2>1, ContentsKept
  <2> QED
    BY <2>1, <2>2
<1>9. CASE QueueDrop
  <2>1. /\ UNCHANGED <<sent, received>> /\ "producer" \in dropped
        /\ dropped' = dropped \cup {"queue"}
    BY <1>9 DEF QueueDrop
  <2>2. Contents' = << >>
    BY <2>1, ContentsKnownNext DEF ContentsKnown
  <2> QED
    BY <2>1, <2>2 DEF Fifo!Discard
<1> QED
  BY <1>2, <1>3, <1>4, <1>5, <1>6, <1>7, <1>8, <1>9
     DEF Next, ProducerStep, ConsumerStep

\* The lock-free queue implements the bounded FIFO: for every capacity, as
\* long as slices fit the buffer, no value is lost, repeated or reordered.
THEOREM SpscImplementsFifo ==
    ASSUME SlicesFit
    PROVE  Spec => ImplementsFifo
<1>1. Init => Fifo!FifoInit
  <2> SUFFICES ASSUME Init PROVE Fifo!FifoInit
    OBVIOUS
  <2>1. IndInv
    BY InitIndInv
  <2>2. "queue" \notin dropped /\ received = 0 /\ sent = 0 /\ "producer" \notin dropped
    BY DEF Init
  <2>3. Contents = << >>
    BY <2>1, <2>2, ContentsKnownNow DEF ContentsKnown, Run
  <2> QED
    BY <2>2, <2>3 DEF Fifo!FifoInit
<1>2. IndInv /\ IndInv' /\ [Next]_vars => [Fifo!FifoNext]_(Fifo!fifoVars)
  BY FifoStepRefines
<1> QED
  BY <1>1, <1>2, IndInvHolds, PTL DEF Spec, ImplementsFifo, Fifo!FifoSpec

----------------------------------------------------------------------------
\* A slice no longer than what available() said is never refused: the
\* consumer only makes room between the two calls.
THEOREM AvailableIsEnough ==
    ASSUME SlicesFit
    PROVE  Spec => []AvailableSuffices
<1>1. IndInv => AvailableSuffices
  BY DEF IndInv
<1> QED
  BY <1>1, IndInvHolds, PTL
=============================================================================
