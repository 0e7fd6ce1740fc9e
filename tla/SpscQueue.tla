----------------------------- MODULE SpscQueue -----------------------------
(***************************************************************************)
(* The bounded lock-free queue of tezos/spsc/src/lib.rs: one producer      *)
(* thread, one consumer thread, a buffer of Capacity slots and two atomic  *)
(* words, head and tail.  A word is kept as the fields its bit masks       *)
(* select: the slot index (word & (mask_bit - 1)), the lap (the bits above *)
(* it) and, in tail only, CLOSED_BIT.  wrapping_add(mask_bit) is lap + 1;  *)
(* the 2^62 pushes after which a lap would run into CLOSED_BIT are out of  *)
(* reach of a 64-bit build.                                                *)
(*                                                                         *)
(* Each atomic load, each atomic store and each access to the slots is a   *)
(* step of its own.  The n-th value ever pushed is the number n.           *)
(***************************************************************************)
EXTENDS Integers, Sequences

CONSTANTS
    Capacity,   \* slots of the buffer
    MaxSlice,   \* bound: the longest slice handed to push_slice
    MaxSent     \* bound: how many values the producer pushes

ASSUME CapacityAssumption == Capacity \in Nat \ {0}

\* A slice may be one longer than the buffer; the copies of still longer
\* ones also leave the buffer, which Rust turns into a panic.
ASSUME MaxSliceAssumption == MaxSlice \in 1 .. Capacity + 1

ASSUME MaxSentAssumption == MaxSent \in Nat

VARIABLES
    head,       \* word modified by pop
    tail,       \* word modified by push, push_slice and set_closed
    buffer,     \* slot -> value, 0 while uninitialised
    prod,       \* the producer: its program counter and its locals
    cons,       \* the consumer: its program counter and its locals
    sent,       \* how many values have been pushed
    received,   \* the last value pop returned, 0 before
    dropped     \* which of the two handles have been dropped

vars == <<head, tail, buffer, prod, cons, sent, received, dropped>>

Slots == 0 .. Capacity - 1
HeadWord == [lap : Nat, idx : Slots]
TailWord == [lap : Nat, idx : Slots, closed : BOOLEAN]

----------------------------------------------------------------------------
(* Arithmetic on the two words.                                            *)

\* The word after one element: the next slot, or slot 0 of the next lap.
Next1(w) ==
    IF w.idx + 1 < Capacity
    THEN [lap |-> w.lap, idx |-> w.idx + 1]
    ELSE [lap |-> w.lap + 1, idx |-> 0]

\* Mutant: a slice that wraps is taken to end at the end of the buffer.
NextNToLapEnd(w, n) ==
    IF w.idx + n < Capacity
    THEN [lap |-> w.lap, idx |-> w.idx + n]
    ELSE [lap |-> w.lap + 1, idx |-> 0]

\* next_tail of push_slice.
NextN(w, n) ==
    IF w.idx + n < Capacity
    THEN [lap |-> w.lap, idx |-> w.idx + n]
    ELSE [lap |-> w.lap + 1, idx |-> (w.idx + n) % Capacity]

Open(w) == [lap |-> w.lap, idx |-> w.idx, closed |-> FALSE]

SamePlace(v, w) == v.lap = w.lap /\ v.idx = w.idx

\* Mutant: push takes the queue for full only one element too late.
PushFullLate(h, t) == h.lap + 1 < t.lap

\* push's test: head.wrapping_add(mask_bit) == tail.
PushFull(h, t) == h.lap + 1 = t.lap /\ h.idx = t.idx

\* push_slice's test: head.wrapping_add(mask_bit) < next_tail, lexicographic
\* in (lap, index) as the index never reaches mask_bit.
SliceFull(h, nt) ==
    \/ h.lap + 1 < nt.lap
    \/ h.lap + 1 = nt.lap /\ h.idx < nt.idx

\* Mutant: without its first test len takes a full queue for an empty one.
LenOfNoLap(h, t) ==
    IF t.idx < h.idx THEN t.idx + Capacity - h.idx ELSE t.idx - h.idx

\* Queue::len on loaded words; CLOSED_BIT makes the first test fail.
LenOf(h, t) ==
    IF ~t.closed /\ PushFull(h, t) THEN Capacity
    ELSE IF t.idx < h.idx THEN t.idx + Capacity - h.idx
    ELSE t.idx - h.idx

AvailableOf(h, t) == Capacity - LenOf(h, t)

\* The slots after the n values sent+1 .. sent+n are copied in at index i:
\* up to the end of the buffer, then (overwriting) from its start.
Copied(i, n) ==
    [s \in Slots |->
        IF s < i + n - Capacity THEN sent + (Capacity - i) + s + 1
        ELSE IF s >= i /\ s < i + n THEN sent + (s - i) + 1
        ELSE buffer[s]]

----------------------------------------------------------------------------
Init ==
    /\ head = [lap |-> 0, idx |-> 0]
    /\ tail = [lap |-> 0, idx |-> 0, closed |-> FALSE]
    /\ buffer = [s \in Slots |-> 0]
    /\ prod = [pc |-> "idle", op |-> "push", n |-> 0,
               tail |-> tail, avail |-> 0, res |-> "none"]
    /\ cons = [pc |-> "idle", head |-> head, res |-> "none"]
    /\ sent = 0
    /\ received = 0
    /\ dropped = {}

----------------------------------------------------------------------------
(* The producer: push, push_slice, available.                              *)

ProducerIdle == prod.pc = "idle" /\ "producer" \notin dropped

\* push(elem): the first load.
Push ==
    /\ ProducerIdle
    /\ sent + 1 <= MaxSent
    /\ prod' = [prod EXCEPT !.pc = "loadHead", !.op = "push", !.n = 1,
                            !.tail = tail, !.res = "none"]
    /\ UNCHANGED <<head, tail, buffer, cons, sent, received, dropped>>

\* push_slice(slice) of n elements: the first load.
PushSlice(n) ==
    /\ ProducerIdle
    /\ sent + n <= MaxSent
    /\ prod' = [prod EXCEPT !.pc = "loadHead", !.op = "slice", !.n = n,
                            !.tail = tail, !.res = "none"]
    /\ UNCHANGED <<head, tail, buffer, cons, sent, received, dropped>>

\* available(): len's first load.
Available ==
    /\ ProducerIdle
    /\ prod' = [prod EXCEPT !.pc = "loadHead", !.op = "available", !.n = 0,
                            !.tail = tail, !.res = "none"]
    /\ UNCHANGED <<head, tail, buffer, cons, sent, received, dropped>>

\* The load of head in push and push_slice, and the early returns after it.
ProducerLoadHead ==
    /\ prod.pc = "loadHead"
    /\ prod.op # "available"
    /\ LET full == IF prod.op = "push" THEN PushFull(head, prod.tail)
                   ELSE SliceFull(head, NextN(prod.tail, prod.n))
       IN prod' = IF prod.tail.closed
                  THEN [prod EXCEPT !.pc = "idle", !.res = "Closed"]
                  ELSE IF full THEN [prod EXCEPT !.pc = "idle", !.res = "Full"]
                  ELSE [prod EXCEPT !.pc = "write"]
    /\ UNCHANGED <<head, tail, buffer, cons, sent, received, dropped>>

\* The load of head in available.
ProducerLoadHeadForLen ==
    /\ prod.pc = "loadHead"
    /\ prod.op = "available"
    /\ prod' = [prod EXCEPT !.pc = "idle", !.avail = AvailableOf(head, prod.tail)]
    /\ UNCHANGED <<head, tail, buffer, cons, sent, received, dropped>>

\* The slots are written.
ProducerWrite ==
    /\ prod.pc = "write"
    /\ buffer' = Copied(prod.tail.idx, prod.n)
    /\ prod' = [prod EXCEPT !.pc = "storeTail"]
    /\ UNCHANGED <<head, tail, cons, sent, received, dropped>>

\* tail.store(next): a plain store of a word computed from the first load.
ProducerStoreTail ==
    /\ prod.pc = "storeTail"
    /\ tail' = Open(IF prod.op = "push" THEN Next1(prod.tail)
                    ELSE NextN(prod.tail, prod.n))
    /\ sent' = sent + prod.n
    /\ prod' = [prod EXCEPT !.pc = "idle", !.avail = 0, !.res = "Ok"]
    /\ UNCHANGED <<head, buffer, cons, received, dropped>>

----------------------------------------------------------------------------
(* The consumer: pop.                                                      *)

ConsumerIdle == cons.pc = "idle" /\ "consumer" \notin dropped

\* pop(): the load of head.
Pop ==
    /\ ConsumerIdle
    /\ cons' = [pc |-> "loadTail", head |-> head, res |-> "none"]
    /\ UNCHANGED <<head, tail, buffer, prod, sent, received, dropped>>

\* Mutant: CLOSED_BIT is tested before emptiness.
ConsumerLoadTailClosedFirst ==
    /\ cons.pc = "loadTail"
    /\ cons' = IF tail.closed THEN [cons EXCEPT !.pc = "idle", !.res = "Closed"]
               ELSE IF SamePlace(cons.head, tail)
               THEN [cons EXCEPT !.pc = "idle", !.res = "Empty"]
               ELSE [cons EXCEPT !.pc = "read"]
    /\ UNCHANGED <<head, tail, buffer, prod, sent, received, dropped>>

\* The load of tail and the two early returns.
ConsumerLoadTail ==
    /\ cons.pc = "loadTail"
    /\ cons' = IF SamePlace(cons.head, tail)
               THEN [cons EXCEPT !.pc = "idle",
                                 !.res = IF tail.closed THEN "Closed" ELSE "Empty"]
               ELSE [cons EXCEPT !.pc = "read"]
    /\ UNCHANGED <<head, tail, buffer, prod, sent, received, dropped>>

\* The slot is read.  The value is not used before head is stored, and no
\* other thread sees it in between.
ConsumerRead ==
    /\ cons.pc = "read"
    /\ received' = buffer[cons.head.idx]
    /\ cons' = [cons EXCEPT !.pc = "storeHead"]
    /\ UNCHANGED <<head, tail, buffer, prod, sent, dropped>>

ConsumerStoreHead ==
    /\ cons.pc = "storeHead"
    /\ head' = Next1(cons.head)
    /\ cons' = [cons EXCEPT !.pc = "idle", !.res = "Ok"]
    /\ UNCHANGED <<tail, buffer, prod, sent, received, dropped>>

----------------------------------------------------------------------------
(* Dropping the handles.  set_closed is one atomic read-modify-write.      *)

ProducerDrop ==
    /\ ProducerIdle
    /\ tail' = [tail EXCEPT !.closed = TRUE]
    /\ dropped' = dropped \cup {"producer"}
    /\ UNCHANGED <<head, buffer, prod, cons, sent, received>>

ConsumerDrop ==
    /\ ConsumerIdle
    /\ tail' = [tail EXCEPT !.closed = TRUE]
    /\ dropped' = dropped \cup {"consumer"}
    /\ UNCHANGED <<head, buffer, prod, cons, sent, received>>

\* The last Arc is gone: Queue::drop pops and drops what is left.
QueueDrop ==
    /\ dropped = {"producer", "consumer"}
    /\ head' = [lap |-> tail.lap, idx |-> tail.idx]
    /\ dropped' = dropped \cup {"queue"}
    /\ UNCHANGED <<tail, buffer, prod, cons, sent, received>>

----------------------------------------------------------------------------
ProducerCall == Push \/ (\E n \in 0 .. MaxSlice : PushSlice(n)) \/ Available
ProducerStep == \/ ProducerLoadHead
                \/ ProducerLoadHeadForLen
                \/ ProducerWrite
                \/ ProducerStoreTail
ConsumerStep == ConsumerLoadTail \/ ConsumerRead \/ ConsumerStoreHead

Next ==
    \/ ProducerCall
    \/ ProducerStep
    \/ Pop
    \/ ConsumerStep
    \/ ProducerDrop
    \/ ConsumerDrop
    \/ QueueDrop

Spec == Init /\ [][Next]_vars

\* A thread inside a call runs on; a consumer that polls keeps polling.
Fairness == WF_vars(ProducerStep) /\ WF_vars(ConsumerStep) /\ WF_vars(Pop)

FairSpec == Spec /\ Fairness

----------------------------------------------------------------------------
(* Properties.                                                             *)

ProducerLocals ==
    [pc : {"idle", "loadHead", "write", "storeTail"},
     op : {"push", "slice", "available"}, n : 0 .. MaxSlice,
     tail : TailWord, avail : 0 .. Capacity,
     res : {"none", "Ok", "Full", "Closed"}]

ConsumerLocals ==
    [pc : {"idle", "loadTail", "read", "storeHead"},
     head : HeadWord, res : {"none", "Ok", "Empty", "Closed"}]

\* Every word, slot, counter and local variable of the two threads has its
\* type (struct Queue, Producer, Consumer).
TypeOK ==
    /\ head \in HeadWord
    /\ tail \in TailWord
    /\ buffer \in [Slots -> Nat]
    /\ prod \in ProducerLocals
    /\ cons \in ConsumerLocals
    /\ sent \in Nat
    /\ received \in Nat
    /\ dropped \in SUBSET {"producer", "consumer", "queue"}

\* The slots push or push_slice is about to write, from index i.
WrittenSlots(i, n) ==
    {s \in Slots : (s >= i /\ s < i + n) \/ s < i + n - Capacity}

\* The two unsafe accesses never meet: while push or push_slice writes its
\* slots, pop is not reading one of them.  It rests on the order of the
\* loads and stores of head and tail in both functions.
NoDataRace ==
    prod.pc = "write" /\ cons.pc = "read" =>
        cons.head.idx \notin WrittenSlots(prod.tail.idx, prod.n)

\* A producer that splits its slice at available(), as the garbage
\* collector does, is never refused for want of space, whatever the
\* consumer did between the two calls.
AvailableSuffices ==
    prod.op = "slice" /\ prod.res = "Full" => prod.n > prod.avail

\* pop reports Closed only after everything that was pushed has been
\* handed out, and only once the producer is gone: the consumer may stop.
ClosedMeansDrained ==
    cons.res = "Closed" => "producer" \in dropped /\ received = sent

\* The queue's contents: from the element pop returns next up to tail.
\* head moves only after the slot has been read.
NextHead == IF cons.pc = "storeHead" THEN Next1(cons.head) ELSE head

Distance(h, t) ==
    IF h.lap = t.lap THEN t.idx - h.idx ELSE t.idx + Capacity - h.idx

SlotAt(h, j) ==
    IF h.idx + j < Capacity THEN h.idx + j ELSE h.idx + j - Capacity

Contents ==
    [j \in 1 .. Distance(NextHead, tail) |-> buffer[SlotAt(NextHead, j - 1)]]

Fifo == INSTANCE BoundedFifo WITH
            queue <- Contents, finished <- "producer" \in dropped

\* push, push_slice, pop and the drops together are a bounded FIFO: no
\* value is lost, duplicated, overwritten or reordered, and a slice enters
\* the queue as a whole.
ImplementsFifo == Fifo!FifoSpec

\* Dropping the producer is never lost, and loses nothing: a consumer that
\* keeps polling receives all that was pushed and is then told Closed.
ProducerDropReported ==
    "producer" \in dropped ~>
        (cons.res = "Closed" /\ received = sent) \/ "consumer" \in dropped

----------------------------------------------------------------------------
(* The inductive invariant behind NoDataRace, ClosedMeansDrained,          *)
(* AvailableSuffices and ImplementsFifo, in named parts.                   *)

\* tail is at most one lap ahead of head.
Ordered(h, t) ==
    \/ h.lap = t.lap /\ h.idx <= t.idx
    \/ h.lap + 1 = t.lap /\ t.idx <= h.idx

Ahead == Distance(head, tail)

\* What each thread remembers of its own word is still true, since nobody
\* else moves that word.
LocalsFresh ==
    /\ prod.pc # "idle" =>
        /\ SamePlace(prod.tail, tail) /\ "producer" \notin dropped
        /\ prod.tail.closed => tail.closed
    /\ cons.pc # "idle" =>
        cons.head = head /\ "consumer" \notin dropped /\ cons.res = "none"
    /\ "queue" \in dropped =>
        {"producer", "consumer"} \subseteq dropped /\ SamePlace(head, tail)

\* The producer writes only free slots, the consumer reads only full ones.
RoomReserved ==
    /\ prod.pc \in {"write", "storeTail"} =>
        /\ Ahead + prod.n <= Capacity
        /\ prod.op = "slice" \/ (prod.op = "push" /\ prod.n = 1)
    /\ prod.pc = "loadHead" /\ prod.op = "push" => prod.n = 1
    /\ cons.pc \in {"read", "storeHead"} => Ahead > 0

\* The slots between head and tail hold the last Ahead values sent.
SlotsHold ==
    /\ Ordered(head, tail)
    /\ \A j \in 0 .. Capacity - 1 :
        j < Ahead => buffer[SlotAt(head, j)] = sent - Ahead + j + 1
    /\ prod.pc = "storeTail" =>
        \A j \in 0 .. Capacity - 1 :
            j < prod.n => buffer[SlotAt(tail, j)] = sent + j + 1
    /\ "queue" \notin dropped =>
        received = IF cons.pc = "storeHead" THEN sent - Ahead + 1
                   ELSE sent - Ahead

\* What available() returned is still a lower bound of the free slots,
\* except for a closed queue, where len is wrong when the queue is full.
AvailStillFree ==
    /\ tail.closed \/ prod.avail <= Capacity - Ahead
    /\ prod.pc # "idle" /\ ~prod.tail.closed => prod.avail <= Capacity - Ahead

CloseSeen ==
    /\ "producer" \in dropped => tail.closed
    /\ tail.closed => dropped # {}
    /\ ClosedMeansDrained

IndInv ==
    /\ TypeOK
    /\ LocalsFresh
    /\ RoomReserved
    /\ SlotsHold
    /\ AvailStillFree
    /\ AvailableSuffices
    /\ CloseSeen
=============================================================================
