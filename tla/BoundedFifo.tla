---------------------------- MODULE BoundedFifo ----------------------------
(***************************************************************************)
(* What the queue of tezos/spsc promises its two users: a bounded FIFO     *)
(* into which one side puts runs of consecutive values 1, 2, 3, ... and    *)
(* out of which the other side takes them one at a time, in order, each    *)
(* once.  What is left when both sides are gone is discarded.              *)
(***************************************************************************)
EXTENDS Integers, Sequences

CONSTANT Capacity

VARIABLES
    queue,      \* the values in flight, oldest first
    sent,       \* how many values have been put in
    received,   \* the value taken last, 0 before the first
    finished    \* the sending side is gone

fifoVars == <<queue, sent, received, finished>>

FifoInit ==
    /\ queue = << >>
    /\ sent = 0
    /\ received = 0
    /\ finished = FALSE

Put(n) ==
    /\ ~finished
    /\ Len(queue) + n <= Capacity
    /\ queue' = queue \o [i \in 1 .. n |-> sent + i]
    /\ sent' = sent + n
    /\ UNCHANGED <<received, finished>>

Take ==
    /\ queue # << >>
    /\ received' = Head(queue)
    /\ queue' = Tail(queue)
    /\ UNCHANGED <<sent, finished>>

Finish ==
    /\ finished' = TRUE
    /\ UNCHANGED <<queue, sent, received>>

Discard ==
    /\ finished
    /\ queue' = << >>
    /\ UNCHANGED <<sent, received, finished>>

FifoNext == (\E n \in 1 .. Capacity : Put(n)) \/ Take \/ Finish \/ Discard

FifoSpec == FifoInit /\ [][FifoNext]_fifoVars
=============================================================================
