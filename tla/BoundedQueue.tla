----------------------------- MODULE BoundedQueue -----------------------------
(***************************************************************************)
(* What FIFO<T, size> of fifo.hpp promises its users, with no slots, no    *)
(* indices and no wrap-around: a queue of at most Capacity entries.  A     *)
(* writer first reserves an entry at the tail and later publishes it; the  *)
(* reader takes the head, and only when the head is published.  An         *)
(* unpublished head blocks the entries behind it.                          *)
(***************************************************************************)
EXTENDS Naturals, Sequences

CONSTANTS Capacity,   \* how many entries fit (size - 1 in fifo.hpp)
          Values      \* what is enqueued

VARIABLES queue,      \* the entries, oldest first
          taken       \* every value the reader has received, in order

vars == <<queue, taken>>

Entries == [value : Values, ready : BOOLEAN]

Init == queue = <<>> /\ taken = <<>>

\* A writer takes the place behind the last entry; its value is not visible yet.
Reserve(v) ==
    /\ Len(queue) < Capacity
    /\ queue' = Append(queue, [value |-> v, ready |-> FALSE])
    /\ UNCHANGED taken

\* The writer of entry i makes it visible.
Publish(i) ==
    /\ ~queue[i].ready
    /\ queue' = [queue EXCEPT ![i].ready = TRUE]
    /\ UNCHANGED taken

\* The reader receives the head.
Take ==
    /\ queue # <<>>
    /\ Head(queue).ready
    /\ taken' = Append(taken, Head(queue).value)
    /\ queue' = Tail(queue)

Next ==
    \/ \E v \in Values : Reserve(v)
    \/ \E i \in DOMAIN queue : Publish(i)
    \/ Take

Spec == Init /\ [][Next]_vars
===============================================================================
