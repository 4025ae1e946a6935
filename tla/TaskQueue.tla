----------------------------- MODULE TaskQueue -----------------------------
(***************************************************************************)
(* server/pool/queue/queue.c: the circular array of the thread pool.       *)
(*                                                                         *)
(* A queue is its array and two indices, front and tail.  It is empty when *)
(* they meet, so one cell always stays unused: a queue made with capacity  *)
(* c holds c - 1 elements, and one made with capacity 1 holds none.  An    *)
(* element is opaque: memcpy of `size' bytes is one assignment.            *)
(***************************************************************************)
EXTENDS Naturals

CONSTANTS QueueSize,    \* the capacity queue_init is given
          NoTask        \* what a cell calloc made, or an unset local, holds

ASSUME QueueSizeAssumption == QueueSize \in Nat \ {0}

Cell == 0 .. QueueSize - 1

\* A bug to detect: the index never wraps.
After_NoWrap(i) == i + 1

\* The index after i, as queue_full, queue_enter and queue_deq compute it.
After(i) == (i + 1) % QueueSize

queue_init == [arr |-> [i \in Cell |-> NoTask], front |-> 0, tail |-> 0]

queue_empty(q) == q.front = q.tail

\* A bug to detect: the full test that lets the indices meet.
queue_full_FillsLastCell(q) == FALSE

queue_full(q) == After(q.tail) = q.front

\* A bug to detect: the element stored after the tail has moved.
queue_enter_AfterTail(q, data) ==
    [q EXCEPT !.arr[After(q.tail)] = data, !.tail = After(q.tail)]

\* queue_enter returns -1 and changes nothing when the queue is full.
queue_enter(q, data) ==
    IF queue_full(q) THEN q
    ELSE [q EXCEPT !.arr[q.tail] = data, !.tail = After(q.tail)]

\* The two effects of queue_deq: the queue it leaves, and what it writes
\* through its `data' argument, which keeps the value `old' on an empty queue.
queue_deq(q) ==
    IF queue_empty(q) THEN q ELSE [q EXCEPT !.front = After(q.front)]

queue_deq_data(q, old) ==
    IF queue_empty(q) THEN old ELSE q.arr[q.front]

-----------------------------------------------------------------------------
(* What a queue holds, oldest first: used by properties, not by the code. *)

QueueLength(q) == (q.tail + QueueSize - q.front) % QueueSize

QueueContents(q) ==
    [k \in 1 .. QueueLength(q) |-> q.arr[(q.front + k - 1) % QueueSize]]
=============================================================================
