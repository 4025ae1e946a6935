----------------------------- MODULE Dispatcher -----------------------------
(***************************************************************************)
(* What the thread pool promises its callers: a bounded first-in first-out *)
(* buffer of tasks.  A task is submitted while the pool is open and there  *)
(* is room; a worker starts the oldest pending one; once the pool is       *)
(* closed nothing is submitted or started any more, and what is pending is *)
(* dropped.  Workers, mutexes and conditions do not exist at this level.   *)
(***************************************************************************)
EXTENDS Naturals, Sequences

CONSTANTS Job,        \* what can be submitted
          Capacity    \* how many can be pending

VARIABLES pending,      \* tasks submitted and not started, oldest first
          started,      \* tasks started, in order
          closed

dvars == <<pending, started, closed>>

DInit == pending = <<>> /\ started = <<>> /\ closed = FALSE

Submit ==
    /\ ~closed /\ Len(pending) < Capacity
    /\ \E job \in Job : pending' = Append(pending, job)
    /\ UNCHANGED <<started, closed>>

Start ==
    /\ ~closed /\ pending # <<>>
    /\ started' = Append(started, Head(pending))
    /\ pending' = Tail(pending)
    /\ UNCHANGED closed

Close == closed' = TRUE /\ UNCHANGED <<pending, started>>

DNext == Submit \/ Start \/ Close

DSpec == DInit /\ [][DNext]_dvars
=============================================================================
