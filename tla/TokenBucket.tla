---------------------------- MODULE TokenBucket ----------------------------
(***************************************************************************)
(* server/tbf/tbf.c: the token buckets that limit the rate of each channel *)
(* of the multicast server.                                                *)
(*                                                                         *)
(* Every section under tbf_mut is a step.  tbf_init has three: the first   *)
(* call's, the search for a free place, and the store in that place.  A    *)
(* caller makes a bucket, fetches tokens from it and destroys it.          *)
(*                                                                         *)
(* time(NULL) is the time of day: it jumps forward by any number of        *)
(* seconds, and back when it is set.  A token count is an int: a sum too   *)
(* large for one wraps around.                                             *)
(***************************************************************************)
EXTENDS Integers, FiniteSets

CONSTANTS Caller,       \* the threads that call the library
          TBF_MAX,      \* the places there are
          Shape,        \* the arguments of tbf_init: records [cps, burst]
          Amount,       \* the tokens asked for at once
          IntMax,       \* the largest int
          Time,         \* what time(NULL) can return
          NULL          \* no bucket

ASSUME BucketAssumption ==
    /\ TBF_MAX \in Nat \ {0} /\ IntMax \in Nat
    /\ Shape \subseteq [cps : 0 .. IntMax, burst : 0 .. IntMax]
    /\ Amount \subseteq 1 .. IntMax
    /\ Time \subseteq Nat

Pos == 0 .. TBF_MAX - 1

VARIABLES
    tbf_lib,            \* Pos -> a bucket or NULL
    inited, last_update,
    clock,              \* the time of day
    pc, me, pos,        \* each caller: where it is, the bucket it makes, its place
    start,              \* history: the first value of last_update
    together            \* history: two calls of tbf_init overlapped

state   == <<tbf_lib, inited, last_update>>
history == <<start, together>>
vars    == <<state, clock, pc, me, pos, history>>

\* `given' is history: the tokens a bucket gave.
Bucket(shape) ==
    [cps |-> shape.cps, burst |-> shape.burst, token |-> 0, given |-> 0]

Init ==
    /\ tbf_lib = [p \in Pos |-> NULL]
    /\ inited = FALSE /\ last_update = 0
    /\ clock \in Time
    /\ pc = [c \in Caller |-> "idle"]
    /\ me = [c \in Caller |-> NULL] /\ pos = [c \in Caller |-> -1]
    /\ start = 0 /\ together = FALSE

Goto(c, label) == pc' = [pc EXCEPT ![c] = label]

Tick ==
    /\ \E now \in Time : now # clock /\ clock' = now
    /\ UNCHANGED <<state, pc, me, pos, history>>

-----------------------------------------------------------------------------
(* tbf_init *)

InTbfInit(c) == pc[c] \in {"find", "store"}

\* The first call starts the clock of the whole library; malloc may fail.
TbfInit(c) ==
    /\ pc[c] = "idle"
    /\ inited' = TRUE
    /\ last_update' = IF inited THEN last_update ELSE clock
    /\ start' = IF inited THEN start ELSE clock
    /\ \/ /\ \E shape \in Shape : me' = [me EXCEPT ![c] = shape]
          /\ Goto(c, "find")
          /\ together' = (together \/ \E d \in Caller : InTbfInit(d))
       \/ UNCHANGED <<me, pc, together>>
    /\ UNCHANGED <<tbf_lib, clock, pos>>

\* Two bugs to detect: the search goes one place too far, or takes a place that
\* is taken for free.
FreePlaces_OneMore == {p \in 0 .. TBF_MAX : p = TBF_MAX \/ tbf_lib[p] = NULL}
FreePlaces_All == Pos

FreePlaces == {p \in Pos : tbf_lib[p] = NULL}

\* __get_free_pos; -1 ends tbf_init.
GetFreePos(c) ==
    /\ pc[c] = "find"
    /\ \/ \E p \in FreePlaces :
            /\ \A q \in FreePlaces : p <= q
            /\ pos' = [pos EXCEPT ![c] = p] /\ Goto(c, "store")
            /\ UNCHANGED me
       \/ /\ FreePlaces = {}
          /\ me' = [me EXCEPT ![c] = NULL] /\ Goto(c, "idle")
          /\ UNCHANGED pos
    /\ UNCHANGED <<state, clock, history>>

Store(c) ==
    /\ pc[c] = "store"
    /\ tbf_lib' = [tbf_lib EXCEPT ![pos[c]] = Bucket(me[c])]
    /\ me' = [me EXCEPT ![c] = NULL]
    /\ Goto(c, "open")
    /\ UNCHANGED <<inited, last_update, clock, pos, history>>

-----------------------------------------------------------------------------
(* tbf_fetch_token *)

\* A long stored in an int.
Narrow(n) == ((n + IntMax + 1) % (2 * (IntMax + 1))) - (IntMax + 1)

Least(a, b) == IF a < b THEN a ELSE b

\* A bug to detect: the burst is not a limit.
Refilled_NoBurst(b, seconds) == Narrow(b.token + seconds * b.cps)

\* The tokens of bucket b once `seconds' are made up for.
Refilled(b, seconds) ==
    IF seconds > 0 THEN Least(Narrow(b.token + seconds * b.cps), b.burst) ELSE b.token

\* Two bugs to detect: all, or all but one, of the seconds made up for are made
\* up for again.
Updated_Never(now) == last_update
Updated_OneSecond(now) == IF now > last_update THEN last_update + 1 ELSE last_update

\* One last_update for all buckets.
Updated(now) == IF now > last_update THEN now ELSE last_update

TbfFetchToken(c, n) ==
    /\ pc[c] = "open"
    /\ LET b         == tbf_lib[pos[c]]
           available == Refilled(b, clock - last_update)
           ret       == Least(available, n)
       IN \/ /\ b = NULL
             /\ UNCHANGED <<tbf_lib, last_update>>
          \/ /\ b # NULL
             /\ last_update' = Updated(clock)
             /\ tbf_lib' = [tbf_lib EXCEPT ![pos[c]] =
                   [b EXCEPT !.token = available - ret,
                             !.given = @ + (IF ret > 0 THEN ret ELSE 0)]]
    /\ UNCHANGED <<inited, clock, pc, me, pos, start, together>>

-----------------------------------------------------------------------------
(* tbf_destroy, tbf_destroy_all *)

TbfDestroy(c) ==
    /\ pc[c] = "open"
    /\ tbf_lib' = [tbf_lib EXCEPT ![pos[c]] = NULL]
    /\ pos' = [pos EXCEPT ![c] = -1]
    /\ Goto(c, "idle")
    /\ UNCHANGED <<inited, last_update, clock, me, history>>

\* Everybody has done with the library.
TbfDestroyAll ==
    /\ \A c \in Caller : ~InTbfInit(c)
    /\ tbf_lib' = [p \in Pos |-> NULL]
    /\ pos' = [c \in Caller |-> -1] /\ pc' = [c \in Caller |-> "idle"]
    /\ UNCHANGED <<inited, last_update, clock, me, history>>

-----------------------------------------------------------------------------
CallerNext(c) ==
    \/ TbfInit(c) \/ GetFreePos(c) \/ Store(c)
    \/ \E n \in Amount : TbfFetchToken(c, n)
    \/ TbfDestroy(c)

Next == Tick \/ TbfDestroyAll \/ \E c \in Caller : CallerNext(c)

Spec == Init /\ [][Next]_vars

-----------------------------------------------------------------------------
(* Invariants *)

AnyBucket == [cps : 0 .. IntMax, burst : 0 .. IntMax, token : Int, given : Nat]

ASSUME NullAssumption == NULL \notin AnyBucket

\* Every variable has its type, and a caller past the search has a place.
TypeOK ==
    /\ tbf_lib \in [Pos -> AnyBucket \cup {NULL}]
    /\ inited \in BOOLEAN /\ last_update \in Nat /\ clock \in Nat /\ start \in Nat
    /\ pc \in [Caller -> {"idle", "find", "store", "open"}]
    /\ me \in [Caller -> Shape \cup {NULL}]
    /\ \A c \in Caller : InTbfInit(c) => me[c] \in Shape
    /\ pos \in [Caller -> Pos \cup {-1}]
    /\ \A c \in Caller : pc[c] \in {"store", "open"} => pos[c] \in Pos
    /\ together \in BOOLEAN

Live == {p \in Pos : tbf_lib[p] # NULL}

\* A bucket never holds less than nothing nor more than its burst, also when
\* the sum that refills it no longer fits an int: then the refill is lost, and
\* tbf_fetch_token returns a negative number once.
TokenWithinBurst ==
    \A p \in Live : tbf_lib[p].token \in 0 .. tbf_lib[p].burst

\* The rate is kept from the first tbf_init on, even when the time of day is
\* set back: what a bucket gave and holds is what its rate made since then.
RateLimited ==
    \A p \in Live : LET b == tbf_lib[p] IN
        b.given + b.token <= b.cps * (last_update - start)

Holds(b) == IF b = NULL THEN 0 ELSE b.given + b.token

\* What the buckets at the first n places gave and hold.
Upto(lib) ==
    LET sum[n \in 0 .. TBF_MAX] == IF n = 0 THEN 0 ELSE sum[n - 1] + Holds(lib[n - 1])
    IN  sum

AllTokens(lib) == Upto(lib)[TBF_MAX]

\* All the buckets together keep the rate of the fastest one: the library makes
\* up for each second once, in the bucket that asks first.
SharedRate ==
    \A rate \in 0 .. IntMax :
        (\A shape \in Shape : shape.cps <= rate) =>
            AllTokens(tbf_lib) <= rate * (last_update - start)

\* As long as the calls of tbf_init do not overlap (in server.c one thread
\* makes all the buckets), a caller's handle is that of a bucket, and of no
\* other caller's.
OwnBucket ==
    ~together => \A c \in Caller : pc[c] = "open" =>
        /\ pos[c] \in Live
        /\ \A d \in Caller \ {c} : pc[d] = "open" => pos[d] # pos[c]
=============================================================================
