------------------------- MODULE TokenBucketProofs -------------------------
(***************************************************************************)
(* What holds of server/tbf for every number of callers, of places, every  *)
(* rate, every width of an int and any course of the time of day.  The     *)
(* inductive invariant is IInv: a bucket's limits hold because the one     *)
(* last_update never passes below the first one (TimeKept), and because a  *)
(* sum that no longer fits an int wraps to a smaller number (NarrowBelow). *)
(* Handles are callers' own by OwnPlaces.  That all buckets together keep  *)
(* one rate is inductive itself; what it needs is how a sum over the       *)
(* places changes with one of them (SumsBelow).                            *)
(***************************************************************************)
EXTENDS TokenBucket, WellFoundedInduction, TLAPS

LEMMA ModulusBelow ==
  ASSUME NEW n \in Nat, NEW d \in Nat \ {0}
  PROVE  n % d \in 0 .. d - 1 /\ n % d <= n
<1>1. n % d \in 0 .. d - 1  OBVIOUS
<1>2. n < d => n % d = n  OBVIOUS
<1> QED  BY <1>1, <1>2

\* A natural number stored in an int comes out no larger, perhaps negative.
LEMMA NarrowBelow ==
  ASSUME NEW n \in Nat
  PROVE  Narrow(n) \in Int /\ Narrow(n) <= n
<1> DEFINE m == n + IntMax + 1
           d == 2 * (IntMax + 1)
<1>1. IntMax \in Nat /\ d \in Nat \ {0} /\ m \in Nat
  BY BucketAssumption
<1>2. m % d \in Int /\ m % d <= m
  <2> HIDE DEF m, d
  <2> QED  BY <1>1, ModulusBelow
<1>3. Narrow(n) = (m % d) - (IntMax + 1)  BY DEF Narrow
<1> QED  BY <1>1, <1>2, <1>3

TimeKept == start <= last_update

\* For one bucket: its tokens are within its burst, and its rate is kept up to
\* the time `until'.
Sound(b, until) ==
    /\ b.token \in 0 .. b.burst
    /\ b.given + b.token <= b.cps * (until - start)

\* Before the first call there is nothing that a change of `start' could upset.
Blank == ~inited => Live = {} /\ \A c \in Caller : pc[c] = "idle"

IInv == /\ TypeOK /\ TimeKept /\ Blank
        /\ \A p \in Live : Sound(tbf_lib[p], last_update)

\* A bucket that is not asked keeps its limits as time goes on.
LEMMA SoundLater ==
  ASSUME NEW b \in AnyBucket, NEW s \in Nat, NEW t \in Nat, NEW u \in Nat, s <= t, t <= u,
         b.given + b.token <= b.cps * (t - s)
  PROVE  b.given + b.token <= b.cps * (u - s)
<1>1. b.cps \in Nat /\ b.given \in Nat /\ b.token \in Int
  BY BucketAssumption DEF AnyBucket
<1>2. b.cps * (u - s) = b.cps * (t - s) + b.cps * (u - t) /\ b.cps * (u - t) >= 0
  BY <1>1
<1>3. b.cps * (u - s) \in Int /\ b.cps * (t - s) \in Int /\ b.cps * (u - t) \in Int
  BY <1>1
<1> QED  BY <1>1, <1>2, <1>3

\* What a refill leaves of the limits: the burst still holds from above.
LEMMA RefillBelow ==
  ASSUME NEW b \in AnyBucket, NEW seconds \in Int, b.token \in 0 .. b.burst
  PROVE  /\ Refilled(b, seconds) \in Int /\ Refilled(b, seconds) <= b.burst
         /\ seconds <= 0 => Refilled(b, seconds) = b.token
         /\ seconds > 0 => Refilled(b, seconds) <= b.token + b.cps * seconds
<1>1. b.cps \in Nat /\ b.burst \in Nat /\ b.token \in Nat
  BY BucketAssumption DEF AnyBucket
<1>2. CASE seconds <= 0
  BY <1>1, <1>2 DEF Refilled
<1>3. CASE seconds > 0
  <2>1. seconds * b.cps \in Nat /\ seconds * b.cps = b.cps * seconds  BY <1>1, <1>3
  <2>2. /\ Narrow(b.token + seconds * b.cps) \in Int
        /\ Narrow(b.token + seconds * b.cps) <= b.token + seconds * b.cps
    BY <1>1, <2>1, NarrowBelow
  <2> QED  BY <1>1, <1>3, <2>1, <2>2 DEF Refilled, Least
<1> QED  BY <1>2, <1>3

LEMMA FetchStep ==
  ASSUME IInv, NEW c \in Caller, NEW n \in Amount, TbfFetchToken(c, n)
  PROVE  IInv'
<1> DEFINE p == pos[c]
           b == tbf_lib[p]
           seconds == clock - last_update
           available == Refilled(b, seconds)
           ret == Least(available, n)
           after == [b EXCEPT !.token = available - ret,
                              !.given = @ + (IF ret > 0 THEN ret ELSE 0)]
<1>1. p \in Pos /\ last_update \in Nat /\ clock \in Nat /\ start \in Nat
  BY DEF IInv, TypeOK, TbfFetchToken
<1>2. CASE b = NULL
  BY <1>2 DEF TbfFetchToken, IInv, TypeOK, TimeKept, Blank, Live, Sound, InTbfInit
<1>3. CASE b # NULL
  <2>1. b \in AnyBucket /\ b.token \in 0 .. b.burst
        /\ b.given + b.token <= b.cps * (last_update - start)
    BY <1>1, <1>3 DEF IInv, TypeOK, Live, Sound
  <2>2. b.cps \in Nat /\ b.burst \in Nat /\ b.given \in Nat /\ n \in Nat \ {0}
    BY <2>1, BucketAssumption DEF AnyBucket
  <2>3. last_update' = Updated(clock) /\ tbf_lib' = [tbf_lib EXCEPT ![p] = after]
        /\ UNCHANGED <<inited, clock, pc, me, pos, start, together>>
    BY <1>3 DEF TbfFetchToken
  <2>4. last_update' \in Nat /\ last_update' >= last_update
        /\ last_update' = IF seconds > 0 THEN last_update + seconds ELSE last_update
    BY <1>1, <2>3 DEF Updated
  <2>5. available \in Int /\ available <= b.burst
        /\ (seconds <= 0 => available = b.token)
        /\ (seconds > 0 => available <= b.token + b.cps * seconds)
    BY <1>1, <2>1, RefillBelow
  <2> HIDE DEF available
  <2>6. ret \in Int /\ available - ret \in 0 .. b.burst
        /\ (ret > 0 => b.given + ret + (available - ret) = b.given + available)
        /\ (ret <= 0 => available - ret = 0)
    BY <2>2, <2>5 DEF Least
  <2> HIDE DEF ret
  <2>7. after \in AnyBucket
    <3>1. available - ret \in Int /\ b.given + (IF ret > 0 THEN ret ELSE 0) \in Nat
      BY <2>2, <2>5, <2>6
    <3> QED  BY <2>1, <3>1 DEF AnyBucket
  <2>8. after.token \in 0 .. after.burst
    BY <2>1, <2>6 DEF AnyBucket
  <2>9. after.given + after.token <= after.cps * (last_update' - start)
    <3>1. after.cps = b.cps /\ after.token = available - ret
          /\ after.given = b.given + (IF ret > 0 THEN ret ELSE 0)
      BY <2>1 DEF AnyBucket
    <3>2. b.cps * (last_update' - start) >= b.given + b.token
      BY <1>1, <2>1, <2>4, SoundLater DEF IInv, TimeKept
    <3>3. b.cps * (last_update' - start) \in Int  BY <1>1, <2>2, <2>4
    <3>4. CASE seconds <= 0 \/ ret <= 0
      BY <2>1, <2>2, <2>5, <2>6, <3>1, <3>2, <3>3, <3>4
    <3>5. CASE seconds > 0 /\ ret > 0
      <4>1. b.cps * (last_update' - start)
              = b.cps * (last_update - start) + b.cps * seconds
        BY <1>1, <2>2, <2>4, <3>5
      <4>2. b.cps * (last_update - start) \in Int /\ b.cps * seconds \in Int
        BY <1>1, <2>2
      <4> QED  BY <2>1, <2>2, <2>5, <2>6, <3>1, <3>5, <4>1, <4>2
    <3> QED  BY <1>1, <2>6, <3>4, <3>5
  <2> HIDE DEF after
  <2>10. TypeOK'
    BY <1>1, <2>3, <2>4, <2>7 DEF IInv, TypeOK, InTbfInit
  <2>11. TimeKept'
    BY <1>1, <2>3, <2>4 DEF IInv, TimeKept
  <2>12. ASSUME NEW q \in Live'  PROVE Sound(tbf_lib[q], last_update)'
    <3>1. CASE q = p
      BY <1>1, <2>3, <2>8, <2>9, <3>1 DEF IInv, TypeOK, Sound
    <3>2. CASE q # p
      <4>1. q \in Live /\ tbf_lib'[q] = tbf_lib[q] /\ tbf_lib[q] \in AnyBucket
        BY <2>3, <2>12, <3>2 DEF IInv, TypeOK, Live
      <4>2. tbf_lib[q].given + tbf_lib[q].token <= tbf_lib[q].cps * (last_update' - start)
        BY <1>1, <2>4, <4>1, SoundLater DEF IInv, TimeKept, Sound
      <4> QED  BY <2>3, <4>1, <4>2 DEF IInv, Sound
    <3> QED  BY <3>1, <3>2
  <2>13. Blank'
    BY <1>1, <1>3, <2>3 DEF IInv, Blank, Live, TbfFetchToken
  <2> QED  BY <2>10, <2>11, <2>12, <2>13 DEF IInv
<1> QED  BY <1>2, <1>3

LEMMA InvInit == Init => IInv
<1> SUFFICES ASSUME Init  PROVE IInv
  OBVIOUS
<1>1. Live = {}  BY DEF Init, Live
<1>2. TypeOK  BY BucketAssumption DEF Init, TypeOK, InTbfInit
<1> QED  BY <1>1, <1>2 DEF Init, IInv, TimeKept, Blank

\* A step that leaves the buckets alone, or only takes some away.
LEMMA FewerBuckets ==
  ASSUME IInv, TypeOK', UNCHANGED <<inited, last_update, start>>,
         \A p \in Pos : tbf_lib'[p] \in {tbf_lib[p], NULL},
         ~inited => \A c \in Caller : pc'[c] = "idle"
  PROVE  IInv'
  BY DEF IInv, TimeKept, Blank, Live, Sound

LEMMA InvNext == IInv /\ [Next]_vars => IInv'
<1> SUFFICES ASSUME IInv, [Next]_vars  PROVE IInv'
  OBVIOUS
<1>0. TypeOK /\ TimeKept /\ Blank  BY DEF IInv
<1>1. CASE Tick
  <2>1. TypeOK'  BY <1>0, <1>1, BucketAssumption DEF Tick, TypeOK, InTbfInit, state, history
  <2> QED  BY <1>0, <1>1, <2>1, FewerBuckets DEF Tick, Blank, state, history
<1>2. CASE TbfDestroyAll
  <2>1. TypeOK'  BY <1>0, <1>2 DEF TbfDestroyAll, TypeOK, InTbfInit, history
  <2> QED  BY <1>0, <1>2, <2>1, FewerBuckets DEF TbfDestroyAll, history
<1>3. ASSUME NEW c \in Caller, TbfInit(c)  PROVE IInv'
  <2>1. TypeOK'  BY <1>0, <1>3 DEF TbfInit, TypeOK, InTbfInit, Goto
  <2>2. TimeKept' /\ Blank'
    BY <1>0, <1>3 DEF TbfInit, TimeKept, Blank, TypeOK, Live
  <2>3. CASE inited
    BY <1>3, <2>1, <2>2, <2>3 DEF TbfInit, IInv, Live, Sound
  <2>4. CASE ~inited
    BY <1>0, <1>3, <2>1, <2>2, <2>4 DEF TbfInit, IInv, Blank, Live
  <2> QED  BY <2>3, <2>4
<1>4. ASSUME NEW c \in Caller, GetFreePos(c)  PROVE IInv'
  <2>1. TypeOK'
    BY <1>0, <1>4 DEF GetFreePos, TypeOK, InTbfInit, Goto, FreePlaces, state, history
  <2>2. inited  BY <1>0, <1>4 DEF GetFreePos, Blank
  <2> QED  BY <1>4, <2>1, <2>2, FewerBuckets DEF GetFreePos, state, history
<1>5. ASSUME NEW c \in Caller, Store(c)  PROVE IInv'
  <2> DEFINE b == Bucket(me[c])
  <2>1. pos[c] \in Pos /\ me[c] \in Shape /\ inited /\ clock \in Nat
    BY <1>0, <1>5 DEF Store, TypeOK, InTbfInit, Blank
  <2>2. /\ b \in AnyBucket /\ b.token = 0 /\ b.given = 0
        /\ b.cps \in Nat /\ b.burst \in Nat
    BY <2>1, BucketAssumption DEF Bucket, AnyBucket
  <2> HIDE DEF b
  <2>3. /\ tbf_lib' = [tbf_lib EXCEPT ![pos[c]] = b]
        /\ UNCHANGED <<inited, last_update, clock, pos, start, together>>
    BY <1>5 DEF Store, history, b
  <2>4. TypeOK'
    BY <1>0, <1>5, <2>1, <2>2, <2>3 DEF Store, TypeOK, InTbfInit, Goto
  <2>5. Sound(b, last_update)
    <3>1. last_update - start \in Nat  BY <1>0 DEF TypeOK, TimeKept
    <3>2. b.cps * (last_update - start) \in Nat  BY <2>2, <3>1
    <3> QED  BY <2>2, <3>2 DEF Sound
  <2>6. ASSUME NEW q \in Live'  PROVE Sound(tbf_lib[q], last_update)'
    <3>1. CASE q = pos[c]
      BY <1>0, <2>1, <2>3, <2>5, <3>1 DEF TypeOK, Sound
    <3>2. CASE q # pos[c]
      <4>1. q \in Live /\ tbf_lib'[q] = tbf_lib[q]
        BY <1>0, <2>3, <2>6, <3>2 DEF TypeOK, Live
      <4> QED  BY <2>3, <4>1 DEF IInv, Sound
    <3> QED  BY <3>1, <3>2
  <2> QED  BY <1>0, <2>1, <2>3, <2>4, <2>6 DEF IInv, TimeKept, Blank
<1>6. ASSUME NEW c \in Caller, TbfDestroy(c)  PROVE IInv'
  <2>1. TypeOK'  BY <1>0, <1>6 DEF TbfDestroy, TypeOK, InTbfInit, Goto, history
  <2>2. inited  BY <1>0, <1>6 DEF TbfDestroy, Blank
  <2>3. \A p \in Pos : tbf_lib'[p] \in {tbf_lib[p], NULL}
    BY <1>0, <1>6 DEF TbfDestroy, TypeOK
  <2> QED  BY <1>6, <2>1, <2>2, <2>3, FewerBuckets DEF TbfDestroy, history
<1>7. CASE UNCHANGED vars
  <2>1. TypeOK'  BY <1>0, <1>7 DEF vars, TypeOK, InTbfInit, state, history
  <2> QED  BY <1>0, <1>7, <2>1, FewerBuckets DEF vars, Blank, state, history
<1> QED
  BY <1>1, <1>2, <1>3, <1>4, <1>5, <1>6, <1>7, FetchStep DEF Next, CallerNext

LEMMA Invariant == Spec => []IInv
  BY InvInit, InvNext, PTL DEF Spec

-----------------------------------------------------------------------------
(* Whose bucket a place holds *)

\* Until two calls of tbf_init overlap: at most one is under way, the place it
\* has found is still free, and every handle is that of a bucket of its own.
OwnPlaces ==
    ~together =>
        /\ \A c, d \in Caller : InTbfInit(c) /\ InTbfInit(d) => c = d
        /\ \A c \in Caller : pc[c] = "store" => pos[c] \notin Live
        /\ \A c \in Caller : pc[c] = "open" => pos[c] \in Live
        /\ \A c, d \in Caller : pc[c] = "open" /\ pc[d] = "open" /\ pos[c] = pos[d] => c = d

\* A fetch leaves a bucket where there was one.
LEMMA FetchKeepsLive ==
  ASSUME IInv, NEW c \in Caller, NEW n \in Amount, TbfFetchToken(c, n)
  PROVE  Live' = Live
<1> DEFINE p == pos[c]
           b == tbf_lib[p]
           available == Refilled(b, clock - last_update)
           ret == Least(available, n)
           after == [b EXCEPT !.token = available - ret,
                              !.given = @ + (IF ret > 0 THEN ret ELSE 0)]
<1>1. p \in Pos /\ clock - last_update \in Int /\ tbf_lib \in [Pos -> AnyBucket \cup {NULL}]
  BY DEF IInv, TypeOK, TbfFetchToken
<1>2. CASE b = NULL
  BY <1>2 DEF TbfFetchToken, Live
<1>3. CASE b # NULL
  <2>1. b \in AnyBucket /\ b.token \in 0 .. b.burst
    BY <1>1, <1>3 DEF IInv, Live, Sound
  <2>2. available \in Int /\ n \in Nat /\ b.given \in Nat
    BY <1>1, <2>1, RefillBelow, BucketAssumption DEF AnyBucket
  <2>3. tbf_lib' = [tbf_lib EXCEPT ![p] = after]
    BY <1>3 DEF TbfFetchToken
  <2> HIDE DEF available
  <2>4. available - ret \in Int /\ b.given + (IF ret > 0 THEN ret ELSE 0) \in Nat
    BY <2>2 DEF Least
  <2> HIDE DEF ret
  <2>5. after \in AnyBucket
    BY <2>1, <2>4 DEF AnyBucket
  <2> HIDE DEF after, b
  <2>6. after # NULL
    BY <2>5, NullAssumption
  <2> QED  BY <1>1, <1>3, <2>3, <2>6 DEF Live, b
<1> QED  BY <1>2, <1>3

LEMMA OwnPlacesStep ==
  ASSUME IInv, OwnPlaces, [Next]_vars
  PROVE  OwnPlaces'
<1> USE DEF Live, InTbfInit, Goto, history
<1>0. TypeOK  BY DEF IInv
<1>1. CASE Tick \/ UNCHANGED vars
  BY <1>1 DEF Tick, vars, state, OwnPlaces
<1>2. CASE TbfDestroyAll
  BY <1>2 DEF TbfDestroyAll, OwnPlaces
<1>3. ASSUME NEW c \in Caller, TbfInit(c)  PROVE OwnPlaces'
  <2> SUFFICES ASSUME ~together'  PROVE OwnPlaces'
    BY DEF OwnPlaces
  <2>1. ~together /\ pc[c] = "idle" /\ UNCHANGED <<tbf_lib, pos>>
    BY <1>0, <1>3 DEF TbfInit, TypeOK
  <2>2. CASE UNCHANGED pc
    BY <2>1, <2>2 DEF OwnPlaces
  <2>3. CASE pc' = [pc EXCEPT ![c] = "find"] /\ \A d \in Caller : ~InTbfInit(d)
    BY <1>0, <2>1, <2>3 DEF OwnPlaces, TypeOK
  <2> QED  BY <1>0, <1>3, <2>1, <2>2, <2>3 DEF TbfInit, TypeOK
<1>4. ASSUME NEW c \in Caller, GetFreePos(c)  PROVE OwnPlaces'
  <2>1. CASE FreePlaces = {}
    <3>1. pc' = [pc EXCEPT ![c] = "idle"] /\ UNCHANGED <<tbf_lib, pos, together>>
      BY <1>4, <2>1 DEF GetFreePos, state
    <3> QED  BY <1>0, <3>1 DEF OwnPlaces, TypeOK
  <2>2. CASE FreePlaces # {}
    <3>1. PICK p \in FreePlaces : pos' = [pos EXCEPT ![c] = p]
      BY <1>4, <2>2 DEF GetFreePos
    <3>2. /\ pc[c] = "find" /\ pc' = [pc EXCEPT ![c] = "store"]
          /\ UNCHANGED <<tbf_lib, together>>
      BY <1>4, <2>2 DEF GetFreePos, state
    <3> QED  BY <1>0, <3>1, <3>2 DEF OwnPlaces, TypeOK, FreePlaces
  <2> QED  BY <2>1, <2>2
<1>5. ASSUME NEW c \in Caller, Store(c)  PROVE OwnPlaces'
  <2>1. pos[c] \in Pos /\ me[c] \in Shape
    BY <1>0, <1>5 DEF Store, TypeOK
  <2>2. Bucket(me[c]) # NULL
    <3>1. Bucket(me[c]) \in AnyBucket
      BY <2>1, BucketAssumption DEF Bucket, AnyBucket
    <3> QED  BY <3>1, NullAssumption
  <2>3. /\ tbf_lib' = [tbf_lib EXCEPT ![pos[c]] = Bucket(me[c])]
        /\ pc[c] = "store" /\ pc' = [pc EXCEPT ![c] = "open"] /\ UNCHANGED <<pos, together>>
    BY <1>5 DEF Store
  <2>4. Live' = Live \cup {pos[c]}
    BY <1>0, <2>1, <2>2, <2>3 DEF TypeOK
  <2> HIDE DEF Live
  <2> QED  BY <1>0, <2>3, <2>4 DEF OwnPlaces, TypeOK
<1>6. ASSUME NEW c \in Caller, NEW n \in Amount, TbfFetchToken(c, n)  PROVE OwnPlaces'
  <2>1. Live' = Live
    BY <1>6, FetchKeepsLive
  <2> HIDE DEF Live
  <2> QED  BY <1>6, <2>1 DEF TbfFetchToken, OwnPlaces
<1>7. ASSUME NEW c \in Caller, TbfDestroy(c)  PROVE OwnPlaces'
  <2>1. /\ pos[c] \in Pos /\ pc[c] = "open" /\ UNCHANGED together
        /\ tbf_lib' = [tbf_lib EXCEPT ![pos[c]] = NULL]
        /\ pos' = [pos EXCEPT ![c] = -1] /\ pc' = [pc EXCEPT ![c] = "idle"]
    BY <1>0, <1>7 DEF TbfDestroy, TypeOK
  <2>2. Live' = Live \ {pos[c]}
    BY <1>0, <2>1 DEF TypeOK
  <2> HIDE DEF Live
  <2> QED  BY <1>0, <2>1, <2>2 DEF OwnPlaces, TypeOK
<1> QED
  BY <1>1, <1>2, <1>3, <1>4, <1>5, <1>6, <1>7 DEF Next, CallerNext

-----------------------------------------------------------------------------
(* What all the buckets gave *)

\* Of the numbers in a set that is not empty one is the least.
Below == {p \in Nat \X Nat : p[1] < p[2]}

LEMMA Smallest ==
  ASSUME NEW S, S \subseteq Nat, S # {}
  PROVE  \E m \in S : \A n \in S : m <= n
<1>1. Below = OpToRel(<, Nat)  BY DEF Below, OpToRel
<1>2. PICK m \in S : \A n \in S : <<n, m>> \notin Below
  BY <1>1, NatLessThanWellFounded, WFMin
<1>3. ASSUME NEW n \in S  PROVE m <= n
  <2>1. m \in Nat /\ n \in Nat  OBVIOUS
  <2>2. n < m => <<n, m>> \in Below  BY <2>1 DEF Below
  <2> QED  BY <1>2, <2>1, <2>2
<1> QED  BY <1>3

Lib == [Pos -> AnyBucket \cup {NULL}]

LEMMA HoldsTyped == ASSUME NEW lib \in Lib, NEW p \in Pos  PROVE Holds(lib[p]) \in Int
<1>1. lib[p] # NULL => lib[p].given \in Int /\ lib[p].token \in Int
  BY DEF Lib, AnyBucket
<1> QED  BY <1>1 DEF Holds

\* f is the sum over the first n places, for each n up to N.
Sums(f, lib, N) ==
    f \in [0 .. N -> Int] /\ f[0] = 0 /\ \A n \in 1 .. N : f[n] = f[n - 1] + Holds(lib[n - 1])

LEMMA SumsExist ==
  ASSUME NEW lib \in Lib, NEW N \in 0 .. TBF_MAX
  PROVE  \E f : Sums(f, lib, N)
<1> DEFINE bad == {n \in 0 .. N : ~ \E f : Sums(f, lib, n)}
<1>0. TBF_MAX \in Nat /\ N \in Nat /\ N <= TBF_MAX  BY BucketAssumption
<1>1. SUFFICES ASSUME bad # {}  PROVE FALSE
  BY <1>0
<1>2. PICK n \in bad : \A k \in bad : n <= k
  <2>1. bad \subseteq Nat  BY <1>0
  <2> HIDE DEF bad
  <2> QED  BY <1>1, <2>1, Smallest
<1>3. n \in 0 .. N /\ ~ \E f : Sums(f, lib, n)  OBVIOUS
<1>4. n # 0
  <2> DEFINE f == [i \in 0 .. 0 |-> 0]
  <2>1. f \in [0 .. 0 -> Int] /\ f[0] = 0 /\ \A i \in 1 .. 0 : f[i] = f[i - 1] + Holds(lib[i - 1])
    OBVIOUS
  <2> HIDE DEF f
  <2>2. Sums(f, lib, 0)  BY <2>1 DEF Sums
  <2> QED  BY <1>3, <2>2
<1>5. n - 1 \in 0 .. N /\ ~(n <= n - 1) /\ n \in 1 .. N /\ n - 1 \in Pos /\ n - 1 \in 0 .. n - 1
  BY <1>0, <1>3, <1>4 DEF Pos
<1>6. PICK g : Sums(g, lib, n - 1)
  <2>1. n - 1 \notin bad  BY <1>2, <1>5
  <2> QED  BY <1>5, <2>1
<1>7. g \in [0 .. n - 1 -> Int] /\ g[0] = 0
      /\ \A i \in 1 .. n - 1 : g[i] = g[i - 1] + Holds(lib[i - 1])
  BY <1>6 DEF Sums
<1>8. g[n - 1] + Holds(lib[n - 1]) \in Int
  <2>1. g[n - 1] \in Int  BY <1>5, <1>7
  <2> QED  BY <1>5, <2>1, HoldsTyped
<1> DEFINE f == [i \in 0 .. n |-> IF i = n THEN g[n - 1] + Holds(lib[n - 1]) ELSE g[i]]
<1>9. f \in [0 .. n -> Int] /\ f[0] = 0
  BY <1>5, <1>7, <1>8
<1>10. ASSUME NEW i \in 1 .. n  PROVE f[i] = f[i - 1] + Holds(lib[i - 1])
  <2>1. i \in 0 .. n /\ i - 1 \in 0 .. n /\ i - 1 # n /\ f[i - 1] = g[i - 1]  BY <1>5
  <2>2. CASE i = n  BY <2>1, <2>2
  <2>3. CASE i # n
    <3>1. i \in 1 .. n - 1 /\ f[i] = g[i]  BY <1>5, <2>1, <2>3
    <3> HIDE DEF f
    <3> QED  BY <1>7, <2>1, <3>1
  <2> QED  BY <2>2, <2>3
<1> HIDE DEF f
<1>11. Sums(f, lib, n)  BY <1>9, <1>10 DEF Sums
<1> QED  BY <1>3, <1>11

LEMMA UptoSums ==
  ASSUME NEW lib \in Lib
  PROVE  Sums(Upto(lib), lib, TBF_MAX)
<1> DEFINE e(f, n) == IF n = 0 THEN 0 ELSE f[n - 1] + Holds(lib[n - 1])
           u == Upto(lib)
<1>1. TBF_MAX \in Nat /\ TBF_MAX \in 0 .. TBF_MAX  BY BucketAssumption
<1>2. PICK f : Sums(f, lib, TBF_MAX)  BY <1>1, SumsExist
<1>3. f = [n \in 0 .. TBF_MAX |-> e(f, n)]
  <2>1. ASSUME NEW n \in 0 .. TBF_MAX  PROVE f[n] = e(f, n)
    <3>1. n = 0 \/ n \in 1 .. TBF_MAX  BY <1>1
    <3> QED  BY <1>1, <1>2, <3>1 DEF Sums
  <2>2. f = [n \in 0 .. TBF_MAX |-> f[n]]  BY <1>2 DEF Sums
  <2> HIDE DEF e
  <2> QED  BY <2>1, <2>2
<1>4. u = CHOOSE g : g = [n \in 0 .. TBF_MAX |-> e(g, n)]  BY DEF Upto
<1>5. u = [n \in 0 .. TBF_MAX |-> e(u, n)]
  <2> HIDE DEF e, u
  <2> QED  BY <1>3, <1>4
<1>6. \A n \in 0 .. TBF_MAX : u[n] = e(u, n)
  <2> HIDE DEF e, u
  <2> QED  BY <1>5
<1> HIDE DEF u
<1>7. u[0] = 0 /\ \A n \in 1 .. TBF_MAX : u[n] = u[n - 1] + Holds(lib[n - 1])
  <2>1. 0 \in 0 .. TBF_MAX /\ \A n \in 1 .. TBF_MAX : n \in 0 .. TBF_MAX /\ n # 0  BY <1>1
  <2> QED  BY <1>6, <2>1
<1>8. \A n \in 0 .. TBF_MAX : u[n] = f[n]
  <2> DEFINE bad == {n \in 0 .. TBF_MAX : u[n] # f[n]}
  <2>0. SUFFICES ASSUME bad # {}  PROVE FALSE  OBVIOUS
  <2>1. PICK n \in bad : \A k \in bad : n <= k
    <3>1. bad \subseteq Nat  BY <1>1
    <3> HIDE DEF bad
    <3> QED  BY <2>0, <3>1, Smallest
  <2>2. n \in 0 .. TBF_MAX /\ u[n] # f[n]  OBVIOUS
  <2>3. n \in 1 .. TBF_MAX /\ n - 1 \in 0 .. TBF_MAX /\ ~(n <= n - 1)
    <3>1. n # 0  BY <1>2, <1>7, <2>2 DEF Sums
    <3> QED  BY <1>1, <2>2, <3>1
  <2>4. u[n - 1] = f[n - 1]  BY <2>1, <2>3
  <2> QED  BY <1>2, <1>7, <2>2, <2>3, <2>4 DEF Sums
<1>9. u = [n \in 0 .. TBF_MAX |-> u[n]]
  <2> HIDE DEF e
  <2> QED  BY <1>5
<1>10. u \in [0 .. TBF_MAX -> Int]  BY <1>2, <1>8, <1>9 DEF Sums
<1> QED  BY <1>7, <1>10 DEF Sums, u

\* Another library that holds no more at any place, but `more' at place p, holds
\* no more in all, but `more'.
LEMMA SumsBelow ==
  ASSUME NEW lib \in Lib, NEW new \in Lib, NEW p \in Pos, NEW more \in Int,
         \A q \in Pos \ {p} : Holds(new[q]) <= Holds(lib[q]),
         Holds(new[p]) <= Holds(lib[p]) + more
  PROVE  /\ AllTokens(new) <= AllTokens(lib) + more
         /\ AllTokens(new) \in Int /\ AllTokens(lib) \in Int
<1> DEFINE u == Upto(lib)
           v == Upto(new)
           Right(n) == v[n] <= u[n] + (IF n <= p THEN 0 ELSE more)
           bad == {n \in 0 .. TBF_MAX : ~Right(n)}
<1>1. TBF_MAX \in Nat /\ p \in 0 .. TBF_MAX - 1  BY BucketAssumption DEF Pos
<1>2. Sums(u, lib, TBF_MAX) /\ Sums(v, new, TBF_MAX)  BY UptoSums
<1> HIDE DEF u, v
<1>3. /\ \A n \in 0 .. TBF_MAX : u[n] \in Int /\ v[n] \in Int
      /\ u[0] = 0 /\ v[0] = 0
      /\ \A n \in 1 .. TBF_MAX : /\ u[n] = u[n - 1] + Holds(lib[n - 1])
                                 /\ v[n] = v[n - 1] + Holds(new[n - 1])
  BY <1>2 DEF Sums
<1>4. bad = {}
  <2>0. SUFFICES ASSUME bad # {}  PROVE FALSE  OBVIOUS
  <2>1. PICK n \in bad : \A k \in bad : n <= k
    <3>1. bad \subseteq Nat  BY <1>1
    <3> HIDE DEF bad
    <3> QED  BY <2>0, <3>1, Smallest
  <2>2. n \in 0 .. TBF_MAX /\ ~Right(n)  OBVIOUS
  <2>3. n # 0  BY <1>1, <1>3, <2>2
  <2>4. /\ n \in 1 .. TBF_MAX /\ n - 1 \in 0 .. TBF_MAX /\ ~(n <= n - 1) /\ n - 1 \in Pos
    BY <1>1, <2>2, <2>3 DEF Pos
  <2>5. Right(n - 1)  BY <2>1, <2>4
  <2>6. /\ u[n] = u[n - 1] + Holds(lib[n - 1]) /\ v[n] = v[n - 1] + Holds(new[n - 1])
        /\ u[n - 1] \in Int /\ v[n - 1] \in Int
        /\ Holds(lib[n - 1]) \in Int /\ Holds(new[n - 1]) \in Int
    BY <1>3, <2>4, HoldsTyped
  <2>7. CASE n - 1 = p
    <3>1. n - 1 <= p /\ ~(n <= p)  BY <1>1, <2>4, <2>7
    <3>2. v[n - 1] <= u[n - 1]  BY <2>5, <2>6, <3>1
    <3>3. v[n] <= u[n] + more  BY <2>6, <2>7, <3>2
    <3> QED  BY <2>2, <3>1, <3>3
  <2>8. CASE n - 1 # p
    <3>1. Holds(new[n - 1]) <= Holds(lib[n - 1])  BY <2>4, <2>8
    <3>2. n - 1 <= p <=> n <= p  BY <1>1, <2>4, <2>8
    <3>3. CASE n <= p
      <4>1. v[n - 1] <= u[n - 1]  BY <2>5, <2>6, <3>2, <3>3
      <4>2. v[n] <= u[n] + 0  BY <2>6, <3>1, <4>1
      <4> QED  BY <2>2, <3>3, <4>2
    <3>4. CASE ~(n <= p)
      <4>1. v[n - 1] <= u[n - 1] + more  BY <2>5, <3>2, <3>4
      <4>2. v[n] <= u[n] + more  BY <2>6, <3>1, <4>1
      <4> QED  BY <2>2, <3>4, <4>2
    <3> QED  BY <3>3, <3>4
  <2> QED  BY <2>7, <2>8
<1>5. TBF_MAX \in 0 .. TBF_MAX /\ ~(TBF_MAX <= p)  BY <1>1
<1>6. Right(TBF_MAX)  BY <1>4, <1>5
<1> QED  BY <1>3, <1>5, <1>6 DEF AllTokens, u, v

\* No bucket is faster than `rate', and together they keep it.
Shared(rate) ==
    /\ \A p \in Live : tbf_lib[p].cps <= rate
    /\ AllTokens(tbf_lib) <= rate * (last_update - start)

Enough(rate) == \A shape \in Shape : shape.cps <= rate

\* A bucket that is asked gets no more than its rate makes of the seconds that
\* last_update moves on by.
LEMMA FetchTakes ==
  ASSUME IInv, NEW c \in Caller, NEW n \in Amount, TbfFetchToken(c, n), tbf_lib[pos[c]] # NULL
  PROVE  /\ pos[c] \in Pos /\ tbf_lib[pos[c]] \in AnyBucket
         /\ last_update' - last_update \in Nat
         /\ tbf_lib'[pos[c]].cps = tbf_lib[pos[c]].cps
         /\ Holds(tbf_lib'[pos[c]])
              <= Holds(tbf_lib[pos[c]]) + tbf_lib[pos[c]].cps * (last_update' - last_update)
         /\ \A q \in Pos \ {pos[c]} : tbf_lib'[q] = tbf_lib[q]
<1> DEFINE p == pos[c]
           b == tbf_lib[p]
           seconds == clock - last_update
           available == Refilled(b, seconds)
           ret == Least(available, n)
           after == [b EXCEPT !.token = available - ret,
                              !.given = @ + (IF ret > 0 THEN ret ELSE 0)]
<1>1. /\ p \in Pos /\ last_update \in Nat /\ clock \in Nat /\ start \in Nat
      /\ tbf_lib \in [Pos -> AnyBucket \cup {NULL}]
  BY DEF IInv, TypeOK, TbfFetchToken
<1>2. b \in AnyBucket /\ b.token \in 0 .. b.burst /\ b # NULL
  BY <1>1 DEF IInv, Live, Sound
<1>3. b.cps \in Nat /\ b.burst \in Nat /\ b.given \in Nat /\ b.token \in Nat /\ n \in Nat \ {0}
  BY <1>2, BucketAssumption DEF AnyBucket
<1>4. last_update' = Updated(clock) /\ tbf_lib' = [tbf_lib EXCEPT ![p] = after]
  BY <1>2 DEF TbfFetchToken
<1>5. last_update' - last_update = (IF seconds > 0 THEN seconds ELSE 0) /\ seconds \in Int
  BY <1>1, <1>4 DEF Updated
<1>6. available \in Int /\ available <= b.burst
      /\ (seconds <= 0 => available = b.token)
      /\ (seconds > 0 => available <= b.token + b.cps * seconds)
  BY <1>1, <1>2, RefillBelow
<1>7. tbf_lib'[p] = after /\ \A q \in Pos \ {p} : tbf_lib'[q] = tbf_lib[q]
  <2> HIDE DEF after
  <2> QED  BY <1>1, <1>4
<1> HIDE DEF available
<1>8. ret \in Int /\ (ret > 0 \/ ret = available)
  BY <1>3, <1>6 DEF Least
<1> HIDE DEF ret
<1>9. /\ after.cps = b.cps /\ after.token = available - ret
      /\ after.given = b.given + (IF ret > 0 THEN ret ELSE 0) /\ after \in AnyBucket
  <2>1. available - ret \in Int /\ b.given + (IF ret > 0 THEN ret ELSE 0) \in Nat
    BY <1>3, <1>6, <1>8
  <2> QED  BY <1>2, <2>1 DEF AnyBucket
<1> HIDE DEF after
<1>10. after # NULL  BY <1>9, NullAssumption
<1> DEFINE made == b.cps * (last_update' - last_update)
<1>11. made \in Nat /\ available <= b.token + made
  <2>1. CASE seconds > 0
    <3>1. made = b.cps * seconds  BY <1>5, <2>1
    <3>2. b.cps * seconds \in Nat  BY <1>3, <1>5, <2>1
    <3> QED  BY <1>6, <2>1, <3>1, <3>2
  <2>2. CASE ~(seconds > 0)
    <3>1. made = b.cps * 0  BY <1>5, <2>2
    <3>2. made = 0 /\ available = b.token  BY <1>3, <1>5, <1>6, <2>2, <3>1
    <3> QED  BY <1>3, <3>2
  <2> QED  BY <2>1, <2>2
<1> HIDE DEF made
<1>12. after.given + after.token <= b.given + b.token + made
  BY <1>3, <1>6, <1>8, <1>9, <1>11
<1>13. Holds(after) = after.given + after.token /\ Holds(b) = b.given + b.token
  BY <1>2, <1>10 DEF Holds
<1>14. last_update' - last_update \in Nat  BY <1>5
<1> QED  BY <1>1, <1>2, <1>7, <1>9, <1>12, <1>13, <1>14 DEF made

LEMMA SharedFetch ==
  ASSUME IInv, IInv', NEW rate \in 0 .. IntMax, Shared(rate),
         NEW c \in Caller, NEW n \in Amount, TbfFetchToken(c, n)
  PROVE  Shared(rate)'
<1> DEFINE p == pos[c]
           b == tbf_lib[p]
<1>1. CASE b = NULL
  BY <1>1 DEF TbfFetchToken, Shared, Live
<1>2. CASE b # NULL
  <2> DEFINE later == last_update' - last_update
  <2>1. /\ p \in Pos /\ b \in AnyBucket /\ later \in Nat
        /\ tbf_lib'[p].cps = b.cps /\ Holds(tbf_lib'[p]) <= Holds(b) + b.cps * later
        /\ \A q \in Pos \ {p} : tbf_lib'[q] = tbf_lib[q]
    BY <1>2, FetchTakes
  <2>2. b.cps \in Nat /\ b.cps <= rate /\ rate \in Nat
    BY <1>2, <2>1, BucketAssumption DEF AnyBucket, Shared, Live
  <2>3. \A q \in Live' : tbf_lib'[q].cps <= rate
    BY <2>1, <2>2 DEF Live, Shared
  <2>4. tbf_lib \in Lib /\ tbf_lib' \in Lib /\ last_update \in Nat /\ last_update' \in Nat /\ start \in Nat
        /\ start' = start
    BY DEF IInv, TypeOK, Lib, TbfFetchToken
  <2>5. b.cps * later <= rate * later /\ b.cps * later \in Int /\ rate * later \in Int
    <3> HIDE DEF later, b
    <3> QED  BY <2>1, <2>2
  <2>6. Holds(tbf_lib'[p]) <= Holds(tbf_lib[p]) + rate * later
    <3>1. Holds(tbf_lib'[p]) \in Int /\ Holds(b) \in Int  BY <2>1, <2>4, HoldsTyped
    <3> HIDE DEF later
    <3> QED  BY <2>1, <2>5, <3>1
  <2>7. \A q \in Pos \ {p} : Holds(tbf_lib'[q]) <= Holds(tbf_lib[q])
    <3> SUFFICES ASSUME NEW q \in Pos \ {p}  PROVE Holds(tbf_lib'[q]) <= Holds(tbf_lib[q])
      OBVIOUS
    <3>1. Holds(tbf_lib[q]) \in Int  BY <2>4, HoldsTyped
    <3> QED  BY <2>1, <3>1
  <2>8. AllTokens(tbf_lib') <= AllTokens(tbf_lib) + rate * later
        /\ AllTokens(tbf_lib') \in Int /\ AllTokens(tbf_lib) \in Int
    <3> HIDE DEF later
    <3> QED  BY <2>1, <2>4, <2>5, <2>6, <2>7, SumsBelow
  <2>9. rate * (last_update' - start) = rate * (last_update - start) + rate * later
        /\ rate * (last_update - start) \in Int
    BY <2>2, <2>4
  <2>10. AllTokens(tbf_lib') <= rate * (last_update' - start')
    <3>1. AllTokens(tbf_lib) <= rate * (last_update - start)  BY DEF Shared
    <3> HIDE DEF later
    <3> QED  BY <2>4, <2>5, <2>8, <2>9, <3>1
  <2> QED  BY <2>3, <2>10 DEF Shared
<1> QED  BY <1>1, <1>2

\* Fewer buckets, or new ones that have given nothing yet, hold no more.
LEMMA SharedFewer ==
  ASSUME IInv, IInv', NEW rate \in 0 .. IntMax, Shared(rate), UNCHANGED <<last_update, start>>,
         \A q \in Pos : \/ tbf_lib'[q] \in {tbf_lib[q], NULL}
                        \/ tbf_lib'[q].cps <= rate /\ Holds(tbf_lib'[q]) = 0
  PROVE  Shared(rate)'
<1>1. tbf_lib \in Lib /\ tbf_lib' \in Lib
  BY DEF IInv, TypeOK, Lib
<1>2. ASSUME NEW q \in Pos  PROVE Holds(tbf_lib'[q]) <= Holds(tbf_lib[q])
  <2>1. Holds(tbf_lib[q]) >= 0
    <3>1. CASE tbf_lib[q] = NULL  BY <3>1 DEF Holds
    <3>2. CASE tbf_lib[q] # NULL
      <4>1. tbf_lib[q] \in AnyBucket /\ tbf_lib[q].token \in 0 .. tbf_lib[q].burst
        BY <1>1, <3>2 DEF IInv, Live, Sound, Lib
      <4>2. tbf_lib[q].given \in Nat /\ tbf_lib[q].token \in Nat
        BY <4>1, BucketAssumption DEF AnyBucket
      <4> QED  BY <3>2, <4>2 DEF Holds
    <3> QED  BY <3>1, <3>2
  <2>2. Holds(tbf_lib[q]) \in Int /\ Holds(NULL) = 0  BY <1>1, HoldsTyped DEF Holds
  <2> QED  BY <2>1, <2>2
<1>3. 0 \in Pos  BY BucketAssumption DEF Pos
<1>4. AllTokens(tbf_lib') <= AllTokens(tbf_lib) + 0
      /\ AllTokens(tbf_lib') \in Int /\ AllTokens(tbf_lib) \in Int
  <2>1. Holds(tbf_lib'[0]) <= Holds(tbf_lib[0]) + 0
    <3>1. Holds(tbf_lib[0]) \in Int  BY <1>1, <1>3, HoldsTyped
    <3> QED  BY <1>2, <1>3, <3>1
  <2>2. 0 \in Int  OBVIOUS
  <2> QED  BY <1>1, <1>2, <1>3, <2>1, <2>2, SumsBelow
<1>5. last_update \in Int /\ start \in Int /\ rate \in Int
  BY DEF IInv, TypeOK
<1>6. AllTokens(tbf_lib') <= rate * (last_update' - start')
  <2>1. AllTokens(tbf_lib) <= rate * (last_update - start) /\ rate * (last_update - start) \in Int
    BY <1>5 DEF Shared
  <2>2. rate * (last_update' - start') = rate * (last_update - start)  OBVIOUS
  <2> QED  BY <1>4, <2>1, <2>2
<1>7. \A q \in Live' : tbf_lib'[q].cps <= rate
  BY DEF Shared, Live
<1> QED  BY <1>6, <1>7 DEF Shared

\* Without a bucket nothing is held.
LEMMA NothingHeld ==
  ASSUME NEW lib \in Lib, \A p \in Pos : lib[p] = NULL
  PROVE  AllTokens(lib) = 0
<1> DEFINE u == Upto(lib)
           bad == {n \in 0 .. TBF_MAX : u[n] # 0}
<1>1. TBF_MAX \in Nat  BY BucketAssumption
<1>2. Sums(u, lib, TBF_MAX)  BY UptoSums
<1> HIDE DEF u
<1>3. bad = {}
  <2>0. SUFFICES ASSUME bad # {}  PROVE FALSE  OBVIOUS
  <2>1. PICK n \in bad : \A k \in bad : n <= k
    <3>1. bad \subseteq Nat  BY <1>1
    <3> HIDE DEF bad
    <3> QED  BY <2>0, <3>1, Smallest
  <2>2. n \in 0 .. TBF_MAX /\ u[n] # 0  OBVIOUS
  <2>3. n # 0  BY <1>2, <2>2 DEF Sums
  <2>4. n \in 1 .. TBF_MAX /\ n - 1 \in 0 .. TBF_MAX /\ ~(n <= n - 1) /\ n - 1 \in Pos
    BY <1>1, <2>2, <2>3 DEF Pos
  <2>5. u[n - 1] = 0 /\ Holds(lib[n - 1]) = 0  BY <2>1, <2>4 DEF Holds
  <2> QED  BY <1>2, <2>2, <2>4, <2>5 DEF Sums
<1> QED  BY <1>1, <1>3 DEF AllTokens, u

LEMMA SharedNext ==
  ASSUME IInv, IInv', NEW rate \in 0 .. IntMax, Enough(rate), Shared(rate), [Next]_vars
  PROVE  Shared(rate)'
<1>1. CASE Tick \/ UNCHANGED vars
  BY <1>1, SharedFewer DEF Tick, vars, state, history
<1>2. CASE TbfDestroyAll
  BY <1>2, SharedFewer DEF TbfDestroyAll, history
<1>3. ASSUME NEW c \in Caller, TbfInit(c)  PROVE Shared(rate)'
  <2>1. tbf_lib' = tbf_lib  BY <1>3 DEF TbfInit
  <2>2. CASE inited
    BY <1>3, <2>1, <2>2, SharedFewer DEF TbfInit
  <2>3. CASE ~inited
    <3>1. last_update' = clock /\ start' = clock /\ clock \in Nat /\ Live = {}
      BY <1>3, <2>3 DEF TbfInit, IInv, TypeOK, Blank
    <3>2. tbf_lib \in Lib /\ \A p \in Pos : tbf_lib[p] = NULL
      BY <3>1 DEF IInv, TypeOK, Lib, Live
    <3>3. AllTokens(tbf_lib') = 0  BY <2>1, <3>2, NothingHeld
    <3>4. rate * (last_update' - start') = 0
      <4>1. last_update' - start' = 0  BY <3>1
      <4> QED  BY <4>1
    <3>5. Live' = {}  BY <2>1, <3>1 DEF Live
    <3> QED  BY <3>3, <3>4, <3>5 DEF Shared
  <2> QED  BY <2>2, <2>3
<1>4. ASSUME NEW c \in Caller, GetFreePos(c)  PROVE Shared(rate)'
  BY <1>4, SharedFewer DEF GetFreePos, state, history
<1>5. ASSUME NEW c \in Caller, Store(c)  PROVE Shared(rate)'
  <2>1. pos[c] \in Pos /\ me[c] \in Shape /\ tbf_lib \in [Pos -> AnyBucket \cup {NULL}]
    BY <1>5 DEF Store, IInv, TypeOK, InTbfInit
  <2>2. /\ Bucket(me[c]) \in AnyBucket /\ Bucket(me[c]).cps <= rate
        /\ Bucket(me[c]).given = 0 /\ Bucket(me[c]).token = 0
    BY <2>1, BucketAssumption DEF Bucket, AnyBucket, Enough
  <2>3. Holds(Bucket(me[c])) = 0
    BY <2>2, NullAssumption DEF Holds
  <2>4. tbf_lib' = [tbf_lib EXCEPT ![pos[c]] = Bucket(me[c])] /\ UNCHANGED <<last_update, start>>
    BY <1>5 DEF Store, history
  <2>5. \A q \in Pos : \/ tbf_lib'[q] \in {tbf_lib[q], NULL}
                       \/ tbf_lib'[q].cps <= rate /\ Holds(tbf_lib'[q]) = 0
    BY <2>1, <2>2, <2>3, <2>4
  <2> QED  BY <2>4, <2>5, SharedFewer
<1>6. ASSUME NEW c \in Caller, TbfDestroy(c)  PROVE Shared(rate)'
  <2>1. \A p \in Pos : tbf_lib'[p] \in {tbf_lib[p], NULL}
    BY <1>6 DEF TbfDestroy, IInv, TypeOK
  <2> QED  BY <1>6, <2>1, SharedFewer DEF TbfDestroy, history
<1> QED
  BY <1>1, <1>2, <1>3, <1>4, <1>5, <1>6, SharedFetch DEF Next, CallerNext

-----------------------------------------------------------------------------
(* The theorems *)

\* Types hold: a caller that fetches or destroys has a place in the array
\* (tbf_init returns one, and __get_free_pos looks at no other).
THEOREM TypeCorrect == Spec => []TypeOK
<1>1. IInv => TypeOK  BY DEF IInv
<1> QED  BY <1>1, Invariant, PTL

\* A bucket's tokens stay within its burst, whatever the width of an int: an
\* overflow can lose a refill and never makes a burst larger or a debt.
THEOREM TokensBounded == Spec => []TokenWithinBurst
<1>1. IInv => TokenWithinBurst  BY DEF IInv, TokenWithinBurst, Sound
<1> QED  BY <1>1, Invariant, PTL

\* No bucket ever gives more than its rate makes in the time from the first
\* tbf_init to the last refill, however callers interleave and however the time
\* of day is set.
THEOREM RateKept == Spec => []RateLimited
<1>1. IInv => RateLimited  BY DEF IInv, RateLimited, Sound
<1> QED  BY <1>1, Invariant, PTL

\* As long as calls of tbf_init do not overlap, a caller's handle is that of a
\* live bucket and of no other caller's, whoever else makes, uses and destroys
\* buckets, until everybody's are destroyed (__get_free_pos, tbf_destroy).
THEOREM HandlesAreOwn == Spec => []OwnBucket
<1>1. Init => OwnPlaces
  BY DEF Init, OwnPlaces, InTbfInit
<1>2. IInv /\ OwnPlaces /\ [Next]_vars => OwnPlaces'
  BY OwnPlacesStep
<1>3. OwnPlaces => OwnBucket
  BY DEF OwnPlaces, OwnBucket
<1> QED  BY <1>1, <1>2, <1>3, Invariant, PTL DEF Spec

\* All the buckets together keep the rate of the fastest one from the first
\* tbf_init on, for any number of buckets, any shapes and any course of the time
\* of day: each second that last_update moves on by is made up for once, in the
\* bucket that asks (tbf_fetch_token), and none of it is held twice.
THEOREM RateShared == Spec => []SharedRate
<1> DEFINE All == \A rate \in 0 .. IntMax : Enough(rate) => Shared(rate)
<1>1. Init => All
  <2> SUFFICES ASSUME Init, NEW rate \in 0 .. IntMax  PROVE Shared(rate)
    OBVIOUS
  <2>1. tbf_lib \in Lib /\ (\A p \in Pos : tbf_lib[p] = NULL) /\ Live = {}
    BY DEF Init, Lib, Live
  <2>2. AllTokens(tbf_lib) = 0  BY <2>1, NothingHeld
  <2>3. rate * (last_update - start) = 0  BY DEF Init
  <2> QED  BY <2>1, <2>2, <2>3 DEF Shared
<1>2. IInv /\ IInv' /\ All /\ [Next]_vars => All'
  <2> SUFFICES ASSUME IInv, IInv', All, [Next]_vars, NEW rate \in 0 .. IntMax, Enough(rate)
               PROVE  Shared(rate)'
    BY DEF Enough
  <2> QED  BY SharedNext
<1>3. All => SharedRate
  BY DEF Enough, Shared, SharedRate
<1> QED  BY <1>1, <1>2, <1>3, Invariant, PTL DEF Spec
=============================================================================
