-------------------------- MODULE ThreadPoolProofs --------------------------
(***************************************************************************)
(* What holds of server/pool for every number of threads, of callers and   *)
(* every capacity, in six parts.                                           *)
(*   1. The circular array: what queue_enter and queue_deq do to the       *)
(*      sequence it stands for.                                            *)
(*   2. Types, the order of the tasks and the refinement of Dispatcher:    *)
(*      TypeCorrect is inductive by itself (the lemmas follow each kind of *)
(*      thread through the types of the control, ControlOK, and of the     *)
(*      memory, MemoryOK); the others need only types and what a step does *)
(*      to the queue (QueueStep).                                          *)
(*   3. Whose slot is whose (Slots).                                       *)
(*   4. Why a worker that dequeues finds a task (Sense).                   *)
(*   5. No wake-up is lost, of workers or of callers (Wakes).              *)
(*   6. Admin does not miss the first growth (FirstThreads).               *)
(***************************************************************************)
EXTENDS ThreadPool, Integers, Sequences, FiniteSetTheorems, TLAPS

-----------------------------------------------------------------------------
(* 1. The circular array, whatever its capacity: the indices wrap, the      *)
(* sequence does not.                                                       *)

\* An index below twice the capacity, brought back into the array.
LEMMA ModBelow == ASSUME NEW x \in Nat, x < QueueSize PROVE x % QueueSize = x
  BY QueueSizeAssumption

LEMMA ModAbove == ASSUME NEW x \in Nat, x >= QueueSize, x < 2 * QueueSize
                  PROVE x % QueueSize = x - QueueSize
  BY QueueSizeAssumption

Ring(S) == [arr : [Cell -> S], front : Cell, tail : Cell]

\* How many elements there are, without the modulus.
Span(q) == IF q.tail >= q.front THEN q.tail - q.front ELSE q.tail + QueueSize - q.front

\* The cell k places after the front.
At(q, k) == IF q.front + k < QueueSize THEN q.front + k ELSE q.front + k - QueueSize

LEMMA AfterCell ==
  ASSUME NEW c \in Cell
  PROVE  After(c) \in Cell /\ After(c) = IF c + 1 = QueueSize THEN 0 ELSE c + 1
  BY QueueSizeAssumption, ModBelow, ModAbove DEF After, Cell

LEMMA LengthIsSpan ==
  ASSUME NEW S, NEW q \in Ring(S)
  PROVE  /\ QueueLength(q) = Span(q) /\ Span(q) \in 0 .. QueueSize - 1
         /\ queue_empty(q) <=> Span(q) = 0
         /\ queue_full(q) <=> Span(q) = QueueSize - 1
<1>1. q.front \in Cell /\ q.tail \in Cell  BY DEF Ring
<1>2. QueueLength(q) = Span(q)
  BY <1>1, QueueSizeAssumption, ModBelow, ModAbove DEF QueueLength, Span, Cell
<1>3. Span(q) \in 0 .. QueueSize - 1 /\ (queue_empty(q) <=> Span(q) = 0)
  BY <1>1, QueueSizeAssumption DEF Span, Cell, queue_empty
<1>4. queue_full(q) <=> Span(q) = QueueSize - 1
  BY <1>1, AfterCell, QueueSizeAssumption DEF Span, Cell, queue_full
<1> QED  BY <1>2, <1>3, <1>4

LEMMA ContentsAt ==
  ASSUME NEW S, NEW q \in Ring(S)
  PROVE  /\ QueueContents(q) \in Seq(S) /\ Len(QueueContents(q)) = Span(q)
         /\ \A k \in 1 .. Span(q) : /\ At(q, k - 1) \in Cell
                                    /\ QueueContents(q)[k] = q.arr[At(q, k - 1)]
<1>1. q.front \in Cell /\ q.tail \in Cell /\ q.arr \in [Cell -> S]  BY DEF Ring
<1>2. QueueLength(q) = Span(q) /\ Span(q) \in 0 .. QueueSize - 1  BY LengthIsSpan
<1>3. ASSUME NEW k \in 1 .. Span(q)
      PROVE  /\ At(q, k - 1) \in Cell
             /\ (q.front + k - 1) % QueueSize = At(q, k - 1)
  <2> DEFINE x == q.front + k - 1
  <2>1. x \in Nat /\ x < 2 * QueueSize /\ q.front + (k - 1) = x
    BY <1>1, <1>2, QueueSizeAssumption DEF Cell
  <2>2. At(q, k - 1) = IF x < QueueSize THEN x ELSE x - QueueSize
    BY <1>1, <2>1, QueueSizeAssumption DEF At, Cell
  <2>3. x % QueueSize = IF x < QueueSize THEN x ELSE x - QueueSize
    BY <2>1, QueueSizeAssumption, ModBelow, ModAbove
  <2>4. (IF x < QueueSize THEN x ELSE x - QueueSize) \in Cell
    BY <2>1, QueueSizeAssumption DEF Cell
  <2> QED  BY <2>2, <2>3, <2>4
<1>4. QueueContents(q) = [k \in 1 .. Span(q) |-> q.arr[At(q, k - 1)]]
  BY <1>2, <1>3 DEF QueueContents
<1>5. QueueContents(q) \in Seq(S) /\ Len(QueueContents(q)) = Span(q)
  BY <1>1, <1>2, <1>3, <1>4
<1> QED  BY <1>3, <1>4, <1>5

\* A new queue is the empty sequence.
LEMMA InitContents ==
  ASSUME NEW S, NoTask \in S
  PROVE  queue_init \in Ring(S) /\ QueueContents(queue_init) = <<>>
<1>1. queue_init \in Ring(S)
  BY QueueSizeAssumption DEF queue_init, Ring, Cell
<1>2. Span(queue_init) = 0  BY DEF Span, queue_init
<1> QED  BY <1>1, <1>2, ContentsAt

\* queue_enter appends, unless the queue is full.
LEMMA EnterAppends ==
  ASSUME NEW S, NEW q \in Ring(S), NEW x \in S, ~queue_full(q)
  PROVE  /\ queue_enter(q, x) \in Ring(S)
         /\ QueueContents(queue_enter(q, x)) = Append(QueueContents(q), x)
<1> DEFINE r == queue_enter(q, x)
<1>1. q.front \in Cell /\ q.tail \in Cell /\ q.arr \in [Cell -> S]  BY DEF Ring
<1>2. /\ r.front = q.front /\ r.tail = After(q.tail)
      /\ r.arr = [q.arr EXCEPT ![q.tail] = x] /\ r \in Ring(S)
  BY <1>1, AfterCell DEF queue_enter, Ring
<1>3. Span(q) \in 0 .. QueueSize - 2
  BY LengthIsSpan, QueueSizeAssumption
<1>a. r.tail = IF q.tail + 1 = QueueSize THEN 0 ELSE q.tail + 1
  BY <1>1, <1>2, AfterCell
<1>b. Span(r) = Span(q) + 1
  BY SMTT(20), <1>1, <1>2, <1>3, <1>a, QueueSizeAssumption DEF Span, Cell
<1>c. At(q, Span(q)) = q.tail
  BY <1>1, QueueSizeAssumption DEF Span, At, Cell
<1>4. Span(r) = Span(q) + 1 /\ At(q, Span(q)) = q.tail
  BY <1>b, <1>c
<1>5. \A k \in 1 .. Span(q) : At(r, k - 1) = At(q, k - 1) /\ At(q, k - 1) # q.tail
  BY SMTT(20), <1>1, <1>2, <1>3, QueueSizeAssumption DEF Span, At, Cell
<1>6. At(r, Span(q)) = q.tail  BY <1>2, <1>4 DEF At
<1>7. \A k \in 1 .. Span(q) + 1 : QueueContents(r)[k] = Append(QueueContents(q), x)[k]
  BY <1>1, <1>2, <1>3, <1>4, <1>5, <1>6, ContentsAt
<1> QED  BY <1>2, <1>3, <1>4, <1>7, ContentsAt

\* queue_deq takes the head and leaves the tail, unless the queue is empty.
LEMMA DeqTakesHead ==
  ASSUME NEW S, NEW q \in Ring(S), NEW old, ~queue_empty(q)
  PROVE  /\ queue_deq(q) \in Ring(S)
         /\ QueueContents(q) # <<>>
         /\ queue_deq_data(q, old) = Head(QueueContents(q))
         /\ QueueContents(queue_deq(q)) = Tail(QueueContents(q))
<1> DEFINE r == queue_deq(q)
<1>1. q.front \in Cell /\ q.tail \in Cell /\ q.arr \in [Cell -> S]  BY DEF Ring
<1>2. r.front = After(q.front) /\ r.tail = q.tail /\ r.arr = q.arr /\ r \in Ring(S)
  BY <1>1, AfterCell DEF queue_deq, Ring
<1>3. Span(q) \in 1 .. QueueSize - 1  BY LengthIsSpan, QueueSizeAssumption
<1>a. r.front = IF q.front + 1 = QueueSize THEN 0 ELSE q.front + 1
  BY <1>1, <1>2, AfterCell
<1>4. Span(r) = Span(q) - 1
  BY SMTT(20), <1>1, <1>2, <1>3, <1>a, QueueSizeAssumption DEF Span, Cell
<1>5. ASSUME NEW k \in 1 .. Span(r)  PROVE At(r, k - 1) = At(q, k)
  BY <1>1, <1>3, <1>4, <1>a, QueueSizeAssumption DEF At, Cell
<1>6. At(q, 0) = q.front  BY <1>1, QueueSizeAssumption DEF At, Cell
<1>7. /\ QueueContents(q) \in Seq(S) /\ Len(QueueContents(q)) = Span(q)
      /\ QueueContents(q)[1] = q.arr[q.front]
  BY <1>3, <1>6, ContentsAt
<1>8. ASSUME NEW k \in 1 .. Span(r)
      PROVE  QueueContents(r)[k] = Tail(QueueContents(q))[k]
  <2>1. QueueContents(r)[k] = q.arr[At(q, k)]
    BY <1>2, <1>5, ContentsAt
  <2>2. k + 1 \in 1 .. Span(q) /\ (k + 1) - 1 = k
    BY <1>3, <1>4, QueueSizeAssumption
  <2>3. QueueContents(q)[k + 1] = q.arr[At(q, k)]
    BY <2>2, ContentsAt
  <2>4. Tail(QueueContents(q))[k] = QueueContents(q)[k + 1]
    BY <1>3, <1>4, <1>7
  <2> QED  BY <2>1, <2>3, <2>4
<1>9. QueueContents(r) = Tail(QueueContents(q))
  BY <1>2, <1>3, <1>4, <1>7, <1>8, ContentsAt
<1> QED  BY <1>2, <1>3, <1>7, <1>9 DEF queue_deq_data

-----------------------------------------------------------------------------
(* 2. Types, the order of the tasks, the dispatcher.                        *)

(* No two threads have one identity; a slot is a number. *)
LEMMA ThreadsApart ==
    /\ Owner \in Thread /\ Admin \in Thread /\ Owner # Admin
    /\ \A w \in Worker : w \in Thread /\ w # Owner /\ w # Admin /\ w \notin Producer /\ w # Nobody
    /\ \A p \in Producer : p \in Thread /\ p # Owner /\ p # Admin /\ p \notin Worker /\ p # Nobody
    /\ Admin # Nobody /\ Owner \notin Producer /\ Admin \notin Producer
  BY PoolAssumption, ThreadAssumption DEF Thread, Worker, Nobody

LEMMA SlotsThere == 0 \in Slot /\ Slot \subseteq Nat
  BY PoolAssumption DEF Slot

\* A step that moves one thread to a label of its kind keeps the control typed.
LEMMA GotoWorker ==
  ASSUME ControlOK, NEW w \in Worker, NEW label \in WorkerLabel, Goto(w, label)
  PROVE  ControlOK'
  BY ThreadsApart DEF ControlOK, Goto

LEMMA GotoProducer ==
  ASSUME ControlOK, NEW p \in Producer, NEW label \in ProducerLabel, Goto(p, label)
  PROVE  ControlOK'
  BY ThreadsApart DEF ControlOK, Goto

LEMMA GotoAdmin ==
  ASSUME ControlOK, NEW label \in AdminLabel, Goto(Admin, label)
  PROVE  ControlOK'
  BY ThreadsApart DEF ControlOK, Goto

LEMMA GotoOwner ==
  ASSUME ControlOK, NEW label \in OwnerLabel, Goto(Owner, label)
  PROVE  ControlOK'
  BY ThreadsApart DEF ControlOK, Goto

LEMMA SignalType ==
  ASSUME NEW T, Signal(T) PROVE sleeping' \subseteq sleeping
  BY DEF Signal

LEMMA FindMeType == \A w \in Worker : FindMe(w) \in Slot \cup {-1}
  <1> SUFFICES ASSUME NEW w \in Worker PROVE FindMe(w) \in Slot \cup {-1}  OBVIOUS
  <1> QED  BY SlotsThere DEF FindMe
\* A step of a thread that is no producer leaves the calls as they are.
LEMMA CallsKept ==
  ASSUME ControlOK, CallsOK, NEW t \in Thread \ Producer, NEW label, Goto(t, label),
         UNCHANGED calls
  PROVE  CallsOK'
  BY DEF ControlOK, CallsOK, Goto

\* A slot, and what a thread has loaded, keep their types when updated.
LEMMA SlotType ==
  ASSUME MemoryOK, NEW s, NEW st \in {"BLANK", "FREE", "BUSY"},
         worker_thrs' = [worker_thrs EXCEPT ![s].state = st]
  PROVE  worker_thrs' \in [Slot -> [tid : Worker \cup {Nobody},
                                   state : {"BLANK", "FREE", "BUSY"}]]
<1> DEFINE Rec == [tid : Worker \cup {Nobody}, state : {"BLANK", "FREE", "BUSY"}]
           new == [worker_thrs[s] EXCEPT !.state = st]
<1>1. worker_thrs \in [Slot -> Rec]  BY DEF MemoryOK
<1>2. worker_thrs' = [worker_thrs EXCEPT ![s] = new]  OBVIOUS
<1>3. s \in Slot => new \in Rec
  <2> SUFFICES ASSUME s \in Slot PROVE new \in Rec  OBVIOUS
  <2>1. worker_thrs[s] \in Rec  BY <1>1
  <2> QED  BY <2>1
<1> HIDE DEF new, Rec
<1>4. worker_thrs' \in [Slot -> Rec]  BY <1>1, <1>2, <1>3
<1> QED  BY <1>4 DEF Rec

LEMMA LoadedType ==
  ASSUME MemoryOK, NEW t \in Thread \ Producer, NEW r \in [exit : Int, live : Int],
         loaded' = [loaded EXCEPT ![t] = r]
  PROVE  loaded' \in [Thread \ Producer -> [exit : Int, live : Int]]
  BY DEF MemoryOK

\* The loop index of a creating thread: counted up, reset, or left alone.
LEMMA IndexType ==
  ASSUME MemoryOK, NEW t \in {Owner, Admin},
         \/ i' = [i EXCEPT ![t] = @ + 1]
         \/ i' = [i EXCEPT ![t] = 0]
         \/ i' = i
  PROVE  i' \in [{Owner, Admin} -> Nat]
<1>1. i[t] + 1 \in Nat /\ 0 \in Nat  BY DEF MemoryOK
<1> QED  BY <1>1 DEF MemoryOK

LEMMA EndOfTurnType ==
  ASSUME MemoryOK, NEW w \in Worker, EndOfTurn(w)
  PROVE  /\ my_pos' \in [Worker -> Slot \cup {-1}]
         /\ task' \in [Worker -> Task \cup {NoTask}]
  BY DEF MemoryOK, EndOfTurn

LEMMA WorkerMemory ==
  ASSUME TypeOK, NEW w \in Worker, WorkerNext(w)  PROVE MemoryOK'
<1>1. CASE WorkerEnter(w)
  <2>1. CASE shutdown
    BY <1>1, <2>1 DEF TypeOK, MemoryOK, WorkerEnter, shared, bounds
  <2>2. CASE ~shutdown /\ MayRetire(FindMe(w))
    <3>1. [exit |-> exit_thrs, live |-> live_thrs] \in [exit : Int, live : Int]
      BY DEF TypeOK, MemoryOK
    <3>2. loaded' = [loaded EXCEPT ![w] = [exit |-> exit_thrs, live |-> live_thrs]]
      BY <1>1, <2>2 DEF WorkerEnter, StartRetiring
    <3>3. loaded' \in [Thread \ Producer -> [exit : Int, live : Int]]
      BY <3>1, <3>2, LoadedType, ThreadsApart DEF TypeOK
    <3> QED
      BY <1>1, <2>2, <3>3, FindMeType DEF TypeOK, MemoryOK, WorkerEnter, StartRetiring, shared, bounds
  <2>3. CASE ~shutdown /\ ~MayRetire(FindMe(w))
    BY <1>1, <2>3, FindMeType DEF TypeOK, MemoryOK, WorkerEnter, shared, bounds
  <2> QED  BY <2>1, <2>2, <2>3
<1>2. CASE WorkerSleep(w)
  BY <1>2 DEF TypeOK, MemoryOK, WorkerSleep, shared, locals, ghosts, bounds
<1>3. CASE WorkerWake(w)
  BY <1>3 DEF TypeOK, MemoryOK, WorkerWake, shared, locals, ghosts, bounds
<1>4. CASE WorkerRecheck(w)
  <2>1. CASE shutdown
    BY <1>4, <2>1, EndOfTurnType DEF TypeOK, MemoryOK, WorkerRecheck, shared, bounds
  <2>2. CASE ~shutdown /\ MayRetire(my_pos[w])
    <3>1. [exit |-> exit_thrs, live |-> live_thrs] \in [exit : Int, live : Int]
      BY DEF TypeOK, MemoryOK
    <3>2. loaded' = [loaded EXCEPT ![w] = [exit |-> exit_thrs, live |-> live_thrs]]
      BY <1>4, <2>2 DEF WorkerRecheck, StartRetiring
    <3>3. loaded' \in [Thread \ Producer -> [exit : Int, live : Int]]
      BY <3>1, <3>2, LoadedType, ThreadsApart DEF TypeOK
    <3> QED
      BY <1>4, <2>2, <3>3 DEF TypeOK, MemoryOK, WorkerRecheck, StartRetiring, shared, bounds
  <2>3. CASE ~shutdown /\ ~MayRetire(my_pos[w])
    <3> DEFINE x == queue_deq_data(task_queue, NoTask)
    <3>1. task_queue \in Ring(Task \cup {NoTask})  BY DEF TypeOK, MemoryOK, Ring
    <3>2. x \in Task \cup {NoTask}  BY <3>1 DEF queue_deq_data, Ring
    <3>3. queue_deq(task_queue) \in Ring(Task \cup {NoTask})
      BY <3>1, DeqTakesHead DEF queue_deq
    <3>4. task' = [task EXCEPT ![w] = x] /\ task'[w] = x
      BY <1>4, <2>3 DEF WorkerRecheck, TypeOK, MemoryOK
    <3>5. taken' \in Seq(Task \cup {NoTask})
      <4>1. CASE queue_empty(task_queue)
        BY <1>4, <2>3, <4>1 DEF WorkerRecheck, TypeOK, MemoryOK
      <4>2. CASE ~queue_empty(task_queue)
        <5>1. taken' = Append(taken, x)
          BY <1>4, <2>3, <3>4, <4>2 DEF WorkerRecheck
        <5> QED  BY <5>1, <3>2 DEF TypeOK, MemoryOK
      <4> QED  BY <4>1, <4>2
    <3>6. sleeping' \subseteq Worker \cup Producer \cup {Admin}
      BY <1>4, <2>3, SignalType DEF WorkerRecheck, TypeOK, MemoryOK
    <3>7. task_queue' \in [arr : [Cell -> Task \cup {NoTask}], front : Cell, tail : Cell]
      BY <1>4, <2>3, <3>3 DEF WorkerRecheck, Ring
    <3>8. task' \in [Worker -> Task \cup {NoTask}]
      BY <3>2, <3>4 DEF TypeOK, MemoryOK
    <3> HIDE DEF x
    <3> QED
      BY <1>4, <2>3, <3>5, <3>6, <3>7, <3>8 DEF TypeOK, MemoryOK, WorkerRecheck, shared, bounds
  <2> QED  BY <2>1, <2>2, <2>3
<1>5. CASE WorkerRetire(w)
  <2>1. loaded[w] \in [exit : Int, live : Int]
    BY ThreadsApart DEF TypeOK, MemoryOK
  <2>2. live_thrs' \in Int /\ exit_thrs' \in Int
    BY <1>5, <2>1 DEF WorkerRetire
  <2>3. NothingLoaded \in [exit : Int, live : Int]  BY DEF NothingLoaded
  <2>4. loaded' \in [Thread \ Producer -> [exit : Int, live : Int]]
    BY <1>5, <2>3, LoadedType, ThreadsApart DEF WorkerRetire, TypeOK
  <2> QED
    BY <1>5, <2>2, <2>4, SlotType, SignalType, EndOfTurnType
    DEF TypeOK, MemoryOK, WorkerRetire, ghosts, bounds
<1>6. CASE WorkerMarkBusy(w)
  BY <1>6, SlotType DEF TypeOK, MemoryOK, WorkerMarkBusy, mutexes, locals, ghosts, bounds
<1>7. CASE WorkerTellBusy(w)
  BY <1>7, SignalType DEF TypeOK, MemoryOK, WorkerTellBusy, shared, mutexes, locals, ghosts, bounds
<1>8. CASE WorkerRun(w)
  BY <1>8 DEF TypeOK, MemoryOK, WorkerRun, shared, mutexes, ghosts, bounds
<1>9. CASE WorkerMarkFree(w)
  BY <1>9, SlotType, SignalType, EndOfTurnType DEF TypeOK, MemoryOK, WorkerMarkFree, mutexes, ghosts, bounds
<1> QED  BY <1>1, <1>2, <1>3, <1>4, <1>5, <1>6, <1>7, <1>8, <1>9 DEF WorkerNext

LEMMA MarkCreatedMemory ==
  ASSUME TypeOK, NEW t \in {Owner, Admin}, MarkCreated(t)  PROVE MemoryOK'
<1>1. t \in Thread \ Producer  BY ThreadsApart
<1>2. loaded[t] \in [exit : Int, live : Int]  BY <1>1 DEF TypeOK, MemoryOK
<1>3. [loaded[t] EXCEPT !.live = live_thrs] \in [exit : Int, live : Int]
  BY <1>2 DEF TypeOK, MemoryOK
<1>4. loaded' = [loaded EXCEPT ![t] = [loaded[t] EXCEPT !.live = live_thrs]]
  BY DEF MarkCreated
<1>5. loaded' \in [Thread \ Producer -> [exit : Int, live : Int]]
  BY <1>1, <1>3, <1>4, LoadedType DEF TypeOK
<1> QED
  BY <1>5, SlotType DEF TypeOK, MemoryOK, MarkCreated, mutexes, ghosts, bounds

LEMMA CountCreatedMemory ==
  ASSUME TypeOK, NEW t \in {Owner, Admin}, CountCreated(t)  PROVE MemoryOK'
<1>1. t \in Thread \ Producer  BY ThreadsApart
<1>2. loaded[t] \in [exit : Int, live : Int]  BY <1>1 DEF TypeOK, MemoryOK
<1>3. live_thrs' \in Int  BY <1>2 DEF CountCreated
<1>4. NothingLoaded \in [exit : Int, live : Int]  BY DEF NothingLoaded
<1>5. loaded' \in [Thread \ Producer -> [exit : Int, live : Int]]
  BY <1>1, <1>4, LoadedType DEF CountCreated, TypeOK
<1>6. i' \in [{Owner, Admin} -> Nat] /\ pos' \in [{Owner, Admin} -> Slot]
  BY SlotsThere DEF CountCreated, TypeOK, MemoryOK
<1> QED
  BY <1>3, <1>5, <1>6 DEF TypeOK, MemoryOK, CountCreated, mutexes, ghosts, bounds

LEMMA CreateType ==
  ASSUME TypeOK, NEW t \in {Owner, Admin}, NEW s \in Slot, Create(t, s),
         UNCHANGED calls
  PROVE  /\ worker_thrs' \in [Slot -> [tid : Worker \cup {Nobody},
                                      state : {"BLANK", "FREE", "BUSY"}]]
         /\ pos' \in [{Owner, Admin} -> Slot]
         /\ ControlOK' /\ CallsOK'
<1> PICK w \in Worker : /\ worker_thrs' = [worker_thrs EXCEPT ![s].tid = w]
                        /\ pc' = [pc EXCEPT ![w] = "enter", ![t] = "mark"]
                        /\ pos' = [pos EXCEPT ![t] = s]
  BY DEF Create
<1> DEFINE Rec == [tid : Worker \cup {Nobody}, state : {"BLANK", "FREE", "BUSY"}]
           new == [worker_thrs[s] EXCEPT !.tid = w]
<1>1. worker_thrs \in [Slot -> Rec]  BY DEF TypeOK, MemoryOK
<1>2. worker_thrs' = [worker_thrs EXCEPT ![s] = new]  OBVIOUS
<1>3. new \in Rec
  <2>1. worker_thrs[s] \in Rec  BY <1>1
  <2> QED  BY <2>1
<1>4. worker_thrs' \in [Slot -> Rec]
  <2> HIDE DEF new, Rec
  <2> QED  BY <1>1, <1>2, <1>3
<1>5. pos' \in [{Owner, Admin} -> Slot]  BY DEF TypeOK, MemoryOK
<1>6. ControlOK'
  BY ThreadsApart
  DEF TypeOK, ControlOK, WorkerLabel, AdminLabel, OwnerLabel, ProducerLabel
<1>7. \A p \in Producer : pc'[p] = pc[p]
  BY ThreadsApart DEF TypeOK, ControlOK
<1>8. CallsOK'  BY <1>7 DEF TypeOK, CallsOK
<1> QED  BY <1>4, <1>5, <1>6, <1>8 DEF Rec

LEMMA BusyCountType == BusyCount \in Nat
<1> DEFINE B == {s \in Slot : worker_thrs[s].state = "BUSY"}
<1>1. IsFiniteSet(Slot)  BY FS_Interval, PoolAssumption DEF Slot
<1>2. IsFiniteSet(B)  BY <1>1, FS_Subset
<1> QED  BY <1>2, FS_CardinalityType DEF BusyCount

LEMMA ToExitType ==
  ASSUME MemoryOK, NEW live \in Int  PROVE ToExit(live) \in Int
  BY PoolAssumption DEF MemoryOK, ToExit, Half

LEMMA AdminMemory ==
  ASSUME TypeOK, AdminNext  PROVE MemoryOK'
<1>1. CASE AdminScan
  BY <1>1, BusyCountType DEF TypeOK, MemoryOK, AdminScan, shared, ghosts, bounds
<1>2. CASE AdminTestLayoff
  <2>1. [loaded[Admin] EXCEPT !.live = live_thrs] \in [exit : Int, live : Int]
    <3>1. loaded[Admin] \in [exit : Int, live : Int]
      BY ThreadsApart DEF TypeOK, MemoryOK
    <3> QED  BY <3>1 DEF TypeOK, MemoryOK
  <2>2. loaded' = [loaded EXCEPT ![Admin] = [loaded[Admin] EXCEPT !.live = live_thrs]]
    BY <1>2 DEF AdminTestLayoff
  <2>3. loaded' \in [Thread \ Producer -> [exit : Int, live : Int]]
    BY <2>1, <2>2, LoadedType, ThreadsApart DEF TypeOK
  <2> QED
    BY <1>2, <2>3 DEF TypeOK, MemoryOK, AdminTestLayoff, shared, mutexes, ghosts, bounds
<1>3. CASE AdminLayoff
  <2>1. LiveRead \subseteq Int
    BY ThreadsApart DEF LiveRead, TypeOK, MemoryOK
  <2>2. exit_thrs' \in Int
    BY <1>3, <2>1, ToExitType DEF AdminLayoff, TypeOK
  <2> QED
    BY <1>3, <2>2 DEF TypeOK, MemoryOK, AdminLayoff, mutexes, locals, ghosts, bounds
<1>4. CASE AdminTestGrow
  <2>1. NothingLoaded \in [exit : Int, live : Int]  BY DEF NothingLoaded
  <2>2. loaded' \in [Thread \ Producer -> [exit : Int, live : Int]]
    BY <1>4, <2>1, LoadedType, ThreadsApart DEF AdminTestGrow, TypeOK
  <2>3. working_mut' \in {Admin, Nobody}
    BY <1>4 DEF AdminTestGrow, TypeOK, MemoryOK
  <2> QED
    BY <1>4, <2>2, <2>3 DEF TypeOK, MemoryOK, AdminTestGrow, shared, ghosts, bounds
<1>5. CASE AdminSpawn
  <2>1. /\ worker_thrs' \in [Slot -> [tid : Worker \cup {Nobody},
                                     state : {"BLANK", "FREE", "BUSY"}]]
        /\ pos' \in [{Owner, Admin} -> Slot]
    <3>1. CASE \E s \in FreePos : Create(Admin, s)
      BY <1>5, <3>1, CreateType DEF FreePos, AdminSpawn, bounds
    <3>2. CASE UNCHANGED <<worker_thrs, pos>>
      BY <3>2 DEF TypeOK, MemoryOK
    <3> QED  BY <1>5, <3>1, <3>2 DEF AdminSpawn
  <2>2. i' \in [{Owner, Admin} -> Nat]
    BY <1>5, IndexType DEF AdminSpawn, TypeOK
  <2>3. early' \in BOOLEAN
    BY <1>5 DEF AdminSpawn, TypeOK, MemoryOK, Initialising
  <2> QED
    BY <1>5, <2>1, <2>2, <2>3 DEF TypeOK, MemoryOK, AdminSpawn, mutexes, bounds
<1>6. CASE MarkCreated(Admin)  BY <1>6, MarkCreatedMemory
<1>7. CASE CountCreated(Admin)  BY <1>7, CountCreatedMemory
<1>8. CASE AdminSleep
  BY <1>8 DEF TypeOK, MemoryOK, AdminSleep, shared, locals, ghosts, bounds
<1> QED  BY <1>1, <1>2, <1>3, <1>4, <1>5, <1>6, <1>7, <1>8 DEF AdminNext

LEMMA ProducerMemory ==
  ASSUME TypeOK, NEW p \in Producer, ProducerNext(p)  PROVE MemoryOK'
<1>1. CASE AddTask(p)
  <2>1. calls' \in [Producer -> 0 .. MaxCalls]
    BY <1>1, PoolAssumption DEF AddTask, TypeOK, MemoryOK
  <2> QED
    BY <1>1, <2>1 DEF TypeOK, MemoryOK, AddTask, shared, mutexes, locals, ghosts
<1>2. CASE AddTaskLocked(p)
  <2>1. CASE UNCHANGED <<task_queue, accepted>>
    <3>1. sleeping' \subseteq Worker \cup Producer \cup {Admin}
      BY <1>2, SignalType DEF AddTaskLocked, TypeOK, MemoryOK
    <3> QED
      BY <1>2, <2>1, <3>1 DEF TypeOK, MemoryOK, AddTaskLocked, shared, mutexes, locals, bounds
  <2>2. CASE ~queue_full(task_queue) /\ ~shutdown
    <3> DEFINE x == <<p, calls[p]>>
    <3>1. pc[p] # "idle"  BY <1>2 DEF AddTaskLocked
    <3>2. x \in Task
      BY <3>1, PoolAssumption DEF TypeOK, CallsOK, MemoryOK, Task
    <3>3. task_queue \in Ring(Task \cup {NoTask})  BY DEF TypeOK, MemoryOK, Ring
    <3>4. queue_enter(task_queue, x) \in Ring(Task \cup {NoTask})
      BY <2>2, <3>2, <3>3, EnterAppends
    <3>5. task_queue' = queue_enter(task_queue, x) /\ accepted' = Append(accepted, x)
      BY <1>2, <2>2 DEF AddTaskLocked
    <3>6. sleeping' \subseteq Worker \cup Producer \cup {Admin}
      BY <1>2, SignalType DEF AddTaskLocked, TypeOK, MemoryOK
    <3> HIDE DEF x
    <3>7. accepted' \in Seq(Task)  BY <3>2, <3>5 DEF TypeOK, MemoryOK
    <3>8. task_queue' \in [arr : [Cell -> Task \cup {NoTask}], front : Cell, tail : Cell]
      BY <3>4, <3>5 DEF Ring
    <3> QED
      BY <1>2, <3>6, <3>7, <3>8 DEF TypeOK, MemoryOK, AddTaskLocked, shared, mutexes, locals, bounds
  <2> QED  BY <1>2, <2>1, <2>2 DEF AddTaskLocked
<1> QED  BY <1>1, <1>2 DEF ProducerNext

LEMMA OwnerMemory ==
  ASSUME TypeOK, OwnerWork \/ Shutdown \/ Destroy  PROVE MemoryOK'
<1>1. CASE OwnerStart
  BY <1>1 DEF TypeOK, MemoryOK, OwnerStart, shared, mutexes, locals, ghosts, bounds
<1>2. CASE OwnerSpawn
  <2>1. i[Owner] \in Slot
    BY <1>2, PoolAssumption DEF OwnerSpawn, TypeOK, MemoryOK, Slot
  <2>2. /\ worker_thrs' \in [Slot -> [tid : Worker \cup {Nobody},
                                     state : {"BLANK", "FREE", "BUSY"}]]
        /\ pos' \in [{Owner, Admin} -> Slot]
    <3>1. CASE Create(Owner, i[Owner])
      BY <1>2, <2>1, <3>1, CreateType DEF OwnerSpawn, bounds
    <3>2. CASE UNCHANGED <<worker_thrs, pos>>
      BY <3>2 DEF TypeOK, MemoryOK
    <3> QED  BY <1>2, <3>1, <3>2 DEF OwnerSpawn
  <2>3. i' \in [{Owner, Admin} -> Nat]
    BY <1>2, IndexType DEF OwnerSpawn, TypeOK
  <2>4. /\ shutdown' \in BOOLEAN
        /\ sleeping' \subseteq Worker \cup Producer \cup {Admin}
    BY <1>2 DEF OwnerSpawn, Broadcast, TypeOK, MemoryOK
  <2> QED
    BY <1>2, <2>2, <2>3, <2>4 DEF TypeOK, MemoryOK, OwnerSpawn, mutexes, ghosts, bounds
<1>3. CASE MarkCreated(Owner)  BY <1>3, MarkCreatedMemory
<1>4. CASE CountCreated(Owner)  BY <1>4, CountCreatedMemory
<1>5. CASE OwnerBlank
  <2>1. worker_thrs' \in [Slot -> [tid : Worker \cup {Nobody},
                                  state : {"BLANK", "FREE", "BUSY"}]]
    <3>1. CASE i[Owner] < MaxThrs
      BY <1>5, <3>1, SlotType DEF OwnerBlank, TypeOK, MemoryOK
    <3>2. CASE UNCHANGED worker_thrs
      BY <3>2 DEF TypeOK, MemoryOK
    <3> QED  BY <1>5, <3>1, <3>2 DEF OwnerBlank
  <2>2. i' \in [{Owner, Admin} -> Nat]  BY <1>5, IndexType DEF OwnerBlank, TypeOK
  <2> QED
    BY <1>5, <2>1, <2>2 DEF TypeOK, MemoryOK, OwnerBlank, mutexes, ghosts, bounds
<1>6. CASE Announce
  BY <1>6 DEF TypeOK, MemoryOK, Announce, Broadcast, shared, mutexes, locals, ghosts, bounds
<1>7. CASE JoinAdmin
  BY <1>7 DEF TypeOK, MemoryOK, JoinAdmin, shared, mutexes, locals, ghosts, bounds
<1>8. CASE Reap
  <2>1. i' \in [{Owner, Admin} -> Nat]  BY <1>8, IndexType DEF Reap, TypeOK
  <2> QED
    BY <1>8, <2>1 DEF TypeOK, MemoryOK, Reap, shared, mutexes, ghosts, bounds
<1>9. CASE Shutdown
  BY <1>9 DEF TypeOK, MemoryOK, Shutdown, Broadcast, shared, mutexes, locals, ghosts, bounds
<1>10. CASE Destroy
  BY <1>10 DEF TypeOK, MemoryOK, Destroy, shared, mutexes, locals, ghosts, bounds
<1> QED
  BY <1>1, <1>2, <1>3, <1>4, <1>5, <1>6, <1>7, <1>8, <1>9, <1>10 DEF OwnerWork

LEMMA SpuriousMemory ==
  ASSUME TypeOK, NEW t \in sleeping, SpuriousWakeup(t)  PROVE MemoryOK'
  BY PoolAssumption
  DEF TypeOK, MemoryOK, SpuriousWakeup, shared, mutexes, locals, ghosts

\* The control of every thread, and the calls, through every step.
LEMMA ControlStep ==
  ASSUME TypeOK, Next  PROVE ControlOK' /\ CallsOK'
<1> USE DEF TypeOK
<1>1. ASSUME NEW w \in Worker, WorkerNext(w)  PROVE ControlOK' /\ CallsOK'
  <2>1. \E label \in WorkerLabel : Goto(w, label)
    BY <1>1 DEF WorkerNext, WorkerEnter, WorkerSleep, WorkerWake, WorkerRecheck,
       WorkerRetire, WorkerMarkBusy, WorkerTellBusy, WorkerRun, WorkerMarkFree,
       StartRetiring, WorkerLabel
  <2>2. UNCHANGED calls
    BY <1>1 DEF WorkerNext, WorkerEnter, WorkerSleep, WorkerWake, WorkerRecheck,
       WorkerRetire, WorkerMarkBusy, WorkerTellBusy, WorkerRun, WorkerMarkFree, bounds
  <2> QED  BY <2>1, <2>2, GotoWorker, CallsKept, ThreadsApart
<1>2. ASSUME AdminNext  PROVE ControlOK' /\ CallsOK'
  <2>1. UNCHANGED calls
    BY <1>2 DEF AdminNext, AdminScan, AdminTestLayoff, AdminLayoff, AdminTestGrow,
       AdminSpawn, MarkCreated, CountCreated, AdminSleep, bounds
  <2>2. CASE \E s \in FreePos : Create(Admin, s)
    BY <2>1, <2>2, CreateType DEF FreePos
  <2>3. CASE \E label \in AdminLabel : Goto(Admin, label)
    BY <2>1, <2>3, GotoAdmin, CallsKept, ThreadsApart
  <2>4. CASE UNCHANGED pc
    BY <2>1, <2>4 DEF ControlOK, CallsOK
  <2> QED
    BY <1>2, <2>2, <2>3, <2>4 DEF AdminNext, AdminScan, AdminTestLayoff, AdminLayoff,
       AdminTestGrow, AdminSpawn, MarkCreated, CountCreated, AdminSleep, AdminLabel
<1>3. ASSUME NEW p \in Producer, ProducerNext(p)  PROVE ControlOK' /\ CallsOK'
  <2>1. \E label \in ProducerLabel : Goto(p, label)
    BY <1>3 DEF ProducerNext, AddTask, AddTaskLocked, ProducerLabel
  <2>2. ControlOK'  BY <2>1, GotoProducer
  <2>3. calls'[p] > 0
    <3>1. CASE AddTask(p)
      BY <3>1 DEF AddTask, MemoryOK
    <3>2. CASE AddTaskLocked(p)
      BY <3>2 DEF AddTaskLocked, CallsOK, bounds
    <3> QED  BY <1>3, <3>1, <3>2 DEF ProducerNext
  <2>4. ASSUME NEW r \in Producer, r # p  PROVE pc'[r] = pc[r] /\ calls'[r] = calls[r]
    <3>1. pc'[r] = pc[r]  BY <2>1, <2>4, ThreadsApart DEF Goto, ControlOK
    <3>2. calls'[r] = calls[r]
      BY <1>3, <2>4 DEF ProducerNext, AddTask, AddTaskLocked, MemoryOK, bounds
    <3> QED  BY <3>1, <3>2
  <2> QED  BY <2>2, <2>3, <2>4 DEF CallsOK
<1>4. ASSUME OwnerWork \/ Shutdown \/ Destroy  PROVE ControlOK' /\ CallsOK'
  <2>1. UNCHANGED calls
    BY <1>4 DEF OwnerWork, OwnerStart, OwnerSpawn, MarkCreated, CountCreated,
       OwnerBlank, Announce, JoinAdmin, Reap, Shutdown, Destroy, bounds
  <2>2. CASE OwnerStart
    <3>1. ControlOK'
      BY <2>2, ThreadsApart DEF OwnerStart, ControlOK, AdminLabel, OwnerLabel
    <3>2. \A p \in Producer : pc'[p] = pc[p]
      BY <2>2, ThreadsApart DEF OwnerStart, ControlOK
    <3> QED  BY <2>1, <3>1, <3>2 DEF CallsOK
  <2>3. CASE OwnerSpawn /\ Create(Owner, i[Owner])
    <3>1. i[Owner] \in Slot
      BY <2>3, PoolAssumption DEF OwnerSpawn, MemoryOK, Slot
    <3> QED  BY <2>1, <2>3, <3>1, CreateType
  <2>4. CASE \E label \in OwnerLabel : Goto(Owner, label)
    BY <2>1, <2>4, GotoOwner, CallsKept, ThreadsApart
  <2>5. CASE UNCHANGED pc
    BY <2>1, <2>5 DEF ControlOK, CallsOK
  <2> QED
    BY <1>4, <2>2, <2>3, <2>4, <2>5 DEF OwnerWork, OwnerSpawn, MarkCreated, CountCreated,
       OwnerBlank, Announce, JoinAdmin, Reap, Shutdown, Destroy, OwnerLabel
<1>5. ASSUME NEW t \in sleeping, SpuriousWakeup(t)  PROVE ControlOK' /\ CallsOK'
  BY <1>5 DEF SpuriousWakeup, ControlOK, CallsOK
<1> QED  BY <1>1, <1>2, <1>3, <1>4, <1>5 DEF Next

LEMMA TypeInit == Init => TypeOK
<1> SUFFICES ASSUME Init PROVE TypeOK  OBVIOUS
<1>1. ControlOK /\ CallsOK
  BY ThreadsApart DEF Init, ControlOK, CallsOK, OwnerLabel, AdminLabel, WorkerLabel,
     ProducerLabel, Thread
<1>2. task_queue \in Ring(Task \cup {NoTask})  BY InitContents DEF Init
<1>3. MemoryOK
  <2>1. worker_thrs \in [Slot -> [tid : Worker \cup {Nobody},
                                 state : {"BLANK", "FREE", "BUSY"}]]
    BY DEF Init, Nobody
  <2>2. loaded \in [Thread \ Producer -> [exit : Int, live : Int]]
    BY DEF Init
  <2>3. /\ my_pos \in [Worker -> Slot \cup {-1}]
        /\ task \in [Worker -> Task \cup {NoTask}]
        /\ i \in [{Owner, Admin} -> Nat] /\ pos \in [{Owner, Admin} -> Slot]
        /\ calls \in [Producer -> 0 .. MaxCalls] /\ spurious \in 0 .. MaxSpurious
    BY SlotsThere, PoolAssumption DEF Init
  <2>4. task_queue \in [arr : [Cell -> Task \cup {NoTask}], front : Cell, tail : Cell]
    BY <1>2 DEF Ring
  <2>5. accepted \in Seq(Task) /\ taken \in Seq(Task \cup {NoTask})
    BY DEF Init
  <2>6. /\ live_thrs \in Int /\ exit_thrs \in Int /\ busy \in Nat
        /\ queue_mut \in Worker \cup {Nobody} /\ working_mut \in {Admin, Nobody}
    BY DEF Init
  <2>7. /\ sleeping \subseteq Worker \cup Producer \cup {Admin}
        /\ shutdown \in BOOLEAN /\ early \in BOOLEAN /\ retired \in BOOLEAN
    BY Zenon DEF Init
  <2> QED  BY <2>1, <2>2, <2>3, <2>4, <2>5, <2>6, <2>7 DEF MemoryOK
<1> QED  BY <1>1, <1>3 DEF TypeOK

\* Every variable of the pool always has its type: the slots hold identities of
\* workers and states of the enumeration, the queue's indices stay inside the
\* array, and a mutex is held by a thread that may hold it.
THEOREM TypeCorrect == Spec => []TypeOK
<1>1. ASSUME TypeOK, [Next]_vars  PROVE TypeOK'
  <2>1. CASE Next
    <3>1. MemoryOK'
      BY <1>1, <2>1, WorkerMemory, AdminMemory, ProducerMemory, OwnerMemory, SpuriousMemory
      DEF Next
    <3> QED  BY <1>1, <2>1, <3>1, ControlStep DEF TypeOK
  <2>2. CASE UNCHANGED vars
    BY <1>1, <2>2 DEF TypeOK, ControlOK, MemoryOK, CallsOK, vars, shared, mutexes, locals,
       ghosts, bounds
  <2> QED  BY <1>1, <2>1, <2>2
<1> QED  BY <1>1, TypeInit, PTL DEF Spec

-----------------------------------------------------------------------------
(* What a step does to the queue: it enters one task, takes one, closes the  *)
(* pool, or leaves queue, histories and shutdown alone.                      *)

Contents == QueueContents(task_queue)

Enters == /\ ~shutdown /\ Len(Contents) < QueueSize - 1
          /\ \E x \in Task : accepted' = Append(accepted, x) /\ Contents' = Append(Contents, x)
          /\ UNCHANGED <<taken, shutdown>>
Takes  == /\ ~shutdown /\ Contents # <<>>
          /\ taken' = Append(taken, Head(Contents)) /\ Contents' = Tail(Contents)
          /\ UNCHANGED <<accepted, shutdown>>
Closes == shutdown' = TRUE /\ UNCHANGED <<task_queue, accepted, taken>>
Idles  == UNCHANGED <<task_queue, accepted, taken, shutdown>>

LEMMA ContentsType ==
  ASSUME TypeOK
  PROVE  /\ task_queue \in Ring(Task \cup {NoTask})
         /\ Contents \in Seq(Task \cup {NoTask})
<1>1. task_queue \in Ring(Task \cup {NoTask})  BY DEF TypeOK, MemoryOK, Ring
<1> QED  BY <1>1, ContentsAt DEF Contents

LEMMA AddTaskStep ==
  ASSUME TypeOK, NEW p \in Producer, AddTaskLocked(p)  PROVE Enters \/ Idles
<1>1. CASE UNCHANGED <<task_queue, accepted>>
  BY <1>1 DEF AddTaskLocked, Idles
<1>2. CASE ~queue_full(task_queue) /\ ~shutdown
  <2> DEFINE x == <<p, calls[p]>>
  <2>1. /\ task_queue' = queue_enter(task_queue, x) /\ accepted' = Append(accepted, x)
        /\ UNCHANGED <<taken, shutdown>>
    BY <1>2 DEF AddTaskLocked
  <2>2. x \in Task
    <3>1. pc[p] # "idle"  BY DEF AddTaskLocked
    <3> QED  BY <3>1, PoolAssumption DEF TypeOK, CallsOK, MemoryOK, Task
  <2> HIDE DEF x
  <2>3. Contents' = Append(Contents, x)
    BY <1>2, <2>1, <2>2, ContentsType, EnterAppends DEF Contents
  <2>4. Len(Contents) < QueueSize - 1
    <3>1. Span(task_queue) \in 0 .. QueueSize - 1 /\ Span(task_queue) # QueueSize - 1
      BY <1>2, ContentsType, LengthIsSpan
    <3>2. Len(Contents) = Span(task_queue)  BY ContentsType, ContentsAt DEF Contents
    <3> QED  BY <3>1, <3>2, QueueSizeAssumption
  <2> QED  BY <1>2, <2>1, <2>2, <2>3, <2>4 DEF Enters
<1> QED  BY <1>1, <1>2 DEF AddTaskLocked

LEMMA RecheckStep ==
  ASSUME TypeOK, NEW w \in Worker, WorkerRecheck(w)  PROVE Takes \/ Idles
<1>1. CASE UNCHANGED <<task_queue, taken>>
  BY <1>1 DEF WorkerRecheck, Idles
<1>2. CASE ~shutdown /\ ~MayRetire(my_pos[w])
  <2>1. /\ task' = [task EXCEPT ![w] = queue_deq_data(task_queue, NoTask)]
        /\ taken' = IF queue_empty(task_queue) THEN taken ELSE Append(taken, task'[w])
        /\ task_queue' = queue_deq(task_queue)
        /\ UNCHANGED <<accepted, shutdown>>
    BY <1>2 DEF WorkerRecheck
  <2>2. CASE queue_empty(task_queue)
    BY <2>1, <2>2 DEF queue_deq, Idles
  <2>3. CASE ~queue_empty(task_queue)
    <3>1. /\ Contents # <<>> /\ Contents' = Tail(Contents)
          /\ queue_deq_data(task_queue, NoTask) = Head(Contents)
      BY <2>1, <2>3, ContentsType, DeqTakesHead DEF Contents
    <3>2. task'[w] = Head(Contents)
      BY <2>1, <3>1 DEF TypeOK, MemoryOK
    <3> QED  BY <1>2, <2>1, <2>3, <3>1, <3>2 DEF Takes
  <2> QED  BY <2>2, <2>3
<1> QED  BY <1>1, <1>2 DEF WorkerRecheck

LEMMA QueueStep ==
  ASSUME TypeOK, [Next]_vars  PROVE Enters \/ Takes \/ Closes \/ Idles
<1>1. ASSUME NEW w \in Worker, WorkerNext(w), ~WorkerRecheck(w)  PROVE Idles
  BY <1>1 DEF WorkerNext, WorkerEnter, WorkerSleep, WorkerWake, WorkerRetire, WorkerMarkBusy,
     WorkerTellBusy, WorkerRun, WorkerMarkFree, ghosts, Idles
<1>2. ASSUME AdminNext  PROVE Idles
  BY <1>2 DEF AdminNext, AdminScan, AdminTestLayoff, AdminLayoff, AdminTestGrow, AdminSpawn,
     MarkCreated, CountCreated, AdminSleep, ghosts, Idles
<1>3. ASSUME OwnerWork \/ Shutdown \/ Destroy  PROVE Closes \/ Idles
  BY <1>3 DEF OwnerWork, OwnerStart, OwnerSpawn, MarkCreated, CountCreated, OwnerBlank,
     Announce, JoinAdmin, Reap, Shutdown, Destroy, ghosts, Closes, Idles
<1>4. ASSUME NEW p \in Producer, AddTask(p)  PROVE Idles
  BY <1>4 DEF AddTask, ghosts, Idles
<1>5. ASSUME NEW t \in sleeping, SpuriousWakeup(t)  PROVE Idles
  BY <1>5 DEF SpuriousWakeup, ghosts, Idles
<1>6. CASE UNCHANGED vars
  BY <1>6 DEF vars, ghosts, Idles
<1> QED
  BY <1>1, <1>2, <1>3, <1>4, <1>5, <1>6, RecheckStep, AddTaskStep DEF Next, ProducerNext

-----------------------------------------------------------------------------

LEMMA AppendAssociates ==
  ASSUME NEW S, NEW a \in Seq(S), NEW c \in Seq(S), NEW x \in S
  PROVE  Append(a \o c, x) = a \o Append(c, x)
  OBVIOUS

LEMMA QueueInit == Init => Contents = <<>>
  BY InitContents DEF Init, Contents

\* Tasks leave the queue in the order they were entered, each once and none
\* lost, for any capacity and any number of threads.  The invariant is
\* inductive as it stands once the queue is known to be well typed: one end of
\* the sequence grows with `accepted', the other passes to `taken'.
THEOREM TasksInOrder == Spec => []TaskOrder
<1>1. Init => TaskOrder
  BY QueueInit DEF Init, TaskOrder, Contents
<1>2. ASSUME TypeOK, TaskOrder, [Next]_vars  PROVE TaskOrder'
  <2> USE <1>2 DEF TaskOrder
  <2>1. /\ Contents \in Seq(Task \cup {NoTask}) /\ taken \in Seq(Task \cup {NoTask})
        /\ accepted = taken \o Contents
    BY ContentsType DEF TypeOK, MemoryOK, Contents
  <2>2. CASE Enters
    <3>1. PICK x \in Task : accepted' = Append(accepted, x) /\ Contents' = Append(Contents, x)
      BY <2>2 DEF Enters
    <3>2. Append(accepted, x) = taken \o Append(Contents, x)
      <4> DEFINE S == Task \cup {NoTask}
      <4>1. x \in S  OBVIOUS
      <4>2. taken \in Seq(S) /\ Contents \in Seq(S) /\ accepted = taken \o Contents
        BY <2>1
      <4> HIDE DEF S
      <4> QED  BY <4>1, <4>2, AppendAssociates
    <3> QED  BY <2>1, <2>2, <3>1, <3>2 DEF Enters, Contents
  <2>3. CASE Takes
    <3>1. taken \o Contents = Append(taken, Head(Contents)) \o Tail(Contents)
      BY <2>1, <2>3 DEF Takes
    <3> QED  BY <2>1, <2>3, <3>1 DEF Takes, Contents
  <2>4. CASE Closes \/ Idles
    BY <2>4 DEF Closes, Idles
  <2> QED  BY <2>2, <2>3, <2>4, QueueStep
<1> QED  BY <1>1, <1>2, TypeCorrect, PTL DEF Spec

\* The pool implements the bounded first-in first-out dispatcher, for every
\* number of threads, capacity and caller: no step of a worker, of Admin or of
\* Owner shows to the callers as anything but a submission, a start or the end.
THEOREM PoolImplementsDispatcher == Spec => ImplementsDispatcher
<1>1. Init => Abstract!DInit
  BY QueueInit DEF Init, Contents, Abstract!DInit
<1>2. ASSUME TypeOK, [Next]_vars  PROVE [Abstract!DNext]_(Abstract!dvars)
  <2>1. CASE Enters
    BY <2>1 DEF Enters, Contents, Abstract!DNext, Abstract!Submit
  <2>2. CASE Takes
    BY <2>2 DEF Takes, Contents, Abstract!DNext, Abstract!Start
  <2>3. CASE Closes
    BY <2>3 DEF Closes, Abstract!DNext, Abstract!Close
  <2>4. CASE Idles
    BY <2>4 DEF Idles, Abstract!dvars
  <2> QED  BY <1>2, <2>1, <2>2, <2>3, <2>4, QueueStep
<1> QED  BY <1>1, <1>2, TypeCorrect, PTL DEF Spec, ImplementsDispatcher, Abstract!DSpec

-----------------------------------------------------------------------------
(* 3. Slots.  As long as Admin does not grow the pool while thr_pool_init   *)
(* is filling it, a running worker has a slot with its tid that is not      *)
(* BLANK or about to be marked, no two have the same, nobody is given a     *)
(* slot that is in use, and thr_pool_destroy passes over none.              *)

Tid(s)   == worker_thrs[s].tid
State(s) == worker_thrs[s].state

\* A thread was created in slot s and its state is not yet written.
Marking(s) == \E t \in {Owner, Admin} : pc[t] = "mark" /\ pos[t] = s

Runs(w) == pc[w] \notin {"none", "exited"}

\* Every running worker has a slot.
HaveSlots ==
    \A w \in Worker : Runs(w) =>
        \E s \in Slot : Tid(s) = w /\ (State(s) # "BLANK" \/ Marking(s))

\* A tid is of a thread that was created, and stands in one slot.
TidsApart ==
    /\ \A s \in Slot : Tid(s) # Nobody => Tid(s) \in Created
    /\ \A s, r \in Slot : Tid(s) = Tid(r) /\ Tid(s) # Nobody => s = r

\* The position that a worker keeps during a turn is that of its slot.
KnowOwn ==
    \A w \in Worker : my_pos[w] # -1 =>
        /\ pc[w] \notin {"none", "enter", "exited"}
        /\ Tid(my_pos[w]) = w /\ State(my_pos[w]) # "BLANK"

\* What thr_pool_init has not filled yet is as calloc left it.
Unfilled(s) ==
    IF pc[Owner] \in {"mark", "count"} THEN s > i[Owner] ELSE s >= i[Owner]

Filling ==
    Initialising =>
        /\ pc[Admin] \notin {"mark", "count"}
        /\ pc[Owner] \in {"mark", "count"} => pos[Owner] = i[Owner]
        /\ \A s \in Slot : Unfilled(s) => Tid(s) = Nobody /\ State(s) = "BLANK"

\* What thr_pool_destroy has passed is of no running worker.
Joining ==
    /\ pc[Owner] \in {"open", "announce", "closed", "join"} => i[Owner] = 0
    /\ pc[Owner] \in {"reap", "freed"} => pc[Admin] = "exited"
    /\ pc[Owner] = "reap" =>
        \A s \in Slot : s < i[Owner] /\ Tid(s) # Nobody => ~Runs(Tid(s))
    /\ pc[Owner] = "freed" => \A w \in Worker : ~Runs(w)

Slots == ~early => HaveSlots /\ TidsApart /\ KnowOwn /\ Filling /\ Joining

LEMMA NobodyIsNoWorker == \A w \in Worker : w # Nobody
  BY ThreadsApart

-----------------------------------------------------------------------------
(* A worker's step: its own state, perhaps, and its own position.           *)

\* The state of a slot of its own is written, if it has one.
WritesOwn(w, st) == worker_thrs' = [worker_thrs EXCEPT ![my_pos[w]].state = st]

LEMMA WorkerSlots ==
  ASSUME TypeOK, Slots, NEW w \in Worker, WorkerNext(w)
  PROVE  Slots'
<1> SUFFICES ASSUME ~early' PROVE Slots'  BY DEF Slots
<1>0. ControlOK /\ MemoryOK  BY DEF TypeOK
<1>1. /\ UNCHANGED <<early, i, pos>> /\ pc[w] \notin {"none", "exited"}
      /\ \E label \in WorkerLabel \ {"none"} : Goto(w, label)
  BY DEF WorkerNext, WorkerEnter, WorkerSleep, WorkerWake, WorkerRecheck, WorkerRetire,
         WorkerMarkBusy, WorkerTellBusy, WorkerRun, WorkerMarkFree, StartRetiring, EndOfTurn,
         WorkerLabel, ghosts, locals, Goto
<1>2. /\ HaveSlots /\ TidsApart /\ KnowOwn /\ Filling /\ Joining
  BY <1>1 DEF Slots
<1>3. /\ pc'[Owner] = pc[Owner] /\ pc'[Admin] = pc[Admin] /\ pc'[w] # "none"
      /\ \A v \in Worker \ {w} : pc'[v] = pc[v]
  BY <1>0, <1>1, ThreadsApart DEF ControlOK, Goto
<1>4. \/ UNCHANGED worker_thrs
      \/ \E st \in {"FREE", "BUSY"} : WritesOwn(w, st)
      \/ WritesOwn(w, "BLANK") /\ pc'[w] = "exited"
  <2>1. CASE WorkerRetire(w)
    BY <1>0, <2>1, ThreadsApart DEF WorkerRetire, WritesOwn, ControlOK, Goto
  <2>2. CASE WorkerMarkBusy(w) \/ WorkerMarkFree(w)
    BY <2>2 DEF WorkerMarkBusy, WorkerMarkFree, WritesOwn
  <2>3. CASE ~WorkerRetire(w) /\ ~WorkerMarkBusy(w) /\ ~WorkerMarkFree(w)
    BY <2>3 DEF WorkerNext, WorkerEnter, WorkerSleep, WorkerWake, WorkerRecheck, WorkerTellBusy,
                WorkerRun, shared
  <2> QED  BY <2>1, <2>2, <2>3
<1>5. /\ \A v \in Worker \ {w} : my_pos'[v] = my_pos[v]
      /\ \/ my_pos'[w] = -1
         \/ my_pos'[w] = my_pos[w] /\ pc'[w] \notin {"enter", "exited"}
         \/ my_pos'[w] = FindMe(w) /\ pc'[w] \notin {"enter", "exited"} /\ UNCHANGED worker_thrs
  <2> USE DEF ControlOK, MemoryOK, Goto
  <2>1. CASE WorkerEnter(w)
    BY <1>0, <1>2, <2>1, ThreadsApart DEF WorkerEnter, StartRetiring, KnowOwn, shared
  <2>2. CASE WorkerSleep(w) \/ WorkerWake(w) \/ WorkerMarkBusy(w) \/ WorkerTellBusy(w)
    BY <1>0, <2>2, ThreadsApart DEF WorkerSleep, WorkerWake, WorkerMarkBusy, WorkerTellBusy, locals
  <2>3. CASE WorkerRecheck(w)
    BY <1>0, <2>3, ThreadsApart DEF WorkerRecheck, StartRetiring, EndOfTurn
  <2>4. CASE WorkerRetire(w) \/ WorkerMarkFree(w)
    BY <1>0, <2>4 DEF WorkerRetire, WorkerMarkFree, EndOfTurn
  <2>5. CASE WorkerRun(w)
    BY <1>0, <2>5, ThreadsApart DEF WorkerRun
  <2> QED  BY <2>1, <2>2, <2>3, <2>4, <2>5 DEF WorkerNext
<1>6. FindMe(w) # -1 => FindMe(w) \in Slot /\ Tid(FindMe(w)) = w /\ State(FindMe(w)) # "BLANK"
  BY SlotsThere DEF FindMe, Tid, State
<1>7. /\ \A s \in Slot : Tid(s)' = Tid(s)
      /\ \A s \in Slot : State(s)' = State(s) \/ s = my_pos[w]
      /\ \A s \in Slot : State(s)' = "BLANK" =>
            State(s) = "BLANK" \/ (s = my_pos[w] /\ pc'[w] = "exited")
  <2>1. CASE UNCHANGED worker_thrs
    BY <2>1 DEF Tid, State
  <2>2. ASSUME NEW st \in {"FREE", "BUSY", "BLANK"}, WritesOwn(w, st),
               st = "BLANK" => pc'[w] = "exited"
        PROVE  <1>7!:
    <3>1. ASSUME NEW s \in Slot
          PROVE  worker_thrs'[s] = IF s = my_pos[w] THEN [worker_thrs[s] EXCEPT !.state = st]
                                   ELSE worker_thrs[s]
      BY <1>0, <2>2 DEF WritesOwn, MemoryOK
    <3>2. \A s \in Slot : worker_thrs[s] \in [tid : Worker \cup {Nobody},
                                              state : {"BLANK", "FREE", "BUSY"}]
      BY <1>0 DEF MemoryOK
    <3> QED  BY <2>2, <3>1, <3>2 DEF Tid, State
  <2> QED  BY <1>4, <2>1, <2>2
<1>8. \A s \in Slot : Marking(s)' <=> Marking(s)
  BY <1>1, <1>3 DEF Marking
<1>9. HaveSlots'
  <2> SUFFICES ASSUME NEW v \in Worker, Runs(v)'
               PROVE  \E s \in Slot : (Tid(s) = v /\ (State(s) # "BLANK" \/ Marking(s)))'
    BY DEF HaveSlots
  <2>1. Runs(v) /\ (v = w => pc'[w] # "exited")
    BY <1>1, <1>3 DEF Runs
  <2>2. PICK s \in Slot : Tid(s) = v /\ (State(s) # "BLANK" \/ Marking(s))
    BY <1>2, <2>1 DEF HaveSlots
  <2>3. ~(s = my_pos[w] /\ pc'[w] = "exited")
    <3> SUFFICES ASSUME s = my_pos[w], pc'[w] = "exited" PROVE FALSE  OBVIOUS
    <3>1. my_pos[w] # -1
      BY SlotsThere
    <3> QED  BY <1>2, <2>1, <2>2, <3>1 DEF KnowOwn
  <2> QED  BY <1>7, <1>8, <2>2, <2>3
<1>10. TidsApart'
  <2>1. Created \subseteq Created'
    BY <1>3 DEF Created
  <2> QED  BY <1>2, <1>7, <2>1 DEF TidsApart
<1>11. KnowOwn'
  <2> SUFFICES ASSUME NEW v \in Worker, my_pos'[v] # -1
               PROVE  /\ pc'[v] \notin {"none", "enter", "exited"}
                      /\ (Tid(my_pos[v]) = v /\ State(my_pos[v]) # "BLANK")'
    BY DEF KnowOwn
  <2>1. my_pos[v] \in Slot \cup {-1} /\ my_pos[w] \in Slot \cup {-1}
    BY <1>0 DEF MemoryOK
  <2>2. CASE v # w
    <3>1. my_pos'[v] = my_pos[v] /\ my_pos[v] # my_pos[w] /\ my_pos[v] \in Slot
      BY <1>2, <1>5, <2>1, <2>2 DEF KnowOwn
    <3>2. Tid(my_pos[v]) = v /\ State(my_pos[v]) # "BLANK" /\ pc[v] \notin {"none", "enter", "exited"}
      BY <1>2, <2>2, <3>1, SlotsThere DEF KnowOwn
    <3>3. Tid(my_pos[v])' = v /\ State(my_pos[v])' # "BLANK"
      <4> DEFINE s == my_pos[v]
      <4>1. s \in Slot /\ my_pos'[v] = s /\ s # my_pos[w] /\ Tid(s) = v /\ State(s) # "BLANK"
        BY <3>1, <3>2
      <4> HIDE DEF s
      <4>2. worker_thrs'[s].tid = v /\ worker_thrs'[s].state # "BLANK"
        BY <1>7, <4>1 DEF Tid, State
      <4> QED  BY <4>1, <4>2 DEF Tid, State
    <3> QED  BY <1>3, <2>2, <3>2, <3>3
  <2>3. CASE v = w
    <3>1. pc'[w] \notin {"none", "enter", "exited"}
      BY <1>3, <1>5, <2>2, <2>3
    <3>2. PICK s \in Slot : my_pos'[w] = s /\ Tid(s) = w /\ State(s) # "BLANK"
      BY <1>2, <1>5, <1>6, <2>1, <2>3, SlotsThere DEF KnowOwn
    <3>3. worker_thrs'[s].tid = w /\ worker_thrs'[s].state # "BLANK"
      BY <1>7, <3>1, <3>2 DEF Tid, State
    <3> QED  BY <2>3, <3>1, <3>2, <3>3 DEF Tid, State
  <2> QED  BY <2>2, <2>3
<1>12. Filling'
  <2>1. \A s \in Slot : (Unfilled(s)' <=> Unfilled(s)) /\ (Initialising' <=> Initialising)
    BY <1>1, <1>3 DEF Unfilled, Initialising
  <2>2. ASSUME NEW s \in Slot, Tid(s) = Nobody, State(s) = "BLANK" PROVE State(s)' = "BLANK"
    <3>1. my_pos[w] # s
      BY <1>2, <2>2, SlotsThere DEF KnowOwn
    <3> QED  BY <1>7, <2>2, <3>1
  <2> QED  BY <1>1, <1>2, <1>3, <1>7, <2>1, <2>2 DEF Filling, Initialising
<1>13. Joining'
  <2>1. \A v \in Worker : Runs(v)' => Runs(v)
    BY <1>1, <1>3 DEF Runs
  <2>2. \A s \in Slot : Tid(s) # Nobody => Tid(s) \in Worker
    BY <1>0 DEF MemoryOK, Tid
  <2>3. ASSUME NEW s \in Slot, Tid(s)' # Nobody, Runs(Tid(s))' PROVE Runs(Tid(s))
    BY <1>7, <2>1, <2>2, <2>3 DEF Runs
  <2> QED  BY <1>1, <1>2, <1>3, <1>7, <2>1, <2>3 DEF Joining
<1> QED  BY <1>9, <1>10, <1>11, <1>12, <1>13 DEF Slots

-----------------------------------------------------------------------------
(* The steps that touch no slot and no worker.                              *)

LEMMA SlotsLeft ==
  ASSUME HaveSlots, TidsApart, KnowOwn, UNCHANGED <<worker_thrs, my_pos>>,
         \A w \in Worker : pc'[w] = pc[w],
         \A s \in Slot : Marking(s) => Marking(s)'
  PROVE  HaveSlots' /\ TidsApart' /\ KnowOwn'
<1>1. \A s : Tid(s)' = Tid(s) /\ State(s)' = State(s)
  BY DEF Tid, State
<1>2. HaveSlots'  BY <1>1 DEF HaveSlots, Runs
<1>3. TidsApart'  BY <1>1 DEF TidsApart, Created
<1>4. KnowOwn'
  <2> SUFFICES ASSUME NEW w \in Worker, my_pos'[w] # -1
               PROVE  /\ pc'[w] \notin {"none", "enter", "exited"}
                      /\ (Tid(my_pos[w]) = w /\ State(my_pos[w]) # "BLANK")'
    BY DEF KnowOwn
  <2>1. Tid(my_pos[w]) = w /\ State(my_pos[w]) # "BLANK" /\ pc[w] \notin {"none", "enter", "exited"}
    BY DEF KnowOwn
  <2> QED  BY <2>1 DEF Tid, State
<1> QED  BY <1>2, <1>3, <1>4

\* Nothing that the invariant speaks of changes, but for Admin's label.
LEMMA QuietSlots ==
  ASSUME TypeOK, Slots, UNCHANGED <<worker_thrs, my_pos, early, pos>>,
         i'[Owner] = i[Owner], pc'[Owner] = pc[Owner],
         \A w \in Worker : pc'[w] = pc[w],
         \/ pc'[Admin] = pc[Admin]
         \/ pc[Admin] \notin {"mark", "exited"} /\ pc'[Admin] \notin {"mark", "count"}
  PROVE  Slots'
<1> SUFFICES ASSUME ~early' PROVE Slots'  BY DEF Slots
<1>1. HaveSlots /\ TidsApart /\ KnowOwn /\ Filling /\ Joining
  BY DEF Slots
<1>2. \A s \in Slot : Marking(s) => Marking(s)'
  BY DEF Marking
<1>3. HaveSlots' /\ TidsApart' /\ KnowOwn'
  BY <1>1, <1>2, SlotsLeft
<1>4. \A s : Tid(s)' = Tid(s) /\ State(s)' = State(s) /\ (Unfilled(s)' <=> Unfilled(s))
  BY DEF Tid, State, Unfilled
<1>5. Filling'
  BY <1>1, <1>4 DEF Filling, Initialising
<1>6. Joining'
  <2>1. \A s \in Slot : Tid(s) \in Worker \cup {Nobody}
    BY DEF TypeOK, MemoryOK, Tid
  <2>2. \A w \in Worker : Runs(w)' <=> Runs(w)
    BY DEF Runs
  <2>3. \A s \in Slot : Tid(s)' # Nobody /\ Runs(Tid(s))' => Runs(Tid(s))
    BY <1>4, <2>1, <2>2 DEF Runs
  <2> QED  BY <1>1, <1>4, <2>2, <2>3 DEF Joining
<1> QED  BY <1>3, <1>5, <1>6 DEF Slots

LEMMA ProducerSlots ==
  ASSUME TypeOK, Slots, NEW p \in Producer, ProducerNext(p)
  PROVE  Slots'
<1>1. UNCHANGED <<worker_thrs, my_pos, early, pos, i>>
  BY DEF ProducerNext, AddTask, AddTaskLocked, shared, locals, ghosts
<1>2. \E label : Goto(p, label)
  BY DEF ProducerNext, AddTask, AddTaskLocked
<1>3. pc'[Owner] = pc[Owner] /\ pc'[Admin] = pc[Admin] /\ \A w \in Worker : pc'[w] = pc[w]
  BY <1>2, ThreadsApart DEF TypeOK, ControlOK, Goto
<1> QED  BY <1>1, <1>3, QuietSlots

LEMMA SpuriousSlots ==
  ASSUME TypeOK, Slots, NEW t \in sleeping, SpuriousWakeup(t)
  PROVE  Slots'
  BY QuietSlots DEF SpuriousWakeup, shared, locals, ghosts

-----------------------------------------------------------------------------
(* Creating a worker.                                                       *)

LEMMA CreateSlots ==
  ASSUME TypeOK, HaveSlots, TidsApart, KnowOwn, UNCHANGED my_pos,
         NEW t \in {Owner, Admin}, NEW s \in Slot, Create(t, s),
         Tid(s) = Nobody \/ State(s) = "BLANK", \A r \in Slot : ~Marking(r)
  PROVE  /\ HaveSlots' /\ TidsApart' /\ KnowOwn'
         /\ pc'[t] = "mark" /\ \A u \in {Owner, Admin} \ {t} : pc'[u] = pc[u]
         /\ pos' = [pos EXCEPT ![t] = s]
         /\ \A r \in Slot \ {s} : Tid(r)' = Tid(r) /\ State(r)' = State(r)
<1>1. PICK w \in Worker \ Created :
        /\ worker_thrs' = [worker_thrs EXCEPT ![s].tid = w]
        /\ pc' = [pc EXCEPT ![w] = "enter", ![t] = "mark"]
        /\ pos' = [pos EXCEPT ![t] = s]
  BY DEF Create
<1>2. /\ pc'[t] = "mark" /\ \A u \in {Owner, Admin} \ {t} : pc'[u] = pc[u]
      /\ pc[w] = "none" /\ pc'[w] = "enter" /\ \A v \in Worker \ {w} : pc'[v] = pc[v]
  BY <1>1, ThreadsApart DEF TypeOK, ControlOK, Created
<1>3. /\ Tid(s)' = w /\ State(s)' = State(s)
      /\ \A r \in Slot \ {s} : Tid(r)' = Tid(r) /\ State(r)' = State(r)
  <2>1. \A r \in Slot : worker_thrs'[r] = IF r = s THEN [worker_thrs[r] EXCEPT !.tid = w]
                                          ELSE worker_thrs[r]
    BY <1>1 DEF TypeOK, MemoryOK
  <2>2. \A r \in Slot : worker_thrs[r] \in [tid : Worker \cup {Nobody},
                                            state : {"BLANK", "FREE", "BUSY"}]
    BY DEF TypeOK, MemoryOK
  <2> QED  BY <2>1, <2>2 DEF Tid, State
<1>4. Marking(s)'
  <2>1. pos'[t] = s  BY <1>1 DEF TypeOK, MemoryOK
  <2> QED  BY <1>2, <2>1 DEF Marking
<1>5. HaveSlots'
  <2> SUFFICES ASSUME NEW v \in Worker, Runs(v)'
               PROVE  \E r \in Slot : (Tid(r) = v /\ (State(r) # "BLANK" \/ Marking(r)))'
    BY DEF HaveSlots
  <2>1. CASE v = w
    BY <1>3, <1>4, <2>1
  <2>2. CASE v # w
    <3>1. PICK r \in Slot : Tid(r) = v /\ State(r) # "BLANK"
      BY <1>2, <2>2 DEF HaveSlots, Runs
    <3>2. r # s  BY <3>1, NobodyIsNoWorker
    <3> QED  BY <1>3, <3>1, <3>2
  <2> QED  BY <2>1, <2>2
<1>6. TidsApart'
  <2>1. Created' = Created \cup {w}
    BY <1>1, <1>2 DEF Created
  <2>2. \A r \in Slot \ {s} : Tid(r) # w
    BY <1>1, NobodyIsNoWorker DEF TidsApart
  <2>3. \A r \in Slot : Tid(r)' # Nobody => Tid(r)' \in Created'
    BY <1>3, <2>1 DEF TidsApart
  <2>4. \A r, q \in Slot : Tid(r)' = Tid(q)' /\ Tid(r)' # Nobody => r = q
    BY <1>3, <2>2 DEF TidsApart
  <2> QED  BY <2>3, <2>4 DEF TidsApart
<1>7. KnowOwn'
  <2> SUFFICES ASSUME NEW v \in Worker, my_pos'[v] # -1
               PROVE  /\ pc'[v] \notin {"none", "enter", "exited"}
                      /\ (Tid(my_pos[v]) = v /\ State(my_pos[v]) # "BLANK")'
    BY DEF KnowOwn
  <2>1. /\ my_pos[v] # -1 /\ pc[v] \notin {"none", "enter", "exited"}
        /\ Tid(my_pos[v]) = v /\ State(my_pos[v]) # "BLANK"
    BY DEF KnowOwn
  <2>2. PICK r \in Slot : my_pos[v] = r /\ my_pos'[v] = r
    BY <2>1 DEF TypeOK, MemoryOK
  <2>3. v # w /\ r # s
    BY <1>2, <2>1, <2>2, NobodyIsNoWorker
  <2>4. worker_thrs'[r].tid = v /\ worker_thrs'[r].state # "BLANK"
    BY <1>3, <2>1, <2>2, <2>3 DEF Tid, State
  <2> QED  BY <1>2, <2>1, <2>2, <2>3, <2>4 DEF Tid, State
<1> QED  BY <1>1, <1>2, <1>3, <1>5, <1>6, <1>7

LEMMA MarkSlots ==
  ASSUME TypeOK, Slots, NEW t \in {Owner, Admin}, MarkCreated(t)
  PROVE  Slots'
<1> SUFFICES ASSUME ~early' PROVE Slots'  BY DEF Slots
<1>1. /\ HaveSlots /\ TidsApart /\ KnowOwn /\ Filling /\ Joining
      /\ UNCHANGED <<my_pos, i, pos>>
  BY DEF Slots, MarkCreated, ghosts
<1>2. PICK p \in Slot : pos[t] = p
  BY DEF TypeOK, MemoryOK
<1>3. /\ pc[t] = "mark" /\ pc'[t] = "count"
      /\ \A u \in {Owner, Admin} \ {t} : pc'[u] = pc[u]
      /\ \A w \in Worker : pc'[w] = pc[w]
  BY ThreadsApart DEF MarkCreated, Goto, TypeOK, ControlOK
<1>4. /\ \A s \in Slot : Tid(s)' = Tid(s)
      /\ State(p)' = "FREE" /\ \A s \in Slot \ {p} : State(s)' = State(s)
  <2>1. \A s \in Slot : worker_thrs'[s] = IF s = p THEN [worker_thrs[s] EXCEPT !.state = "FREE"]
                                          ELSE worker_thrs[s]
    BY <1>2 DEF MarkCreated, TypeOK, MemoryOK
  <2>2. \A s \in Slot : worker_thrs[s] \in [tid : Worker \cup {Nobody},
                                            state : {"BLANK", "FREE", "BUSY"}]
    BY DEF TypeOK, MemoryOK
  <2> QED  BY <2>1, <2>2 DEF Tid, State
<1>5. HaveSlots'
  <2> SUFFICES ASSUME NEW v \in Worker, Runs(v)'
               PROVE  \E s \in Slot : (Tid(s) = v /\ (State(s) # "BLANK" \/ Marking(s)))'
    BY DEF HaveSlots
  <2>1. PICK s \in Slot : Tid(s) = v /\ (State(s) # "BLANK" \/ Marking(s))
    BY <1>1, <1>3 DEF HaveSlots, Runs
  <2>2. s # p /\ Marking(s) => Marking(s)'
    BY <1>1, <1>2, <1>3 DEF Marking
  <2> QED  BY <1>4, <2>1, <2>2
<1>6. TidsApart'
  BY <1>1, <1>3, <1>4 DEF TidsApart, Created
<1>7. KnowOwn'
  <2> SUFFICES ASSUME NEW v \in Worker, my_pos'[v] # -1
               PROVE  /\ pc'[v] \notin {"none", "enter", "exited"}
                      /\ (Tid(my_pos[v]) = v /\ State(my_pos[v]) # "BLANK")'
    BY DEF KnowOwn
  <2>1. /\ my_pos[v] # -1 /\ pc[v] \notin {"none", "enter", "exited"}
        /\ Tid(my_pos[v]) = v /\ State(my_pos[v]) # "BLANK"
    BY <1>1 DEF KnowOwn
  <2>2. PICK r \in Slot : my_pos[v] = r /\ my_pos'[v] = r
    BY <1>1, <2>1 DEF TypeOK, MemoryOK
  <2>3. worker_thrs'[r].tid = v /\ worker_thrs'[r].state # "BLANK"
    BY <1>4, <2>1, <2>2 DEF Tid, State
  <2> QED  BY <1>3, <2>1, <2>2, <2>3 DEF Tid, State
<1>8. Filling'
  <2> SUFFICES ASSUME Initialising' PROVE Filling'  BY DEF Filling
  <2>1. Initialising /\ t = Owner
    BY <1>1, <1>3 DEF Initialising, Filling
  <2>2. /\ pos[Owner] = i[Owner] /\ pc'[Admin] = pc[Admin] /\ i[Owner] \in Nat
        /\ \A s \in Slot : Unfilled(s)' => Unfilled(s) /\ s # p
    BY <1>1, <1>2, <1>3, <2>1, ThreadsApart, SlotsThere DEF Filling, Unfilled, TypeOK, MemoryOK
  <2> QED  BY <1>1, <1>4, <2>1, <2>2 DEF Filling
<1>9. Joining'
  <2>1. pc'[Owner] \notin {"reap", "freed"}
    BY <1>1, <1>3 DEF Joining
  <2>2. pc'[Owner] \in {"open", "announce", "closed", "join"} => pc'[Owner] = pc[Owner]
    BY <1>3
  <2> QED  BY <1>1, <2>1, <2>2 DEF Joining
<1> QED  BY <1>5, <1>6, <1>7, <1>8, <1>9 DEF Slots

LEMMA CountSlots ==
  ASSUME TypeOK, Slots, NEW t \in {Owner, Admin}, CountCreated(t)
  PROVE  Slots'
<1> SUFFICES ASSUME ~early' PROVE Slots'  BY DEF Slots
<1>1. /\ HaveSlots /\ TidsApart /\ KnowOwn /\ Filling /\ Joining
      /\ UNCHANGED <<worker_thrs, my_pos>>
  BY DEF Slots, CountCreated, ghosts
<1>2. /\ pc[t] = "count" /\ pc'[t] = "spawn"
      /\ \A u \in {Owner, Admin} \ {t} : pc'[u] = pc[u] /\ i'[u] = i[u] /\ pos'[u] = pos[u]
      /\ i'[t] = i[t] + 1
      /\ \A w \in Worker : pc'[w] = pc[w]
  BY ThreadsApart DEF CountCreated, Goto, TypeOK, ControlOK, MemoryOK
<1>3. \A s \in Slot : Marking(s) => Marking(s)'
  BY <1>2 DEF Marking
<1>4. HaveSlots' /\ TidsApart' /\ KnowOwn'
  BY <1>1, <1>2, <1>3, SlotsLeft
<1>5. Filling'
  <2> SUFFICES ASSUME Initialising' PROVE Filling'  BY DEF Filling
  <2>1. Initialising /\ t = Owner
    BY <1>1, <1>2 DEF Initialising, Filling
  <2>2. /\ i[Owner] \in Nat /\ i'[Owner] = i[Owner] + 1
        /\ pc[Owner] = "count" /\ pc'[Owner] = "spawn" /\ pc'[Admin] = pc[Admin]
    BY <1>2, <2>1, ThreadsApart DEF TypeOK, MemoryOK
  <2>3. \A s \in Slot : Unfilled(s)' => Unfilled(s)
    <3> SUFFICES ASSUME NEW s \in Slot, Unfilled(s)' PROVE Unfilled(s)  OBVIOUS
    <3>1. s >= i'[Owner] /\ s \in Nat  BY <2>2, SlotsThere DEF Unfilled
    <3>2. s > i[Owner]  BY <2>2, <3>1
    <3> QED  BY <2>2, <3>2 DEF Unfilled
  <2>4. \A s : Tid(s)' = Tid(s) /\ State(s)' = State(s)
    BY <1>1 DEF Tid, State
  <2> QED  BY <1>1, <2>1, <2>2, <2>3, <2>4 DEF Filling
<1>6. Joining'
  <2>1. pc'[Owner] \notin {"reap", "freed"}
    BY <1>1, <1>2 DEF Joining
  <2>2. pc'[Owner] \in {"open", "announce", "closed", "join"} =>
           pc'[Owner] = pc[Owner] /\ i'[Owner] = i[Owner]
    BY <1>2
  <2> QED  BY <1>1, <2>1, <2>2 DEF Joining
<1> QED  BY <1>4, <1>5, <1>6 DEF Slots

-----------------------------------------------------------------------------
(* Admin.                                                                   *)

LEMMA AdminSpawnSlots ==
  ASSUME TypeOK, Slots, AdminSpawn
  PROVE  Slots'
<1> SUFFICES ASSUME ~early' PROVE Slots'  BY DEF Slots
<1>1. /\ pc[Admin] = "spawn" /\ UNCHANGED my_pos
      /\ i'[Owner] = i[Owner] /\ i[Owner] \in Nat
  BY ThreadsApart DEF AdminSpawn, TypeOK, MemoryOK
<1>2. CASE \E s \in FreePos : Create(Admin, s) /\ early' = (early \/ Initialising)
  <2>1. PICK s \in Slot : State(s) = "BLANK" /\ Create(Admin, s)
    BY <1>2 DEF FreePos, State
  <2>2. ~early /\ ~Initialising
    BY <1>2 DEF Slots, TypeOK, MemoryOK, Initialising
  <2>3. HaveSlots /\ TidsApart /\ KnowOwn /\ Joining
    BY <2>2 DEF Slots
  <2>4. \A r \in Slot : ~Marking(r)
    BY <1>1, <2>2 DEF Marking, Initialising
  <2>5. /\ HaveSlots' /\ TidsApart' /\ KnowOwn' /\ pc'[Owner] = pc[Owner]
    BY <1>1, <2>1, <2>3, <2>4, CreateSlots, ThreadsApart
  <2>6. Filling'
    BY <2>2, <2>5 DEF Filling, Initialising
  <2>7. Joining'
    BY <1>1, <2>3, <2>5 DEF Joining
  <2> QED  BY <2>5, <2>6, <2>7 DEF Slots
<1>3. CASE UNCHANGED <<worker_thrs, pos, early>> /\ (Goto(Admin, "sleep") \/ UNCHANGED pc)
  <2>1. /\ pc'[Owner] = pc[Owner] /\ \A w \in Worker : pc'[w] = pc[w]
        /\ pc'[Admin] = pc[Admin] \/ pc'[Admin] = "sleep"
    BY <1>3, ThreadsApart DEF Goto, TypeOK, ControlOK
  <2> QED  BY <1>1, <1>3, <2>1, QuietSlots
<1> QED  BY <1>2, <1>3 DEF AdminSpawn

LEMMA AdminSlots ==
  ASSUME TypeOK, Slots, AdminNext
  PROVE  Slots'
<1>1. CASE AdminScan \/ AdminTestLayoff \/ AdminLayoff \/ AdminTestGrow \/ AdminSleep
  <2>1. /\ UNCHANGED <<worker_thrs, my_pos, early, pos, i>>
        /\ pc[Admin] \notin {"mark", "exited"}
        /\ \E label \in AdminLabel \ {"mark", "count"} : Goto(Admin, label)
    BY <1>1 DEF AdminScan, AdminTestLayoff, AdminLayoff, AdminTestGrow, AdminSleep,
                AdminLabel, shared, locals, ghosts
  <2>2. /\ pc'[Owner] = pc[Owner] /\ pc'[Admin] \notin {"mark", "count"}
        /\ \A w \in Worker : pc'[w] = pc[w]
    BY <2>1, ThreadsApart DEF Goto, TypeOK, ControlOK
  <2> QED  BY <2>1, <2>2, QuietSlots
<1>2. CASE AdminSpawn
  BY <1>2, AdminSpawnSlots
<1>3. CASE MarkCreated(Admin) \/ CountCreated(Admin)
  BY <1>3, MarkSlots, CountSlots
<1> QED  BY <1>1, <1>2, <1>3 DEF AdminNext

-----------------------------------------------------------------------------
(* Owner.                                                                   *)

LEMMA OwnerSpawnSlots ==
  ASSUME TypeOK, Slots, OwnerSpawn
  PROVE  Slots'
<1> SUFFICES ASSUME ~early' PROVE Slots'  BY DEF Slots
<1>1. /\ pc[Owner] = "spawn" /\ UNCHANGED my_pos
      /\ HaveSlots /\ TidsApart /\ KnowOwn /\ Filling /\ Initialising
  BY DEF OwnerSpawn, Slots, ghosts, Initialising
<1>2. PICK s \in Slot : i[Owner] = s
  BY PoolAssumption DEF OwnerSpawn, TypeOK, MemoryOK, Slot
<1>3. CASE Create(Owner, i[Owner]) /\ UNCHANGED i
  <2>1. Tid(s) = Nobody
    BY <1>1, <1>2, SlotsThere DEF Filling, Unfilled
  <2>2. \A r \in Slot : ~Marking(r)
    BY <1>1 DEF Marking, Filling
  <2>3. /\ HaveSlots' /\ TidsApart' /\ KnowOwn'
        /\ pc'[Owner] = "mark" /\ pc'[Admin] = pc[Admin]
        /\ pos' = [pos EXCEPT ![Owner] = s]
        /\ \A r \in Slot \ {s} : Tid(r)' = Tid(r) /\ State(r)' = State(r)
    BY <1>1, <1>2, <1>3, <2>1, <2>2, CreateSlots, ThreadsApart
  <2>4. Filling'
    <3>1. pos'[Owner] = i'[Owner] /\ i'[Owner] = s
      BY <1>2, <1>3, <2>3 DEF TypeOK, MemoryOK
    <3>2. \A r \in Slot : Unfilled(r)' => Unfilled(r) /\ r # s
      BY <1>1, <1>2, <2>3, <3>1, SlotsThere DEF Unfilled
    <3> QED  BY <1>1, <2>3, <3>1, <3>2 DEF Filling
  <2>5. Joining'
    BY <2>3 DEF Joining
  <2> QED  BY <2>3, <2>4, <2>5 DEF Slots
<1>4. CASE Goto(Owner, "join") /\ i' = [i EXCEPT ![Owner] = 0] /\ UNCHANGED <<worker_thrs, pos>>
  <2>1. /\ pc'[Owner] = "join" /\ i'[Owner] = 0 /\ pc'[Admin] = pc[Admin]
        /\ \A w \in Worker : pc'[w] = pc[w]
    BY <1>4, ThreadsApart DEF Goto, TypeOK, ControlOK, MemoryOK
  <2>2. \A r \in Slot : Marking(r) => Marking(r)'
    BY <1>1, <1>4, <2>1 DEF Marking
  <2>3. HaveSlots' /\ TidsApart' /\ KnowOwn'
    BY <1>1, <1>4, <2>1, <2>2, SlotsLeft
  <2>4. Filling' /\ Joining'
    BY <2>1 DEF Filling, Joining, Initialising
  <2> QED  BY <2>3, <2>4 DEF Slots
<1> QED  BY <1>3, <1>4 DEF OwnerSpawn

LEMMA OwnerBlankSlots ==
  ASSUME TypeOK, Slots, OwnerBlank
  PROVE  Slots'
<1> SUFFICES ASSUME ~early' PROVE Slots'  BY DEF Slots
<1>1. /\ pc[Owner] = "spawn" /\ UNCHANGED <<my_pos, pos>> /\ i[Owner] \in Nat
      /\ HaveSlots /\ TidsApart /\ KnowOwn /\ Filling /\ Initialising
  BY DEF OwnerBlank, Slots, ghosts, Initialising, TypeOK, MemoryOK
<1>2. CASE /\ i[Owner] < MaxThrs /\ UNCHANGED pc /\ i' = [i EXCEPT ![Owner] = @ + 1]
           /\ worker_thrs' = [worker_thrs EXCEPT ![i[Owner]].state = "BLANK"]
  <2>1. PICK s \in Slot : i[Owner] = s
    BY <1>1, <1>2, PoolAssumption DEF Slot
  <2>2. Tid(s) = Nobody
    BY <1>1, <2>1, SlotsThere DEF Filling, Unfilled
  <2>3. /\ \A r \in Slot : Tid(r)' = Tid(r)
        /\ State(s)' = "BLANK" /\ \A r \in Slot \ {s} : State(r)' = State(r)
    <3>1. \A r \in Slot : worker_thrs'[r] = IF r = s THEN [worker_thrs[r] EXCEPT !.state = "BLANK"]
                                            ELSE worker_thrs[r]
      BY <1>2, <2>1 DEF TypeOK, MemoryOK
    <3>2. \A r \in Slot : worker_thrs[r] \in [tid : Worker \cup {Nobody},
                                              state : {"BLANK", "FREE", "BUSY"}]
      BY DEF TypeOK, MemoryOK
    <3> QED  BY <3>1, <3>2 DEF Tid, State
  <2>4. \A r \in Slot : Marking(r)' <=> Marking(r)
    BY <1>1, <1>2 DEF Marking
  <2>5. HaveSlots'
    <3> SUFFICES ASSUME NEW v \in Worker, Runs(v)'
                 PROVE  \E r \in Slot : (Tid(r) = v /\ (State(r) # "BLANK" \/ Marking(r)))'
      BY DEF HaveSlots
    <3>1. PICK r \in Slot : Tid(r) = v /\ (State(r) # "BLANK" \/ Marking(r))
      BY <1>1, <1>2 DEF HaveSlots, Runs
    <3>2. r # s  BY <2>2, <3>1, NobodyIsNoWorker
    <3> QED  BY <2>3, <2>4, <3>1, <3>2
  <2>6. TidsApart'
    BY <1>1, <1>2, <2>3 DEF TidsApart, Created
  <2>7. KnowOwn'
    <3> SUFFICES ASSUME NEW v \in Worker, my_pos'[v] # -1
                 PROVE  /\ pc'[v] \notin {"none", "enter", "exited"}
                        /\ (Tid(my_pos[v]) = v /\ State(my_pos[v]) # "BLANK")'
      BY DEF KnowOwn
    <3>1. /\ my_pos[v] # -1 /\ pc[v] \notin {"none", "enter", "exited"}
          /\ Tid(my_pos[v]) = v /\ State(my_pos[v]) # "BLANK"
      BY <1>1 DEF KnowOwn
    <3>2. PICK r \in Slot : my_pos[v] = r /\ my_pos'[v] = r
      BY <1>1, <3>1 DEF TypeOK, MemoryOK
    <3>3. r # s  BY <2>2, <3>1, <3>2, NobodyIsNoWorker
    <3>4. worker_thrs'[r].tid = v /\ worker_thrs'[r].state # "BLANK"
      BY <2>3, <3>1, <3>2, <3>3 DEF Tid, State
    <3> QED  BY <1>2, <3>1, <3>2, <3>4 DEF Tid, State
  <2>8. Filling'
    <3>1. i'[Owner] = i[Owner] + 1  BY <1>2 DEF TypeOK, MemoryOK
    <3>2. \A r \in Slot : Unfilled(r)' => Unfilled(r) /\ r # s
      BY <1>1, <1>2, <2>1, <3>1, SlotsThere DEF Unfilled
    <3> QED  BY <1>1, <1>2, <2>3, <3>2 DEF Filling
  <2>9. Joining'
    BY <1>1, <1>2 DEF Joining
  <2> QED  BY <2>5, <2>6, <2>7, <2>8, <2>9 DEF Slots
<1>3. CASE Goto(Owner, "open") /\ i' = [i EXCEPT ![Owner] = 0] /\ UNCHANGED worker_thrs
  <2>1. /\ pc'[Owner] = "open" /\ i'[Owner] = 0 /\ pc'[Admin] = pc[Admin]
        /\ \A w \in Worker : pc'[w] = pc[w]
    BY <1>3, ThreadsApart DEF Goto, TypeOK, ControlOK, MemoryOK
  <2>2. \A r \in Slot : Marking(r) => Marking(r)'
    BY <1>1, <2>1 DEF Marking
  <2>3. HaveSlots' /\ TidsApart' /\ KnowOwn'
    BY <1>1, <1>3, <2>1, <2>2, SlotsLeft
  <2>4. Filling' /\ Joining'
    BY <2>1 DEF Filling, Joining, Initialising
  <2> QED  BY <2>3, <2>4 DEF Slots
<1> QED  BY <1>2, <1>3 DEF OwnerBlank

\* A slot of a running worker is not passed: once nobody marks it is not
\* BLANK, so its thread is joined.
LEMMA ReapSlots ==
  ASSUME TypeOK, Slots, Reap
  PROVE  Slots'
<1> SUFFICES ASSUME ~early' PROVE Slots'  BY DEF Slots
<1>1. /\ HaveSlots /\ TidsApart /\ KnowOwn /\ Joining
      /\ UNCHANGED <<worker_thrs, my_pos, pos>>
      /\ pc[Owner] = "reap" /\ pc[Admin] = "exited" /\ i[Owner] \in Nat
  BY DEF Reap, Slots, shared, ghosts, Joining, TypeOK, MemoryOK
<1>2. /\ pc'[Owner] \in {"reap", "freed"} /\ pc'[Admin] = pc[Admin]
      /\ \A w \in Worker : pc'[w] = pc[w]
  BY <1>1, ThreadsApart DEF Reap, Goto, TypeOK, ControlOK
<1>3. \A s \in Slot : ~Marking(s)
  BY <1>1 DEF Marking
<1>4. HaveSlots' /\ TidsApart' /\ KnowOwn'
  BY <1>1, <1>2, <1>3, SlotsLeft
<1>5. Filling'
  BY <1>2 DEF Filling, Initialising
<1>6. \A s \in Slot : Tid(s) \in Worker \cup {Nobody} /\ Tid(s)' = Tid(s)
  BY <1>1 DEF TypeOK, MemoryOK, Tid
<1>7. \A w \in Worker : Runs(w)' <=> Runs(w)
  BY <1>2 DEF Runs
<1>8. CASE i[Owner] < MaxThrs /\ JoinReturns(i[Owner]) /\ i' = [i EXCEPT ![Owner] = @ + 1]
           /\ UNCHANGED pc
  <2>1. PICK s \in Slot : i[Owner] = s
    BY <1>1, <1>8, PoolAssumption DEF Slot
  <2>2. Tid(s) # Nobody => ~Runs(Tid(s))
    <3> SUFFICES ASSUME Tid(s) \in Worker, Runs(Tid(s)) PROVE FALSE
      BY <1>6
    <3>1. PICK r \in Slot : Tid(r) = Tid(s) /\ State(r) # "BLANK"
      BY <1>1, <1>3 DEF HaveSlots
    <3>2. r = s  BY <1>1, <3>1, NobodyIsNoWorker DEF TidsApart
    <3> QED  BY <1>8, <2>1, <3>1, <3>2 DEF JoinReturns, Runs, Tid, State
  <2>3. i'[Owner] = i[Owner] + 1  BY <1>8 DEF TypeOK, MemoryOK
  <2>4. \A r \in Slot : r < i'[Owner] => r < i[Owner] \/ r = s
    BY <1>1, <2>1, <2>3, SlotsThere
  <2>5. \A r \in Slot : r < i'[Owner] /\ Tid(r) # Nobody => ~Runs(Tid(r))
    BY <1>1, <2>2, <2>4 DEF Joining
  <2>6. \A r \in Slot : r < i'[Owner] /\ Tid(r)' # Nobody => ~Runs(Tid(r))'
    BY <1>6, <1>7, <2>5 DEF Runs
  <2>7. Joining'
    BY <1>1, <1>8, <2>6 DEF Joining
  <2> QED  BY <1>4, <1>5, <2>7 DEF Slots
<1>9. CASE i[Owner] = MaxThrs /\ Goto(Owner, "freed") /\ UNCHANGED i
  <2>1. ASSUME NEW w \in Worker PROVE ~Runs(w)
    <3> SUFFICES ASSUME Runs(w) PROVE FALSE  OBVIOUS
    <3>1. PICK s \in Slot : Tid(s) = w
      BY <1>1 DEF HaveSlots
    <3>2. s < i[Owner]
      BY <1>9, PoolAssumption DEF Slot
    <3> QED  BY <1>1, <3>1, <3>2, NobodyIsNoWorker DEF Joining
  <2>2. pc'[Owner] = "freed"
    BY <1>9 DEF Goto, TypeOK, ControlOK, Thread
  <2>3. Joining'
    BY <1>1, <1>2, <1>7, <2>1, <2>2 DEF Joining
  <2> QED  BY <1>4, <1>5, <2>3 DEF Slots
<1> QED  BY <1>8, <1>9 DEF Reap

\* The calls and steps of Owner that only move it on.
LEMMA OwnerMoves ==
  ASSUME TypeOK, Slots, OwnerStart \/ Shutdown \/ Announce \/ Destroy \/ JoinAdmin
  PROVE  Slots'
<1> SUFFICES ASSUME ~early' PROVE Slots'  BY DEF Slots
<1>1. UNCHANGED <<worker_thrs, my_pos, early, i, pos>>
  BY DEF OwnerStart, Shutdown, Announce, Destroy, JoinAdmin, shared, locals, ghosts
<1>2. HaveSlots /\ TidsApart /\ KnowOwn /\ Filling /\ Joining
  BY <1>1 DEF Slots
<1>3. /\ \A w \in Worker : pc'[w] = pc[w]
      /\ pc[Owner] # "mark" /\ pc'[Owner] \notin {"mark", "count", "freed"}
      /\ \/ pc'[Admin] = pc[Admin]
         \/ pc[Owner] = "start" /\ pc'[Admin] = "lock"
      /\ pc'[Owner] = "spawn" \/ pc'[Owner] \in {"announce", "closed", "join", "reap"}
  BY ThreadsApart DEF OwnerStart, Shutdown, Announce, Destroy, JoinAdmin, Goto, TypeOK, ControlOK
<1>4. /\ pc'[Owner] = "spawn" <=> pc[Owner] = "start"
      /\ pc[Owner] \in {"start", "open", "announce", "closed", "join"}
      /\ pc'[Owner] = "reap" => pc[Owner] = "join" /\ pc[Admin] = "exited" /\ pc'[Admin] = "exited"
  BY ThreadsApart DEF OwnerStart, Shutdown, Announce, Destroy, JoinAdmin, Goto, TypeOK, ControlOK
<1>5. \A s \in Slot : Marking(s) => Marking(s)'
  BY <1>1, <1>2, <1>3, <1>4 DEF Marking, Filling, Initialising
<1>6. HaveSlots' /\ TidsApart' /\ KnowOwn'
  BY <1>1, <1>2, <1>3, <1>5, SlotsLeft
<1>7. Filling'
  <2> SUFFICES ASSUME Initialising' PROVE Filling'  BY DEF Filling
  <2>1. Initialising /\ pc[Owner] = "start" /\ pc'[Owner] = "spawn"
    BY <1>3, <1>4 DEF Initialising
  <2>2. \A s : Tid(s)' = Tid(s) /\ State(s)' = State(s) /\ (Unfilled(s)' <=> Unfilled(s))
    BY <1>1, <2>1 DEF Tid, State, Unfilled
  <2> QED  BY <1>2, <1>3, <2>1, <2>2 DEF Filling
<1>8. Joining'
  <2>1. pc'[Owner] \in {"announce", "closed", "join", "reap"} => i[Owner] = 0
    BY <1>2, <1>3, <1>4 DEF Joining
  <2>2. \A s \in Slot : ~(s < 0)
    BY SlotsThere
  <2> QED  BY <1>1, <1>3, <1>4, <2>1, <2>2 DEF Joining
<1> QED  BY <1>6, <1>7, <1>8 DEF Slots

-----------------------------------------------------------------------------

LEMMA SlotsInit == Init => Slots
<1> SUFFICES ASSUME Init PROVE Slots  OBVIOUS
<1>1. /\ \A s \in Slot : Tid(s) = Nobody /\ State(s) = "BLANK"
      /\ \A w \in Worker : pc[w] = "none" /\ my_pos[w] = -1
      /\ pc[Owner] = "start" /\ pc[Admin] = "none"
  BY ThreadsApart DEF Init, Tid, State
<1> QED
  BY <1>1 DEF Slots, HaveSlots, TidsApart, KnowOwn, Filling, Joining, Runs

LEMMA SlotsStep ==
  ASSUME TypeOK, Slots, [Next]_vars  PROVE Slots'
<1>1. CASE Next
  BY <1>1, OwnerSpawnSlots, OwnerBlankSlots, OwnerMoves, ReapSlots, MarkSlots, CountSlots,
     AdminSlots, WorkerSlots, ProducerSlots, SpuriousSlots DEF Next, OwnerWork
<1>2. CASE UNCHANGED vars
  BY <1>2, QuietSlots DEF vars, shared, locals, ghosts
<1> QED  BY <1>1, <1>2

THEOREM SlotsAlways == Spec => []Slots
<1>1. Spec => []TypeOK  BY TypeCorrect
<1>2. TypeOK /\ Slots /\ [Next]_vars => Slots'  BY SlotsStep
<1> QED  BY <1>1, <1>2, SlotsInit, PTL DEF Spec

\* Every running worker has a slot of its own, which thr_pool_destroy will
\* see, unless Admin grew the pool while thr_pool_init was filling it.
THEOREM EveryWorkerHasItsSlot == Spec => []OwnSlot
<1>1. Slots => OwnSlot
  BY DEF Slots, OwnSlot, HaveSlots, Running, Runs, Marking, Tid, State
<1> QED  BY <1>1, SlotsAlways, PTL

\* With the same proviso thr_pool_destroy frees the pool after the last worker
\* has gone.
THEOREM FreedAfterTheLast == Spec => []JoinedBeforeFree
<1>1. Slots => JoinedBeforeFree
  BY DEF Slots, Joining, JoinedBeforeFree, Running, Runs
<1> QED  BY <1>1, SlotsAlways, PTL

-----------------------------------------------------------------------------
(* 4. Why a worker that dequeues finds a task: while no worker has retired  *)
(* and the slots are sound, the reason for which it left the wait loop      *)
(* under queue_mut still stands when it looks again.                        *)

Quiet == ~early /\ ~retired

\* Between the tests at the top of a turn and the dequeue, the mutex is held.
QueueHeld ==
    \A w \in Worker : pc[w] \in {"sleep", "recheck", "retire"} => queue_mut = w

Reason(w) == ~queue_empty(task_queue) \/ shutdown \/ MayRetire(my_pos[w])

Turns ==
    \A w \in Worker :
        /\ pc[w] # "retire"
        /\ pc[w] = "recheck" => Reason(w)
        /\ pc[w] \in {"taken", "tell", "run"} => task[w] # NoTask

\* live_thrs only grows, so that what Admin asks to leave is never negative
\* or zero.
Counting ==
    /\ \A t \in {Owner, Admin} : pc[t] = "count" => loaded[t].live = live_thrs
    /\ pc[Admin] = "trim" => /\ busy * 2 < loaded[Admin].live
                             /\ MinThrs < loaded[Admin].live
                             /\ loaded[Admin].live <= live_thrs

Sense == QueueHeld /\ (Quiet => Turns /\ Counting)

LEMMA AsksPositive ==
  ASSUME NEW live \in Int, NEW l \in Int, l <= live, busy \in Nat, busy * 2 < l, MinThrs < l
  PROVE  ToExit(live) > 0
<1>1. live - busy >= 2
  BY PoolAssumption
<1>2. Half(live - busy) >= 1 /\ Half(live - busy) \in Int
  BY <1>1 DEF Half
<1> QED  BY <1>2, PoolAssumption DEF ToExit

LEMMA TaskAtHead ==
  ASSUME TypeOK, TaskOrder, ~queue_empty(task_queue)
  PROVE  queue_deq_data(task_queue, NoTask) # NoTask
<1> DEFINE c == QueueContents(task_queue)
<1>1. /\ c \in Seq(Task \cup {NoTask}) /\ c # <<>>
      /\ queue_deq_data(task_queue, NoTask) = Head(c)
  BY ContentsType, DeqTakesHead DEF Contents
<1>2. /\ accepted = taken \o c /\ accepted \in Seq(Task) /\ taken \in Seq(Task \cup {NoTask})
  BY DEF TaskOrder, TypeOK, MemoryOK
<1> HIDE DEF c
<1>3. /\ Head(c) = c[1] /\ Len(taken) + 1 \in 1 .. Len(accepted)
      /\ accepted[Len(taken) + 1] = c[1]
  BY <1>1, <1>2
<1>4. c[1] \in Task  BY <1>2, <1>3
<1> QED  BY <1>1, <1>3, <1>4, ThreadAssumption

\* A state that is FREE in the slot of worker w remains FREE, but for w.
LEMMA FreeStays ==
  ASSUME TypeOK, Slots, ~early', NEW w \in Worker, my_pos[w] # -1,
         State(my_pos[w]) = "FREE",
         \/ \E v \in Worker \ {w} : WorkerNext(v)
         \/ AdminNext \/ OwnerWork \/ Shutdown \/ Destroy
         \/ \E p \in Producer : ProducerNext(p)
         \/ \E t \in sleeping : SpuriousWakeup(t)
  PROVE  worker_thrs'[my_pos[w]].state = "FREE"
<1>1. PICK s \in Slot : my_pos[w] = s /\ worker_thrs[s].state = "FREE"
  BY DEF TypeOK, MemoryOK, State
<1>2. worker_thrs[s] \in [tid : Worker \cup {Nobody}, state : {"BLANK", "FREE", "BUSY"}]
  BY DEF TypeOK, MemoryOK
<1>3. SUFFICES ASSUME worker_thrs' # worker_thrs PROVE worker_thrs'[s].state = "FREE"
  BY <1>1
<1>4. ASSUME NEW t \in {Owner, Admin}, MarkCreated(t)  PROVE worker_thrs'[s].state = "FREE"
  <2>1. PICK r \in Slot : pos[t] = r  BY DEF TypeOK, MemoryOK
  <2>2. worker_thrs'[s] = IF s = r THEN [worker_thrs[s] EXCEPT !.state = "FREE"]
                          ELSE worker_thrs[s]
    BY <1>4, <2>1 DEF MarkCreated, TypeOK, MemoryOK
  <2> QED  BY <1>1, <1>2, <2>2
<1>5. ASSUME NEW t \in {Owner, Admin}, NEW r \in Slot, Create(t, r)
      PROVE  worker_thrs'[s].state = "FREE"
  <2>1. PICK v \in Worker : worker_thrs' = [worker_thrs EXCEPT ![r].tid = v]
    BY <1>5 DEF Create
  <2>2. worker_thrs'[s] = IF s = r THEN [worker_thrs[s] EXCEPT !.tid = v] ELSE worker_thrs[s]
    BY <2>1 DEF TypeOK, MemoryOK
  <2> QED  BY <1>1, <1>2, <2>2
<1>6. ASSUME NEW v \in Worker \ {w}, WorkerNext(v)  PROVE worker_thrs'[s].state = "FREE"
  <2>1. ~early /\ KnowOwn
    BY <1>6 DEF Slots, WorkerNext, WorkerEnter, WorkerSleep, WorkerWake, WorkerRecheck,
                WorkerRetire, WorkerMarkBusy, WorkerTellBusy, WorkerRun, WorkerMarkFree, ghosts
  <2>2. \E st : WritesOwn(v, st)
    BY <1>3, <1>6 DEF WorkerNext, WorkerEnter, WorkerSleep, WorkerWake, WorkerRecheck,
                WorkerRetire, WorkerMarkBusy, WorkerTellBusy, WorkerRun, WorkerMarkFree, shared,
                WritesOwn
  <2>3. my_pos[v] # s
    BY <1>1, <2>1, SlotsThere DEF KnowOwn
  <2> QED  BY <1>1, <2>2, <2>3 DEF WritesOwn, TypeOK, MemoryOK
<1>7. ASSUME OwnerBlank  PROVE worker_thrs'[s].state = "FREE"
  <2>1. /\ ~early /\ KnowOwn /\ Filling /\ Initialising /\ pc[Owner] = "spawn"
    BY <1>7 DEF Slots, OwnerBlank, ghosts, Initialising
  <2>2. Tid(s) = w
    BY <1>1, <2>1, SlotsThere DEF KnowOwn
  <2>3. s # i[Owner]
    BY <2>1, <2>2, NobodyIsNoWorker, SlotsThere DEF Filling, Unfilled
  <2> QED  BY <1>1, <1>3, <1>7, <2>3 DEF OwnerBlank, TypeOK, MemoryOK
<1>8. ASSUME OwnerSpawn  PROVE worker_thrs'[s].state = "FREE"
  <2>1. Create(Owner, i[Owner]) /\ i[Owner] \in Slot
    BY <1>3, <1>8, PoolAssumption DEF OwnerSpawn, TypeOK, MemoryOK, Slot
  <2> QED  BY <1>5, <2>1
<1>9. ASSUME AdminSpawn  PROVE worker_thrs'[s].state = "FREE"
  BY <1>3, <1>5, <1>9 DEF AdminSpawn, FreePos
<1>10. \/ \E t \in {Owner, Admin} : MarkCreated(t)
       \/ \E v \in Worker \ {w} : WorkerNext(v)
       \/ OwnerBlank \/ OwnerSpawn \/ AdminSpawn
  BY <1>3 DEF AdminNext, AdminScan, AdminTestLayoff, AdminLayoff, AdminTestGrow, AdminSleep,
     CountCreated, OwnerWork, OwnerStart, Announce, JoinAdmin, Reap, Shutdown, Destroy,
     ProducerNext, AddTask, AddTaskLocked, SpuriousWakeup, shared
<1> QED  BY <1>4, <1>6, <1>7, <1>8, <1>9, <1>10

LEMMA WorkerSense ==
  ASSUME TypeOK, Slots, TaskOrder, Sense, NEW w \in Worker, WorkerNext(w)
  PROVE  Sense'
<1>0. ControlOK /\ MemoryOK /\ QueueHeld
  BY DEF TypeOK, Sense
<1>1. /\ \E label : Goto(w, label)
      /\ UNCHANGED <<early, busy>> /\ (retired => retired') /\ (shutdown => shutdown')
      /\ retired' \in BOOLEAN /\ early \in BOOLEAN
  BY <1>0 DEF WorkerNext, WorkerEnter, WorkerSleep, WorkerWake, WorkerRecheck, WorkerRetire,
         WorkerMarkBusy, WorkerTellBusy, WorkerRun, WorkerMarkFree, StartRetiring,
         locals, ghosts, MemoryOK
<1>2. /\ pc'[Owner] = pc[Owner] /\ pc'[Admin] = pc[Admin]
      /\ \A v \in Worker \ {w} : pc'[v] = pc[v]
  BY <1>0, <1>1, ThreadsApart DEF ControlOK, Goto
<1>3. /\ \A v \in Worker \ {w} : my_pos'[v] = my_pos[v] /\ task'[v] = task[v]
      /\ \A v \in Worker \ {w} : queue_mut = v => queue_mut' = v /\ task_queue' = task_queue
  <2>1. \A v \in Worker \ {w} : my_pos'[v] = my_pos[v] /\ task'[v] = task[v]
    BY <1>0 DEF WorkerNext, WorkerEnter, WorkerSleep, WorkerWake, WorkerRecheck, WorkerRetire,
         WorkerMarkBusy, WorkerTellBusy, WorkerRun, WorkerMarkFree, StartRetiring, EndOfTurn,
         locals, MemoryOK
  <2>2. CASE WorkerEnter(w) \/ WorkerWake(w)
    BY <2>1, <2>2, NobodyIsNoWorker DEF WorkerEnter, WorkerWake
  <2>3. CASE WorkerSleep(w) \/ WorkerRecheck(w) \/ WorkerRetire(w)
    BY <1>0, <2>1, <2>3 DEF WorkerSleep, WorkerRecheck, WorkerRetire, QueueHeld
  <2>4. CASE WorkerMarkBusy(w) \/ WorkerTellBusy(w) \/ WorkerRun(w) \/ WorkerMarkFree(w)
    BY <2>1, <2>4 DEF WorkerMarkBusy, WorkerTellBusy, WorkerRun, WorkerMarkFree, mutexes
  <2> QED  BY <2>1, <2>2, <2>3, <2>4 DEF WorkerNext
<1>4. QueueHeld'
  <2>1. pc'[w] \in {"sleep", "recheck", "retire"} => queue_mut' = w
    <3> USE DEF ControlOK, Goto
    <3>1. CASE WorkerEnter(w) \/ WorkerWake(w)
      BY <1>0, <3>1, ThreadsApart DEF WorkerEnter, WorkerWake
    <3>2. CASE WorkerSleep(w) \/ WorkerRetire(w)
      BY <1>0, <3>2, ThreadsApart DEF WorkerSleep, WorkerRetire
    <3>3. CASE WorkerRecheck(w)
      BY <1>0, <3>3, ThreadsApart DEF WorkerRecheck, QueueHeld, StartRetiring
    <3>4. CASE WorkerMarkBusy(w) \/ WorkerTellBusy(w) \/ WorkerRun(w) \/ WorkerMarkFree(w)
      BY <1>0, <3>4, ThreadsApart DEF WorkerMarkBusy, WorkerTellBusy, WorkerRun, WorkerMarkFree
    <3> QED  BY <3>1, <3>2, <3>3, <3>4 DEF WorkerNext
  <2> QED  BY <1>0, <1>2, <1>3, <2>1 DEF QueueHeld
<1>5. SUFFICES ASSUME Quiet' PROVE Turns' /\ Counting'
  BY <1>4 DEF Sense
<1>6. Quiet /\ Turns /\ Counting
  BY <1>1, <1>5 DEF Quiet, Sense
<1>7. ~StartRetiring(w) /\ ~WorkerRetire(w) /\ UNCHANGED <<live_thrs, exit_thrs, loaded>>
  <2>1. ~StartRetiring(w) /\ ~WorkerRetire(w)
    BY <1>5, <1>6 DEF StartRetiring, WorkerRetire, Quiet, Turns
  <2> QED
    BY <2>1 DEF WorkerNext, WorkerEnter, WorkerSleep, WorkerWake, WorkerRecheck,
         WorkerMarkBusy, WorkerTellBusy, WorkerRun, WorkerMarkFree, shared, locals
<1>8. Counting'
  BY <1>1, <1>2, <1>6, <1>7 DEF Counting
<1>9. ASSUME NEW v \in Worker \ {w}
      PROVE  /\ pc'[v] # "retire"
             /\ pc'[v] = "recheck" => Reason(v)'
             /\ pc'[v] \in {"taken", "tell", "run"} => task'[v] # NoTask
  <2>1. ASSUME pc'[v] = "recheck" PROVE Reason(v)'
    <3>1. Reason(v) /\ queue_mut = v
      BY <1>0, <1>2, <1>6, <2>1 DEF Turns, QueueHeld
    <3>2. task_queue' = task_queue /\ my_pos'[v] = my_pos[v]
      BY <1>3, <3>1
    <3>3. CASE MayRetire(my_pos[v])
      <4>1. worker_thrs'[my_pos[v]].state = "FREE"
        BY <1>5, <3>3, FreeStays DEF MayRetire, State, Quiet
      <4> QED  BY <1>7, <3>2, <3>3, <4>1 DEF Reason, MayRetire
    <3> QED  BY <1>1, <3>1, <3>2, <3>3 DEF Reason
  <2> QED  BY <1>2, <1>3, <1>6, <2>1 DEF Turns
<1>10. /\ pc'[w] # "retire"
       /\ pc'[w] = "recheck" => Reason(w)'
       /\ pc'[w] \in {"taken", "tell", "run"} => task'[w] # NoTask
  <2> USE DEF ControlOK, MemoryOK, Goto
  <2>1. CASE WorkerEnter(w)
    BY <1>0, <1>7, <2>1, ThreadsApart DEF WorkerEnter, Reason
  <2>2. CASE WorkerWake(w)
    BY <1>0, <2>2, ThreadsApart DEF WorkerWake, MustWait, Reason, MayRetire, shared, locals
  <2>3. CASE WorkerRecheck(w)
    <3>1. CASE shutdown
      BY <1>0, <2>3, <3>1, ThreadsApart DEF WorkerRecheck
    <3>2. CASE ~shutdown /\ ~MayRetire(my_pos[w])
      <4>1. ~queue_empty(task_queue)
        BY <1>6, <2>3, <3>2 DEF Turns, Reason, WorkerRecheck
      <4>2. task'[w] # NoTask
        BY <1>0, <2>3, <3>2, <4>1, TaskAtHead DEF WorkerRecheck
      <4> QED  BY <1>0, <2>3, <3>2, <4>2, ThreadsApart DEF WorkerRecheck
    <3> QED  BY <1>7, <2>3, <3>1, <3>2 DEF WorkerRecheck
  <2>4. CASE WorkerSleep(w) \/ WorkerRun(w) \/ WorkerMarkFree(w)
    BY <1>0, <2>4, ThreadsApart DEF WorkerSleep, WorkerRun, WorkerMarkFree
  <2>5. CASE WorkerMarkBusy(w) \/ WorkerTellBusy(w)
    BY <1>0, <1>6, <2>5, ThreadsApart DEF WorkerMarkBusy, WorkerTellBusy, locals, Turns
  <2> QED  BY <1>7, <2>1, <2>2, <2>3, <2>4, <2>5 DEF WorkerNext
<1> QED  BY <1>8, <1>9, <1>10 DEF Turns

\* A step of a thread that is no worker, and what it leaves to the workers.
Elsewhere ==
    \/ AdminNext \/ OwnerWork \/ Shutdown \/ Destroy
    \/ \E p \in Producer : ProducerNext(p)
    \/ \E t \in sleeping : SpuriousWakeup(t)

LEMMA CreateLabels ==
  ASSUME TypeOK, NEW t \in {Owner, Admin}, NEW s, Create(t, s)
  PROVE  /\ \A w \in Worker : pc'[w] = pc[w] \/ pc'[w] = "enter"
         /\ pc'[t] = "mark" /\ \A u \in {Owner, Admin} \ {t} : pc'[u] = pc[u]
<1>1. PICK w \in Worker : pc' = [pc EXCEPT ![w] = "enter", ![t] = "mark"]
  BY DEF Create
<1> QED  BY <1>1, ThreadsApart DEF TypeOK, ControlOK

LEMMA ElsewhereLeaves ==
  ASSUME TypeOK, Elsewhere
  PROVE  /\ \A w \in Worker : pc'[w] = pc[w] \/ pc'[w] = "enter"
         /\ UNCHANGED <<queue_mut, my_pos, task>>
         /\ task_queue' = task_queue \/ queue_mut = Nobody
         /\ (shutdown => shutdown') /\ (Quiet' => Quiet)
<1> USE DEF TypeOK
<1>1. ASSUME AdminNext  PROVE \A w \in Worker : pc'[w] = pc[w] \/ pc'[w] = "enter"
  <2>1. \/ \E s \in FreePos : Create(Admin, s)
        \/ \E label : Goto(Admin, label)
        \/ UNCHANGED pc
    BY <1>1 DEF AdminNext, AdminScan, AdminTestLayoff, AdminLayoff, AdminTestGrow, AdminSpawn,
       MarkCreated, CountCreated, AdminSleep
  <2> QED  BY <2>1, CreateLabels, ThreadsApart DEF Goto, ControlOK
<1>2. ASSUME OwnerWork \/ Shutdown \/ Destroy
      PROVE  \A w \in Worker : pc'[w] = pc[w] \/ pc'[w] = "enter"
  <2>1. \/ Create(Owner, i[Owner])
        \/ \E label : Goto(Owner, label)
        \/ UNCHANGED pc
        \/ pc' = [pc EXCEPT ![Owner] = "spawn", ![Admin] = "lock"]
    BY <1>2 DEF OwnerWork, OwnerStart, OwnerSpawn, MarkCreated, CountCreated, OwnerBlank,
       Announce, JoinAdmin, Reap, Shutdown, Destroy
  <2> QED  BY <2>1, CreateLabels, ThreadsApart DEF Goto, ControlOK
<1>3. ASSUME NEW p \in Producer, ProducerNext(p)
      PROVE  \A w \in Worker : pc'[w] = pc[w]
  BY <1>3, ThreadsApart DEF ProducerNext, AddTask, AddTaskLocked, Goto, ControlOK
<1>4. \A w \in Worker : pc'[w] = pc[w] \/ pc'[w] = "enter"
  BY <1>1, <1>2, <1>3 DEF Elsewhere, SpuriousWakeup
<1>5. UNCHANGED <<queue_mut, my_pos, task>>
  BY DEF Elsewhere, AdminNext, AdminScan, AdminTestLayoff, AdminLayoff, AdminTestGrow,
     AdminSpawn, MarkCreated, CountCreated, AdminSleep, OwnerWork, OwnerStart, OwnerSpawn,
     OwnerBlank, Announce, JoinAdmin, Reap, Shutdown, Destroy, ProducerNext, AddTask,
     AddTaskLocked, SpuriousWakeup, locals, mutexes
<1>6. task_queue' = task_queue \/ queue_mut = Nobody
  BY DEF Elsewhere, AdminNext, AdminScan, AdminTestLayoff, AdminLayoff, AdminTestGrow,
     AdminSpawn, MarkCreated, CountCreated, AdminSleep, OwnerWork, OwnerStart, OwnerSpawn,
     OwnerBlank, Announce, JoinAdmin, Reap, Shutdown, Destroy, ProducerNext, AddTask,
     AddTaskLocked, SpuriousWakeup
<1>7. shutdown' = shutdown \/ shutdown' = TRUE
  BY DEF Elsewhere, AdminNext, AdminScan, AdminTestLayoff, AdminLayoff, AdminTestGrow,
     AdminSpawn, MarkCreated, CountCreated, AdminSleep, OwnerWork, OwnerStart, OwnerSpawn,
     OwnerBlank, Announce, JoinAdmin, Reap, Shutdown, Destroy, ProducerNext, AddTask,
     AddTaskLocked, SpuriousWakeup
<1>8. UNCHANGED retired
  BY DEF Elsewhere, AdminNext, AdminScan, AdminTestLayoff, AdminLayoff, AdminTestGrow,
     AdminSpawn, MarkCreated, CountCreated, AdminSleep, OwnerWork, OwnerStart, OwnerSpawn,
     OwnerBlank, Announce, JoinAdmin, Reap, Shutdown, Destroy, ProducerNext, AddTask,
     AddTaskLocked, SpuriousWakeup, ghosts
<1>9. UNCHANGED early \/ early' = (early \/ Initialising)
  BY DEF Elsewhere, AdminNext, AdminScan, AdminTestLayoff, AdminLayoff, AdminTestGrow,
     AdminSpawn, MarkCreated, CountCreated, AdminSleep, OwnerWork, OwnerStart, OwnerSpawn,
     OwnerBlank, Announce, JoinAdmin, Reap, Shutdown, Destroy, ProducerNext, AddTask,
     AddTaskLocked, SpuriousWakeup, ghosts
<1>10. Quiet' => Quiet
  <2> SUFFICES ASSUME early PROVE early'
    BY <1>8 DEF Quiet
  <2> QED  BY <1>9
<1> QED  BY <1>4, <1>5, <1>6, <1>7, <1>10

LEMMA AsksStay ==
  ASSUME TypeOK, Counting, Elsewhere, exit_thrs > 0
  PROVE  exit_thrs' > 0
<1>1. CASE AdminLayoff
  <2>1. PICK live \in LiveRead : exit_thrs' = ToExit(live)
    BY <1>1 DEF AdminLayoff
  <2>2. /\ live \in Int /\ loaded[Admin].live \in Int /\ busy \in Nat
    BY <2>1, ThreadsApart DEF LiveRead, TypeOK, MemoryOK
  <2>3. /\ loaded[Admin].live <= live
        /\ busy * 2 < loaded[Admin].live /\ MinThrs < loaded[Admin].live
    BY <1>1, <2>1, <2>2 DEF AdminLayoff, Counting, LiveRead
  <2> QED  BY <2>1, <2>2, <2>3, AsksPositive
<1>2. CASE ~AdminLayoff
  BY <1>2 DEF Elsewhere, AdminNext, AdminScan, AdminTestLayoff, AdminTestGrow,
     AdminSpawn, MarkCreated, CountCreated, AdminSleep, OwnerWork, OwnerStart, OwnerSpawn,
     OwnerBlank, Announce, JoinAdmin, Reap, Shutdown, Destroy, ProducerNext, AddTask,
     AddTaskLocked, SpuriousWakeup, shared
<1> QED  BY <1>1, <1>2

LEMMA CountingStep ==
  ASSUME TypeOK, Slots, ~early, Counting, Elsewhere
  PROVE  Counting'
<1> USE DEF TypeOK, ControlOK, MemoryOK
<1>0. Filling  BY DEF Slots
<1>1. ASSUME NEW t \in {Owner, Admin}, MarkCreated(t)  PROVE Counting'
  <2>1. /\ pc'[t] = "count" /\ UNCHANGED <<live_thrs, busy>>
        /\ loaded'[t].live = live_thrs
        /\ \A u \in {Owner, Admin} \ {t} : pc'[u] = pc[u] /\ loaded'[u] = loaded[u]
    <3>1. loaded[t] \in [exit : Int, live : Int] /\ t \in Thread \ Producer
      BY ThreadsApart
    <3>2. loaded'[t].live = live_thrs
      BY <1>1, <3>1 DEF MarkCreated
    <3> QED  BY <1>1, <3>2, ThreadsApart DEF MarkCreated, Goto
  <2> QED  BY <2>1 DEF Counting
<1>2. ASSUME NEW t \in {Owner, Admin}, CountCreated(t)  PROVE Counting'
  <2>1. /\ pc[t] = "count" /\ pc'[t] = "spawn" /\ UNCHANGED busy
        /\ live_thrs' = loaded[t].live + 1
        /\ \A u \in {Owner, Admin} \ {t} : pc'[u] = pc[u] /\ loaded'[u] = loaded[u]
    BY <1>2, ThreadsApart DEF CountCreated, Goto
  <2>2. live_thrs' = live_thrs + 1 /\ live_thrs \in Int
    BY <2>1 DEF Counting
  <2>3. \A u \in {Owner, Admin} : pc'[u] # "count"
    BY <1>0, <2>1 DEF Filling, Initialising
  <2>4. pc'[Admin] = "trim" => /\ pc[Admin] = "trim" /\ loaded'[Admin] = loaded[Admin]
                               /\ loaded[Admin].live \in Int
    BY <2>1, ThreadsApart
  <2> QED  BY SMTT(20), <2>1, <2>2, <2>3, <2>4 DEF Counting
<1>3. ASSUME AdminTestLayoff  PROVE Counting'
  <2>1. /\ pc'[Admin] = (IF TooManyIdle THEN "trim" ELSE "grow")
        /\ pc'[Owner] = pc[Owner] /\ loaded'[Owner] = loaded[Owner]
        /\ UNCHANGED <<live_thrs, busy>>
    <3>1. /\ pc' = [pc EXCEPT ![Admin] = IF TooManyIdle THEN "trim" ELSE "grow"]
          /\ loaded' = [loaded EXCEPT ![Admin].live = live_thrs]
          /\ UNCHANGED <<live_thrs, busy>>
      BY <1>3 DEF AdminTestLayoff, Goto, shared
    <3> HIDE DEF TooManyIdle
    <3> QED  BY <3>1, ThreadsApart
  <2>2. loaded'[Admin].live = live_thrs
    <3>1. loaded[Admin] \in [exit : Int, live : Int]  BY ThreadsApart
    <3> QED  BY <1>3, <3>1, ThreadsApart DEF AdminTestLayoff
  <2> QED  BY <2>1, <2>2, PoolAssumption DEF Counting, TooManyIdle
<1>4. ASSUME AdminScan \/ AdminLayoff \/ AdminTestGrow \/ AdminSpawn \/ AdminSleep
      PROVE  Counting'
  <2>1. /\ UNCHANGED live_thrs /\ loaded'[Owner] = loaded[Owner]
    BY <1>4, ThreadsApart DEF AdminScan, AdminLayoff, AdminTestGrow, AdminSpawn, AdminSleep,
       shared, locals
  <2>2. pc'[Owner] = pc[Owner] /\ pc'[Admin] \notin {"trim", "count"}
    <3>1. CASE \E s \in FreePos : Create(Admin, s)
      BY <3>1, CreateLabels, ThreadsApart
    <3>2. CASE ~(\E s \in FreePos : Create(Admin, s))
      BY <1>4, <3>2, ThreadsApart DEF AdminScan, AdminLayoff, AdminTestGrow, AdminSpawn,
         AdminSleep, Goto
    <3> QED  BY <3>1, <3>2
  <2> QED  BY <2>1, <2>2 DEF Counting
<1>5. ASSUME \/ OwnerStart \/ OwnerSpawn \/ OwnerBlank \/ Announce \/ JoinAdmin \/ Reap
             \/ Shutdown \/ Destroy
      PROVE  Counting'
  <2>1. UNCHANGED <<live_thrs, loaded, busy>>
    BY <1>5 DEF OwnerStart, OwnerSpawn, OwnerBlank, Announce, JoinAdmin, Reap, Shutdown,
       Destroy, shared, locals
  <2>2. /\ pc'[Owner] # "count"
        /\ pc'[Admin] \in {"trim", "count"} => pc'[Admin] = pc[Admin]
    <3>1. CASE Create(Owner, i[Owner])
      BY <3>1, CreateLabels, ThreadsApart
    <3>2. CASE ~Create(Owner, i[Owner])
      BY <1>5, <3>2, ThreadsApart DEF OwnerStart, OwnerSpawn, OwnerBlank, Announce, JoinAdmin,
         Reap, Shutdown, Destroy, Goto
    <3> QED  BY <3>1, <3>2
  <2> QED  BY <2>1, <2>2 DEF Counting
<1>6. ASSUME \/ \E p \in Producer : ProducerNext(p)
             \/ \E t \in sleeping : SpuriousWakeup(t)
      PROVE  Counting'
  <2>1. UNCHANGED <<live_thrs, loaded, busy>>
    BY <1>6 DEF ProducerNext, AddTask, AddTaskLocked, SpuriousWakeup, shared, locals
  <2>2. pc'[Owner] = pc[Owner] /\ pc'[Admin] = pc[Admin]
    BY ZenonT(30), <1>6, ThreadsApart DEF ProducerNext, AddTask, AddTaskLocked, SpuriousWakeup, Goto
  <2> QED  BY <2>1, <2>2 DEF Counting
<1> QED
  BY <1>1, <1>2, <1>3, <1>4, <1>5, <1>6 DEF Elsewhere, AdminNext, OwnerWork

LEMMA ElsewhereSense ==
  ASSUME TypeOK, Slots, Sense, Elsewhere
  PROVE  Sense'
<1>1. QueueHeld'
  BY ElsewhereLeaves DEF Sense, QueueHeld
<1>2. SUFFICES ASSUME Quiet' PROVE Turns' /\ Counting'
  BY <1>1 DEF Sense
<1>3. Quiet /\ Turns /\ Counting /\ QueueHeld
  BY <1>2, ElsewhereLeaves DEF Sense
<1>4. Counting'
  BY <1>3, CountingStep DEF Quiet
<1>5. ASSUME NEW w \in Worker, pc'[w] = "recheck"  PROVE Reason(w)'
  <2>1. /\ pc[w] = "recheck" /\ Reason(w) /\ task_queue' = task_queue
        /\ my_pos'[w] = my_pos[w] /\ (shutdown => shutdown')
    BY <1>3, <1>5, ElsewhereLeaves, NobodyIsNoWorker DEF Turns, QueueHeld
  <2>2. CASE MayRetire(my_pos[w])
    <3>1. worker_thrs'[my_pos[w]].state = "FREE"
      BY <1>2, <2>2, FreeStays DEF MayRetire, State, Quiet, Elsewhere
    <3>2. exit_thrs' > 0
      BY <1>3, <2>2, AsksStay DEF MayRetire
    <3> QED  BY <2>1, <2>2, <3>1, <3>2 DEF Reason, MayRetire
  <2> QED  BY <2>1, <2>2 DEF Reason
<1>6. Turns'
  BY <1>3, <1>5, ElsewhereLeaves DEF Turns
<1> QED  BY <1>4, <1>6

LEMMA SenseInit == Init => Sense
<1> SUFFICES ASSUME Init PROVE Sense  OBVIOUS
<1>1. /\ \A w \in Worker : pc[w] = "none"
      /\ pc[Owner] = "start" /\ pc[Admin] = "none"
  BY ThreadsApart DEF Init
<1> QED  BY <1>1 DEF Sense, QueueHeld, Turns, Counting

LEMMA SenseStep ==
  ASSUME TypeOK, Slots, TaskOrder, Sense, [Next]_vars  PROVE Sense'
<1>1. CASE Next
  BY <1>1, WorkerSense, ElsewhereSense DEF Next, Elsewhere
<1>2. CASE UNCHANGED vars
  <2>1. UNCHANGED <<worker_thrs, live_thrs, exit_thrs, shutdown, task_queue, queue_mut, pc,
                    my_pos, task, loaded, busy, early, retired>>
    BY <1>2 DEF vars, shared, mutexes, locals, ghosts
  <2> QED
    BY <2>1 DEF Sense, QueueHeld, Quiet, Turns, Counting, Reason, MayRetire, queue_empty
<1> QED  BY <1>1, <1>2

LEMMA SenseAlways == Spec => []Sense
<1>1. Spec => [](TypeOK /\ Slots /\ TaskOrder)
  BY TypeCorrect, SlotsAlways, TasksInOrder, PTL
<1>2. TypeOK /\ Slots /\ TaskOrder /\ Sense /\ [Next]_vars => Sense'
  BY SenseStep
<1> QED  BY <1>1, <1>2, SenseInit, PTL DEF Spec

\* A worker dequeues a task and calls a job that was entered, for any number
\* of threads and callers, until a worker retires or the pool grows too early.
THEOREM JobsAreSet == Spec => []NoGarbageJob
<1>1. Sense => NoGarbageJob
  BY DEF Sense, Quiet, Turns, NoGarbageJob
<1> QED  BY <1>1, SenseAlways, PTL

-----------------------------------------------------------------------------
(* 5. No wake-up is lost.  Each task entered wakes a worker and each task   *)
(* taken a caller, so the threads on their way never become fewer than what *)
(* there is for them; a worker goes to sleep when there is nothing at all,  *)
(* which it knows as it holds the mutex since it looked.                    *)

Waiting == \A t \in sleeping : pc[t] = "waiting"

Drained == \A w \in Worker : pc[w] = "sleep" => queue_empty(task_queue)

\* However many callers there are, finitely many are on their way.
Few == ~shutdown => IsFiniteSet(Coming(Producer))

Wakes == Waiting /\ Drained /\ Few /\ WorkerWakeups /\ ProducerWakeups

LEMMA Lengths ==
  ASSUME TypeOK
  PROVE  /\ QueueLength(task_queue) \in 0 .. QueueSize - 1
         /\ queue_empty(task_queue) <=> QueueLength(task_queue) = 0
         /\ queue_full(task_queue) <=> QueueLength(task_queue) = QueueSize - 1
         /\ QueueLength(task_queue) = Len(Contents)
  BY ContentsType, LengthIsSpan, ContentsAt DEF Contents

LEMMA WorkersFinite == IsFiniteSet(Worker) /\ IsFiniteSet(Coming(Worker))
<1>1. IsFiniteSet(Worker)
  BY PoolAssumption, FS_Interval DEF Worker
<1>2. Coming(Worker) \subseteq Worker
  BY DEF Coming
<1> QED  BY <1>1, <1>2, FS_Subset

\* The numbers of those on their way, as the set grows or loses one.
LEMMA MoreComing ==
  ASSUME NEW A, NEW B, IsFiniteSet(B), A \subseteq B
  PROVE  Cardinality(A) <= Cardinality(B) /\ Cardinality(A) \in Nat /\ Cardinality(B) \in Nat
<1>1. IsFiniteSet(A) /\ Cardinality(A) <= Cardinality(B)
  BY FS_Subset
<1> QED  BY <1>1, FS_CardinalityType

LEMMA OneFewer ==
  ASSUME NEW A, NEW B, NEW x, IsFiniteSet(A), IsFiniteSet(B), A \ {x} \subseteq B
  PROVE  Cardinality(B) >= Cardinality(A) - 1 /\ Cardinality(B) \in Nat /\ Cardinality(A) \in Nat
<1>1. IsFiniteSet(A \ {x}) /\ Cardinality(A \ {x}) \in {Cardinality(A), Cardinality(A) - 1}
  BY FS_RemoveElement, FS_Subset
<1>2. Cardinality(A) \in Nat
  BY FS_CardinalityType
<1>3. Cardinality(A \ {x}) <= Cardinality(B) /\ Cardinality(B) \in Nat /\ Cardinality(A \ {x}) \in Nat
  BY MoreComing
<1> QED  BY <1>1, <1>2, <1>3

LEMMA OneMoreComing ==
  ASSUME Waiting, NEW T, NEW t \in sleeping \cap T, IsFiniteSet(Coming(T)), NEW B, IsFiniteSet(B),
         (Coming(T) \cup {t}) \subseteq B
  PROVE  Cardinality(B) >= Cardinality(Coming(T)) + 1 /\ Cardinality(B) \in Nat
         /\ Cardinality(Coming(T)) \in Nat
<1>1. t \notin Coming(T)
  BY DEF Waiting, Coming
<1>2. /\ IsFiniteSet(Coming(T) \cup {t})
      /\ Cardinality(Coming(T) \cup {t}) = Cardinality(Coming(T)) + 1
  BY <1>1, FS_AddElement
<1>3. /\ Cardinality(Coming(T) \cup {t}) <= Cardinality(B) /\ Cardinality(B) \in Nat
      /\ Cardinality(Coming(T)) \in Nat
  BY <1>2, MoreComing, FS_CardinalityType
<1> QED  BY <1>2, <1>3

\* A step that leaves the queue and one kind of waiter alone.
LEMMA WorkersLeft ==
  ASSUME TypeOK, WorkerWakeups, task_queue' = task_queue, ~shutdown' => ~shutdown,
         ~retired' => ~retired, Coming(Worker) \subseteq Coming(Worker)',
         (sleeping \cap Worker)' \subseteq sleeping
  PROVE  WorkerWakeups'
<1> SUFFICES ASSUME ~shutdown', ~retired', (sleeping \cap Worker)' # {}
             PROVE  QueueLength(task_queue)' <= Cardinality(Coming(Worker)')
  BY DEF WorkerWakeups
<1>1. QueueLength(task_queue) <= Cardinality(Coming(Worker))
  BY DEF WorkerWakeups
<1>2. IsFiniteSet(Coming(Worker)')
  <2>1. Coming(Worker)' \subseteq Worker
    BY DEF Coming
  <2> QED  BY <2>1, WorkersFinite, FS_Subset
<1>3. /\ Cardinality(Coming(Worker)) <= Cardinality(Coming(Worker)')
      /\ Cardinality(Coming(Worker)) \in Nat /\ Cardinality(Coming(Worker)') \in Nat
  BY <1>2, MoreComing
<1> QED  BY <1>1, <1>3, Lengths

LEMMA ProducersLeft ==
  ASSUME TypeOK, ProducerWakeups, Few, task_queue' = task_queue, ~shutdown' => ~shutdown,
         Coming(Producer)' = Coming(Producer),
         (sleeping \cap Producer)' \subseteq sleeping
  PROVE  ProducerWakeups' /\ Few'
  BY DEF ProducerWakeups, Few

\* What a step of a worker does to who waits and who is on his way.
LEMMA WorkerLabels ==
  ASSUME TypeOK, Waiting, NEW w \in Worker, WorkerNext(w)
  PROVE  /\ \A t \in Thread \ {w} : pc'[t] = pc[t]
         /\ w \notin sleeping
         /\ (shutdown => shutdown') /\ (retired => retired') /\ UNCHANGED accepted
         /\ ~shutdown' => ~shutdown
         /\ ~retired' => ~retired
<1>1. \E label : Goto(w, label)
  BY DEF WorkerNext, WorkerEnter, WorkerSleep, WorkerWake, WorkerRecheck, WorkerRetire,
         WorkerMarkBusy, WorkerTellBusy, WorkerRun, WorkerMarkFree, StartRetiring
<1>2. \A t \in Thread \ {w} : pc'[t] = pc[t]
  BY <1>1, ThreadsApart DEF Goto, TypeOK, ControlOK
<1>3. w \notin sleeping
  BY DEF Waiting, WorkerNext, WorkerEnter, WorkerSleep, WorkerWake, WorkerRecheck, WorkerRetire,
         WorkerMarkBusy, WorkerTellBusy, WorkerRun, WorkerMarkFree
<1>4. (shutdown => shutdown') /\ (retired => retired') /\ UNCHANGED accepted
  BY DEF WorkerNext, WorkerEnter, WorkerSleep, WorkerWake, WorkerRecheck, WorkerRetire,
         WorkerMarkBusy, WorkerTellBusy, WorkerRun, WorkerMarkFree, StartRetiring, ghosts
<1> QED  BY <1>2, <1>3, <1>4

\* A worker that takes a task is itself no longer on its way, and wakes a caller.
LEMMA TakenWakes ==
  ASSUME TypeOK, Wakes, NEW w \in Worker, WorkerRecheck(w), ~shutdown, ~MayRetire(my_pos[w])
  PROVE  Few' /\ WorkerWakeups' /\ ProducerWakeups'
<1>1. /\ task_queue' = queue_deq(task_queue) /\ Signal(Producer) /\ UNCHANGED <<shutdown, retired>>
      /\ pc[w] = "recheck" /\ w \notin sleeping
      /\ \A t \in Thread \ {w} : pc'[t] = pc[t]
  BY WorkerLabels DEF WorkerRecheck, WorkerNext, QueueNotFull, Wakes
<1>2. /\ QueueLength(task_queue) \in 0 .. QueueSize - 1
      /\ QueueLength(task_queue)' \in 0 .. QueueSize - 1
      /\ QueueLength(task_queue)' =
            IF QueueLength(task_queue) = 0 THEN 0 ELSE QueueLength(task_queue) - 1
  <2>1. CASE queue_empty(task_queue)
    BY <1>1, <2>1, Lengths DEF queue_deq
  <2>2. CASE ~queue_empty(task_queue)
    <3>1. /\ task_queue' \in Ring(Task \cup {NoTask}) /\ Contents # <<>>
          /\ Contents' = Tail(Contents)
      BY <1>1, <2>2, ContentsType, DeqTakesHead DEF Contents
    <3>2. QueueLength(task_queue)' = Len(Contents')
      BY <3>1, LengthIsSpan, ContentsAt DEF Contents
    <3>3. Contents \in Seq(Task \cup {NoTask}) /\ QueueLength(task_queue) = Len(Contents)
      BY ContentsType, Lengths
    <3>4. Len(Tail(Contents)) = Len(Contents) - 1
      BY <3>1, <3>3
    <3>5. QueueLength(task_queue)' = QueueLength(task_queue) - 1
      BY <3>1, <3>2, <3>3, <3>4
    <3> QED  BY <2>2, <3>5, Lengths, QueueSizeAssumption
  <2> QED  BY <2>1, <2>2
<1>3. sleeping' \subseteq sleeping
  BY <1>1, SignalType
<1>4. WorkerWakeups'
  <2> SUFFICES ASSUME ~shutdown', ~retired', (sleeping \cap Worker)' # {}
               PROVE  QueueLength(task_queue)' <= Cardinality(Coming(Worker)')
    BY DEF WorkerWakeups
  <2>1. QueueLength(task_queue) <= Cardinality(Coming(Worker))
    BY <1>1, <1>3 DEF Wakes, WorkerWakeups
  <2>2. Coming(Worker) \ {w} \subseteq Coming(Worker)' /\ Coming(Worker)' \subseteq Worker
    BY <1>1, <1>3, ThreadsApart DEF Coming
  <2>3. /\ Cardinality(Coming(Worker)') >= Cardinality(Coming(Worker)) - 1
        /\ Cardinality(Coming(Worker)) \in Nat /\ Cardinality(Coming(Worker)') \in Nat
    BY <2>2, WorkersFinite, OneFewer, FS_Subset
  <2> QED  BY <1>2, <2>1, <2>3
<1>5. CASE sleeping \cap Producer = {}
  <2>1. sleeping' = sleeping
    BY <1>1, <1>5 DEF Signal
  <2>2. Coming(Producer)' = Coming(Producer)
    BY <1>1, <2>1, ThreadsApart DEF Coming
  <2>3. Few' /\ ProducerWakeups'
    BY <1>1, <1>5, <2>1, <2>2 DEF Wakes, Few, ProducerWakeups
  <2> QED  BY <1>4, <2>3
<1>6. CASE sleeping \cap Producer # {}
  <2>1. PICK t \in sleeping \cap Producer : sleeping' = sleeping \ {t}
    BY <1>1, <1>6 DEF Signal
  <2>2. pc[t] = "waiting"
    BY <2>1 DEF Wakes, Waiting
  <2>3. Coming(Producer)' = Coming(Producer) \cup {t}
    BY <1>1, <2>1, <2>2, ThreadsApart DEF Coming
  <2>4. IsFiniteSet(Coming(Producer)) /\ IsFiniteSet(Coming(Producer)')
    BY <1>1, <2>3, FS_AddElement DEF Wakes, Few
  <2>5. /\ Cardinality(Coming(Producer)') >= Cardinality(Coming(Producer)) + 1
        /\ Cardinality(Coming(Producer)') \in Nat /\ Cardinality(Coming(Producer)) \in Nat
    BY <2>3, <2>4, OneMoreComing DEF Wakes
  <2>6. QueueSize - 1 - QueueLength(task_queue) <= Cardinality(Coming(Producer))
    BY <1>1, <1>6 DEF Wakes, ProducerWakeups
  <2>7. ProducerWakeups'
    BY <1>2, <2>5, <2>6, QueueSizeAssumption DEF ProducerWakeups
  <2> QED  BY <1>4, <2>4, <2>7 DEF Few
<1> QED  BY <1>5, <1>6

LEMMA WorkerWakes ==
  ASSUME TypeOK, TypeOK', QueueHeld, Wakes, NEW w \in Worker, WorkerNext(w)
  PROVE  Wakes'
<1>1. /\ Waiting /\ Drained /\ Few /\ WorkerWakeups /\ ProducerWakeups
      /\ \A t \in Thread \ {w} : pc'[t] = pc[t]
      /\ w \notin sleeping /\ (~shutdown' => ~shutdown) /\ (~retired' => ~retired)
  BY WorkerLabels DEF Wakes
<1>2. CASE WorkerSleep(w)
  <2>1. /\ sleeping' = sleeping \cup {w} /\ pc'[w] = "waiting" /\ task_queue' = task_queue
        /\ queue_empty(task_queue)
    BY <1>1, <1>2, ThreadsApart DEF WorkerSleep, Goto, TypeOK, ControlOK, Drained
  <2>2. Waiting' /\ Drained'
    BY <1>1, <2>1, ThreadsApart DEF Waiting, Drained, TypeOK, MemoryOK, Thread
  <2>3. Coming(Producer)' = Coming(Producer) /\ (sleeping \cap Producer)' \subseteq sleeping
    BY <1>1, <2>1, ThreadsApart DEF Coming
  <2>4. Few' /\ ProducerWakeups'
    BY <1>1, <2>1, <2>3, ProducersLeft
  <2>5. WorkerWakeups'
    <3>1. QueueLength(task_queue)' = 0
      BY <2>1, Lengths
    <3>2. Coming(Worker)' \subseteq Worker
      BY DEF Coming
    <3>3. Cardinality(Coming(Worker)') \in Nat
      BY <3>2, WorkersFinite, FS_Subset, FS_CardinalityType
    <3> QED  BY <3>1, <3>3 DEF WorkerWakeups
  <2> QED  BY <2>2, <2>4, <2>5 DEF Wakes
<1>3. ASSUME ~WorkerSleep(w) PROVE sleeping' \subseteq sleeping
  <2>1. sleeping' = sleeping \/ Signal(Producer) \/ Signal({Admin})
    BY <1>3 DEF WorkerNext, WorkerEnter, WorkerWake, WorkerRecheck, WorkerRetire,
         WorkerMarkBusy, WorkerTellBusy, WorkerRun, WorkerMarkFree, QueueNotFull, WorkingCond
  <2> QED  BY <2>1, SignalType
<1>4. ASSUME ~WorkerSleep(w) PROVE Waiting'
  <2>1. sleeping \subseteq Thread
    BY DEF TypeOK, MemoryOK, Thread
  <2> QED  BY <1>1, <1>3, <1>4, <2>1 DEF Waiting
<1>5. \A v \in Worker \ {w} : queue_mut = v => task_queue' = task_queue
  BY NobodyIsNoWorker DEF WorkerNext, WorkerEnter, WorkerSleep, WorkerWake, WorkerRecheck, WorkerRetire,
         WorkerMarkBusy, WorkerTellBusy, WorkerRun, WorkerMarkFree, QueueHeld
<1>6. pc'[w] = "sleep" => queue_empty(task_queue')
  BY ThreadsApart DEF WorkerNext, WorkerEnter, WorkerSleep, WorkerWake, WorkerRecheck, WorkerRetire,
         WorkerMarkBusy, WorkerTellBusy, WorkerRun, WorkerMarkFree, StartRetiring, MustWait, Goto,
         TypeOK, ControlOK
<1>7. Drained'
  BY <1>1, <1>5, <1>6, ThreadsApart DEF Drained, QueueHeld
<1>8. CASE WorkerRecheck(w) /\ ~shutdown /\ ~MayRetire(my_pos[w])
  <2>1. ~WorkerSleep(w)
    BY <1>8 DEF WorkerRecheck, WorkerSleep
  <2> QED  BY <1>4, <1>7, <1>8, <2>1, TakenWakes DEF Wakes
<1>9. ASSUME ~WorkerSleep(w), ~(WorkerRecheck(w) /\ ~shutdown /\ ~MayRetire(my_pos[w]))
      PROVE  Wakes'
  <2>1. /\ task_queue' = task_queue
        /\ sleeping' = sleeping \/ Signal({Admin})
    BY <1>9 DEF WorkerNext, WorkerEnter, WorkerWake, WorkerRecheck, WorkerRetire, StartRetiring,
         WorkerMarkBusy, WorkerTellBusy, WorkerRun, WorkerMarkFree, WorkingCond
  <2>2. \A t : t # Admin => (t \in sleeping' <=> t \in sleeping)
    BY <2>1 DEF Signal
  <2>3. Coming(Producer)' = Coming(Producer) /\ (sleeping \cap Producer)' \subseteq sleeping
        /\ (sleeping \cap Worker)' \subseteq sleeping
    BY <1>1, <2>2, ThreadsApart DEF Coming
  <2>4. Few' /\ ProducerWakeups'
    BY <1>1, <2>1, <2>3, ProducersLeft
  <2>5. WorkerWakeups'
    <3>1. CASE queue_empty(task_queue)
      <4>1. QueueLength(task_queue)' = 0
        BY <2>1, <3>1, Lengths
      <4>2. Coming(Worker)' \subseteq Worker
        BY DEF Coming
      <4>3. Cardinality(Coming(Worker)') \in Nat
        BY <4>2, WorkersFinite, FS_Subset, FS_CardinalityType
      <4> QED  BY <4>1, <4>3 DEF WorkerWakeups
    <3>2. CASE retired' \/ shutdown'
      BY <3>2 DEF WorkerWakeups
    <3>3. CASE ~queue_empty(task_queue) /\ ~retired' /\ ~shutdown'
      <4>1. w \in Coming(Worker) => w \in Coming(Worker)'
        <5> SUFFICES ASSUME pc[w] \in {"enter", "recheck", "add", "waiting"}
                     PROVE  pc'[w] \in {"enter", "recheck", "add"}
          BY DEF Coming
        <5>1. CASE WorkerEnter(w)
          BY <1>1, <3>3, <5>1, ThreadsApart DEF WorkerEnter, Goto, TypeOK, ControlOK, StartRetiring
        <5>2. CASE WorkerWake(w)
          BY <1>1, <3>3, <5>2, ThreadsApart DEF WorkerWake, Goto, TypeOK, ControlOK, MustWait
        <5>3. CASE WorkerRecheck(w)
          BY <1>1, <1>9, <3>3, <5>3, ThreadsApart DEF WorkerRecheck, StartRetiring
        <5> QED
          BY <1>9, <5>1, <5>2, <5>3 DEF WorkerNext, WorkerRetire, WorkerMarkBusy, WorkerTellBusy,
             WorkerRun, WorkerMarkFree
      <4>2. Coming(Worker) \subseteq Coming(Worker)'
        BY <1>1, <2>2, <4>1, ThreadsApart DEF Coming
      <4> QED  BY <1>1, <2>1, <2>3, <4>2, WorkersLeft
    <3> QED  BY <3>1, <3>2, <3>3
  <2> QED  BY <1>4, <1>7, <1>9, <2>4, <2>5 DEF Wakes
<1> QED  BY <1>2, <1>8, <1>9

\* A task entered wakes a worker; its caller is no longer on its way.
LEMMA EnteredWakes ==
  ASSUME TypeOK, Wakes, NEW p \in Producer, AddTaskLocked(p),
         ~queue_full(task_queue), ~shutdown
  PROVE  Few' /\ WorkerWakeups' /\ ProducerWakeups'
<1>1. /\ task_queue' = queue_enter(task_queue, <<p, calls[p]>>) /\ Signal(Worker)
      /\ UNCHANGED <<shutdown, retired>> /\ Goto(p, "idle")
      /\ pc[p] = "add" \/ (pc[p] = "waiting" /\ p \notin sleeping)
  <2>1. /\ pc[p] = "add" \/ (pc[p] = "waiting" /\ p \notin sleeping)
        /\ UNCHANGED <<shutdown, retired>>
    BY DEF AddTaskLocked
  <2>2. /\ task_queue' = queue_enter(task_queue, <<p, calls[p]>>)
        /\ Signal(QueueNotEmpty) /\ Goto(p, "idle")
    BY DEF AddTaskLocked
  <2> QED  BY <2>1, <2>2 DEF QueueNotEmpty
<1>2. /\ pc'[p] = "idle" /\ \A t \in Thread \ {p} : pc'[t] = pc[t]
      /\ p \notin sleeping
  BY <1>1, ThreadsApart DEF Goto, TypeOK, ControlOK, Wakes, Waiting
<1>3. /\ QueueLength(task_queue) \in 0 .. QueueSize - 1
      /\ QueueLength(task_queue)' = QueueLength(task_queue) + 1
  <2> DEFINE x == <<p, calls[p]>>
  <2>1. x \in Task \cup {NoTask}
    <3>1. pc[p] # "idle"  BY <1>1
    <3> QED  BY <3>1, PoolAssumption DEF TypeOK, CallsOK, MemoryOK, Task
  <2>2. task_queue' = queue_enter(task_queue, x)
    BY <1>1
  <2> HIDE DEF x
  <2>3. task_queue' \in Ring(Task \cup {NoTask}) /\ Contents' = Append(Contents, x)
    BY <2>1, <2>2, ContentsType, EnterAppends DEF Contents
  <2>4. QueueLength(task_queue)' = Len(Contents')
    BY <2>3, LengthIsSpan, ContentsAt DEF Contents
  <2>5. Contents \in Seq(Task \cup {NoTask}) /\ QueueLength(task_queue) = Len(Contents)
    BY ContentsType, Lengths
  <2>6. Len(Append(Contents, x)) = Len(Contents) + 1
    BY <2>1, <2>5
  <2> QED  BY <2>3, <2>4, <2>5, <2>6, Lengths
<1>4. sleeping' \subseteq sleeping
  BY <1>1, SignalType
<1>5. \A t \in Producer : t \in sleeping' <=> t \in sleeping
  BY <1>1, ThreadsApart DEF Signal
<1>6. Coming(Producer)' = Coming(Producer) \ {p} /\ p \in Coming(Producer)
  BY <1>1, <1>2, <1>5, ThreadsApart DEF Coming
<1>7. IsFiniteSet(Coming(Producer)) /\ IsFiniteSet(Coming(Producer)')
  BY <1>6, FS_RemoveElement DEF Wakes, Few
<1>8. ProducerWakeups'
  <2> SUFFICES ASSUME (sleeping \cap Producer)' # {}
               PROVE  QueueSize - 1 - QueueLength(task_queue)' <= Cardinality(Coming(Producer)')
    BY DEF ProducerWakeups
  <2>1. QueueSize - 1 - QueueLength(task_queue) <= Cardinality(Coming(Producer))
    BY <1>4 DEF Wakes, ProducerWakeups
  <2>2. /\ Cardinality(Coming(Producer)') >= Cardinality(Coming(Producer)) - 1
        /\ Cardinality(Coming(Producer)') \in Nat /\ Cardinality(Coming(Producer)) \in Nat
    BY <1>6, <1>7, OneFewer
  <2> QED  BY <1>3, <2>1, <2>2, QueueSizeAssumption
<1>9. WorkerWakeups'
  <2> SUFFICES ASSUME ~retired, (sleeping \cap Worker)' # {}
               PROVE  QueueLength(task_queue)' <= Cardinality(Coming(Worker)')
    BY <1>1 DEF WorkerWakeups
  <2>1. sleeping \cap Worker # {}
    BY <1>4
  <2>2. PICK t \in sleeping \cap Worker : sleeping' = sleeping \ {t}
    BY <1>1, <2>1 DEF Signal
  <2>3. (Coming(Worker) \cup {t}) \subseteq Coming(Worker)' /\ Coming(Worker)' \subseteq Worker
    BY <1>2, <2>2, ThreadsApart DEF Coming, Wakes, Waiting
  <2>4. /\ Cardinality(Coming(Worker)') >= Cardinality(Coming(Worker)) + 1
        /\ Cardinality(Coming(Worker)') \in Nat /\ Cardinality(Coming(Worker)) \in Nat
    BY <2>3, WorkersFinite, FS_Subset, OneMoreComing DEF Wakes
  <2>5. QueueLength(task_queue) <= Cardinality(Coming(Worker))
    BY <2>1 DEF Wakes, WorkerWakeups
  <2> QED  BY <1>3, <2>4, <2>5
<1> QED  BY <1>1, <1>7, <1>8, <1>9 DEF Few

LEMMA ProducerWakes ==
  ASSUME TypeOK, QueueHeld, Wakes, NEW p \in Producer, ProducerNext(p)
  PROVE  Wakes'
<1>1. Waiting /\ Drained /\ Few /\ WorkerWakeups /\ ProducerWakeups /\ sleeping \subseteq Thread
  BY DEF Wakes, TypeOK, MemoryOK, Thread
<1>2. /\ p \notin sleeping /\ UNCHANGED <<shutdown, retired>>
      /\ \A t \in Thread \ {p} : pc'[t] = pc[t]
  BY <1>1, ThreadsApart DEF ProducerNext, AddTask, AddTaskLocked, Waiting, Goto, ghosts,
     TypeOK, ControlOK
<1>3. Drained'
  <2>1. queue_mut = Nobody \/ task_queue' = task_queue
    BY DEF ProducerNext, AddTask, AddTaskLocked
  <2> QED  BY <1>1, <1>2, <2>1, ThreadsApart DEF Drained, QueueHeld
<1>4. ASSUME sleeping' \subseteq sleeping PROVE Waiting'
  BY <1>1, <1>2, <1>4 DEF Waiting
<1>5. CASE AddTask(p)
  <2>1. UNCHANGED <<sleeping, task_queue>>
    BY <1>5 DEF AddTask
  <2>2. /\ Coming(Producer) \subseteq Coming(Producer)'
        /\ Coming(Producer)' \subseteq Coming(Producer) \cup {p}
        /\ Coming(Worker)' = Coming(Worker)
    BY <1>2, <1>5, <2>1, ThreadsApart DEF Coming, AddTask
  <2>3. ASSUME ~shutdown PROVE IsFiniteSet(Coming(Producer)') /\ IsFiniteSet(Coming(Producer))
    <3>1. IsFiniteSet(Coming(Producer) \cup {p})
      BY <1>1, <2>3, FS_AddElement DEF Few
    <3> QED  BY <2>2, <3>1, FS_Subset
  <2>4. WorkerWakeups'
    BY <1>1, <1>2, <2>1, <2>2, WorkersLeft
  <2>5. ProducerWakeups'
    <3> SUFFICES ASSUME ~shutdown, sleeping \cap Producer # {}
                 PROVE  QueueSize - 1 - QueueLength(task_queue) <= Cardinality(Coming(Producer)')
      BY <1>2, <2>1 DEF ProducerWakeups
    <3>1. QueueSize - 1 - QueueLength(task_queue) <= Cardinality(Coming(Producer))
      BY <1>1 DEF ProducerWakeups
    <3>2. /\ Cardinality(Coming(Producer)) <= Cardinality(Coming(Producer)')
          /\ Cardinality(Coming(Producer)) \in Nat /\ Cardinality(Coming(Producer)') \in Nat
      BY <2>2, <2>3, MoreComing
    <3> QED  BY <3>1, <3>2, Lengths, QueueSizeAssumption
  <2> QED  BY <1>2, <1>3, <1>4, <2>1, <2>3, <2>4, <2>5 DEF Wakes, Few
<1>6. CASE AddTaskLocked(p) /\ ~queue_full(task_queue) /\ ~shutdown
  <2>1. sleeping' \subseteq sleeping
    BY <1>6, SignalType DEF AddTaskLocked, QueueNotEmpty
  <2> QED  BY <1>3, <1>4, <1>6, <2>1, EnteredWakes DEF Wakes
<1>7. CASE AddTaskLocked(p) /\ queue_full(task_queue) /\ ~shutdown
  <2>1. /\ sleeping' = sleeping \cup {p} /\ UNCHANGED task_queue /\ pc'[p] = "waiting"
    BY <1>7, ThreadsApart DEF AddTaskLocked, Goto, TypeOK, ControlOK
  <2>2. Waiting'
    BY <1>1, <1>2, <2>1 DEF Waiting
  <2>3. Coming(Worker)' = Coming(Worker) /\ (sleeping \cap Worker)' \subseteq sleeping
    BY <1>2, <2>1, ThreadsApart DEF Coming
  <2>4. WorkerWakeups'
    BY <1>1, <1>2, <2>1, <2>3, WorkersLeft
  <2>5. Coming(Producer)' \subseteq Coming(Producer)
    BY <1>2, <2>1, ThreadsApart DEF Coming
  <2>6. Few' /\ IsFiniteSet(Coming(Producer)')
    BY <1>1, <1>2, <1>7, <2>5, FS_Subset DEF Few
  <2>7. QueueLength(task_queue)' = QueueSize - 1 /\ Cardinality(Coming(Producer)') \in Nat
    BY <1>7, <2>1, <2>6, Lengths, FS_CardinalityType
  <2>8. ProducerWakeups'
    BY <2>7, QueueSizeAssumption DEF ProducerWakeups
  <2> QED  BY <1>3, <2>2, <2>4, <2>6, <2>8 DEF Wakes
<1>8. CASE AddTaskLocked(p) /\ shutdown
  <2>1. UNCHANGED sleeping
    BY <1>8 DEF AddTaskLocked
  <2> QED  BY <1>2, <1>3, <1>4, <1>8, <2>1 DEF Wakes, Few, WorkerWakeups, ProducerWakeups
<1> QED  BY <1>5, <1>6, <1>7, <1>8 DEF ProducerNext

\* Admin does not exist before Owner has made it.
NotBegun == pc[Owner] = "start" => pc[Admin] = "none"

LEMMA CreatesOne ==
  ASSUME TypeOK, NEW t \in {Owner, Admin}, NEW s, Create(t, s)
  PROVE  /\ \A w \in Worker : pc'[w] = pc[w] \/ (pc[w] = "none" /\ pc'[w] = "enter")
         /\ \A p \in Producer : pc'[p] = pc[p]
<1>1. PICK w \in Worker \ Created : pc' = [pc EXCEPT ![w] = "enter", ![t] = "mark"]
  BY DEF Create
<1>2. pc[w] = "none" /\ w \in Thread /\ w # t /\ t \in Thread
  BY <1>1, ThreadsApart DEF Created
<1>3. pc'[w] = "enter" /\ \A u \in Thread \ {w, t} : pc'[u] = pc[u]
  BY <1>1, <1>2 DEF TypeOK, ControlOK
<1>4. \A u \in Worker \cup Producer : u \in Thread /\ u # t
  BY ThreadsApart
<1>5. \A p \in Producer : p # w
  BY ThreadsApart
<1> QED  BY <1>2, <1>3, <1>4, <1>5

\* The steps of the other threads only add to those on their way, until shutdown.
LEMMA OthersWake ==
  ASSUME TypeOK, NotBegun, Wakes, AdminNext \/ OwnerWork \/ Shutdown \/ Destroy
  PROVE  Wakes'
<1>1. Waiting /\ Drained /\ Few /\ WorkerWakeups /\ ProducerWakeups /\ sleeping \subseteq Thread
  BY DEF Wakes, TypeOK, MemoryOK, Thread
<1>2. ASSUME AdminNext
      PROVE  /\ \A w \in Worker : pc'[w] = pc[w] \/ (pc[w] = "none" /\ pc'[w] = "enter")
             /\ \A p \in Producer : pc'[p] = pc[p]
             /\ Admin \in sleeping => FALSE
  <2>1. \/ \E s : Create(Admin, s)
        \/ \E label : Goto(Admin, label)
        \/ UNCHANGED pc
    BY <1>2 DEF AdminNext, AdminScan, AdminTestLayoff, AdminLayoff, AdminTestGrow,
       AdminSpawn, MarkCreated, CountCreated, AdminSleep
  <2>2. Admin \notin sleeping
    BY <1>1, <1>2 DEF Waiting, AdminNext, AdminScan, AdminTestLayoff, AdminLayoff, AdminTestGrow,
       AdminSpawn, MarkCreated, CountCreated, AdminSleep
  <2>3. (\E label : Goto(Admin, label)) \/ UNCHANGED pc =>
            /\ \A w \in Worker : pc'[w] = pc[w]
            /\ \A p \in Producer : pc'[p] = pc[p]
    BY ThreadsApart DEF Goto, TypeOK, ControlOK
  <2> QED  BY <2>1, <2>2, <2>3, CreatesOne
<1>3. ASSUME OwnerWork \/ Shutdown \/ Destroy
      PROVE  /\ \A w \in Worker : pc'[w] = pc[w] \/ (pc[w] = "none" /\ pc'[w] = "enter")
             /\ \A p \in Producer : pc'[p] = pc[p]
             /\ pc[Admin] = "waiting" => pc'[Admin] = "waiting"
  <2>1. \/ Create(Owner, i[Owner])
        \/ \E label : Goto(Owner, label)
        \/ UNCHANGED pc
        \/ OwnerStart
    BY <1>3 DEF OwnerWork, OwnerSpawn, MarkCreated, CountCreated, OwnerBlank,
       Announce, JoinAdmin, Reap, Shutdown, Destroy
  <2>2. CASE Create(Owner, i[Owner])
    <3>1. pc'[Admin] = pc[Admin]
      BY <2>2, CreateLabels, ThreadsApart
    <3> QED  BY <2>2, <3>1, CreatesOne
  <2>3. CASE (\E label : Goto(Owner, label)) \/ UNCHANGED pc
    BY <2>3, ThreadsApart DEF Goto, TypeOK, ControlOK
  <2>4. CASE OwnerStart
    <3>1. pc' = [pc EXCEPT ![Owner] = "spawn", ![Admin] = "lock"] /\ pc[Admin] = "none"
      BY <2>4 DEF OwnerStart, NotBegun
    <3> QED  BY <3>1, ThreadsApart DEF TypeOK, ControlOK
  <2> QED  BY <2>1, <2>2, <2>3, <2>4
<1>4. /\ \A w \in Worker : pc'[w] = pc[w] \/ (pc[w] = "none" /\ pc'[w] = "enter")
      /\ \A p \in Producer : pc'[p] = pc[p]
  BY <1>2, <1>3
<1>5. /\ UNCHANGED <<task_queue, retired>> /\ (~shutdown' => ~shutdown)
      /\ \/ sleeping' \subseteq sleeping
         \/ sleeping' = sleeping \cup {Admin} /\ pc'[Admin] = "waiting"
  <2>1. CASE AdminNext
    <3>1. AdminSleep => pc'[Admin] = "waiting"
      BY ThreadsApart DEF AdminSleep, Goto, TypeOK, ControlOK
    <3> QED
      BY <2>1, <3>1 DEF AdminNext, AdminScan, AdminTestLayoff, AdminLayoff, AdminTestGrow,
         AdminSpawn, MarkCreated, CountCreated, AdminSleep, ghosts
  <2>2. CASE OwnerWork \/ Shutdown \/ Destroy
    BY <2>2 DEF OwnerWork, OwnerStart, OwnerSpawn, MarkCreated, CountCreated, OwnerBlank,
       Announce, JoinAdmin, Reap, Shutdown, Destroy, Broadcast, ghosts
  <2> QED  BY <2>1, <2>2
<1>6. Waiting'
  <2>1. \A t \in sleeping : t \in Worker \/ t \in Producer \/ t = Admin
    BY DEF TypeOK, MemoryOK
  <2>2. \A t \in sleeping : pc'[t] = "waiting"
    BY <1>1, <1>2, <1>3, <2>1 DEF Waiting
  <2> QED  BY <1>5, <2>2 DEF Waiting
<1>7. Drained'
  BY <1>1, <1>4, <1>5 DEF Drained
<1>8. CASE ~shutdown'
  <2>1. \A t \in Worker \cup Producer : t \in sleeping' <=> t \in sleeping
    <3>1. CASE AdminNext
      BY <3>1, ThreadsApart DEF AdminNext, AdminScan, AdminTestLayoff, AdminLayoff, AdminTestGrow,
         AdminSpawn, MarkCreated, CountCreated, AdminSleep
    <3>2. CASE OwnerWork \/ Shutdown \/ Destroy
      BY <1>8, <3>2, ThreadsApart DEF OwnerWork, OwnerStart, OwnerSpawn, MarkCreated, CountCreated,
         OwnerBlank, Announce, JoinAdmin, Reap, Shutdown, Destroy, Broadcast, WorkingCond
    <3> QED  BY <3>1, <3>2
  <2>2. /\ Coming(Worker) \subseteq Coming(Worker)' /\ Coming(Producer)' = Coming(Producer)
        /\ (sleeping \cap Worker)' \subseteq sleeping /\ (sleeping \cap Producer)' \subseteq sleeping
    BY <1>4, <2>1 DEF Coming
  <2> QED  BY <1>1, <1>5, <1>6, <1>7, <2>2, WorkersLeft, ProducersLeft DEF Wakes
<1>9. CASE shutdown'
  BY <1>6, <1>7, <1>9 DEF Wakes, Few, WorkerWakeups, ProducerWakeups
<1> QED  BY <1>8, <1>9

LEMMA SpuriousWakes ==
  ASSUME TypeOK, Wakes, NEW t \in sleeping, SpuriousWakeup(t)
  PROVE  Wakes'
<1>1. /\ UNCHANGED <<pc, task_queue, shutdown, retired>> /\ sleeping' = sleeping \ {t}
      /\ Waiting /\ Drained /\ Few /\ WorkerWakeups /\ ProducerWakeups
  BY DEF SpuriousWakeup, Wakes, ghosts
<1>2. Waiting' /\ Drained'
  BY <1>1 DEF Waiting, Drained
<1>3. /\ Coming(Worker) \subseteq Coming(Worker)'
      /\ Coming(Producer) \subseteq Coming(Producer)'
      /\ Coming(Producer)' \subseteq Coming(Producer) \cup {t}
  BY <1>1 DEF Coming
<1>4. WorkerWakeups'
  BY <1>1, <1>3, WorkersLeft
<1>5. ASSUME ~shutdown PROVE IsFiniteSet(Coming(Producer)') /\ IsFiniteSet(Coming(Producer))
  <2>1. IsFiniteSet(Coming(Producer) \cup {t})
    BY <1>1, <1>5, FS_AddElement DEF Few
  <2> QED  BY <1>3, <2>1, FS_Subset
<1>6. ProducerWakeups'
  <2> SUFFICES ASSUME ~shutdown, sleeping \cap Producer # {}
               PROVE  QueueSize - 1 - QueueLength(task_queue) <= Cardinality(Coming(Producer)')
    BY <1>1 DEF ProducerWakeups
  <2>1. QueueSize - 1 - QueueLength(task_queue) <= Cardinality(Coming(Producer))
    BY <1>1 DEF ProducerWakeups
  <2>2. /\ Cardinality(Coming(Producer)) <= Cardinality(Coming(Producer)')
        /\ Cardinality(Coming(Producer)) \in Nat /\ Cardinality(Coming(Producer)') \in Nat
    BY <1>3, <1>5, MoreComing
  <2> QED  BY <2>1, <2>2, Lengths, QueueSizeAssumption
<1> QED  BY <1>1, <1>2, <1>4, <1>5, <1>6 DEF Wakes, Few

LEMMA NotBegunStep == TypeOK /\ NotBegun /\ [Next]_vars => NotBegun'
<1> SUFFICES ASSUME TypeOK, NotBegun, [Next]_vars, pc'[Owner] = "start" PROVE pc'[Admin] = "none"
  BY DEF NotBegun
<1> USE DEF TypeOK, ControlOK
<1>1. CASE OwnerWork \/ Shutdown \/ Destroy
  <2>1. CASE Create(Owner, i[Owner])
    BY <2>1, CreateLabels, ThreadsApart
  <2>2. CASE ~Create(Owner, i[Owner])
    BY <1>1, <2>2, ThreadsApart DEF OwnerWork, OwnerStart, OwnerSpawn, MarkCreated, CountCreated,
       OwnerBlank, Announce, JoinAdmin, Reap, Shutdown, Destroy, Goto, NotBegun
  <2> QED  BY <2>1, <2>2
<1>2. CASE AdminNext
  <2>1. pc[Owner] = "start"
    <3>1. CASE \E s : Create(Admin, s)
      BY <3>1, CreateLabels, ThreadsApart
    <3>2. CASE ~\E s : Create(Admin, s)
      BY <1>2, <3>2, ThreadsApart DEF AdminNext, AdminScan, AdminTestLayoff, AdminLayoff,
         AdminTestGrow, AdminSpawn, MarkCreated, CountCreated, AdminSleep, Goto
    <3> QED  BY <3>1, <3>2
  <2>2. pc[Admin] = "none"
    BY <2>1 DEF NotBegun
  <2> QED
    BY <1>2, <2>2 DEF AdminNext, AdminScan, AdminTestLayoff, AdminLayoff, AdminTestGrow,
       AdminSpawn, MarkCreated, CountCreated, AdminSleep
<1>3. ASSUME NEW t \in Worker \cup Producer, \E label : Goto(t, label)
      PROVE  pc'[Admin] = "none"
  BY <1>3, ThreadsApart DEF Goto, NotBegun
<1>4. ASSUME NEW w \in Worker, WorkerNext(w) PROVE pc'[Admin] = "none"
  BY <1>3, <1>4 DEF WorkerNext, WorkerEnter, WorkerSleep, WorkerWake, WorkerRecheck, WorkerRetire,
     WorkerMarkBusy, WorkerTellBusy, WorkerRun, WorkerMarkFree, StartRetiring
<1>5. ASSUME NEW p \in Producer, ProducerNext(p) PROVE pc'[Admin] = "none"
  BY <1>3, <1>5 DEF ProducerNext, AddTask, AddTaskLocked
<1>6. ASSUME UNCHANGED pc PROVE pc'[Admin] = "none"
  BY <1>6 DEF NotBegun
<1> QED
  BY <1>1, <1>2, <1>4, <1>5, <1>6 DEF Next, SpuriousWakeup, vars

LEMMA WakesAlways == Spec => []Wakes
<1>1. Init => Wakes /\ NotBegun
  <2> SUFFICES ASSUME Init PROVE Wakes /\ NotBegun  OBVIOUS
  <2>1. /\ sleeping = {} /\ \A w \in Worker : pc[w] = "none"
        /\ \A p \in Producer : pc[p] = "idle"
        /\ pc[Admin] = "none"
    BY ThreadsApart DEF Init
  <2>2. Coming(Producer) = {}
    BY <2>1 DEF Coming
  <2>3. IsFiniteSet(Coming(Producer))
    BY <2>2, FS_EmptySet
  <2> QED
    BY <2>1, <2>3 DEF Wakes, Waiting, Drained, Few, WorkerWakeups, ProducerWakeups, NotBegun
<1>2. TypeOK /\ TypeOK' /\ Sense /\ NotBegun /\ Wakes /\ [Next]_vars => Wakes'
  <2> SUFFICES ASSUME TypeOK, TypeOK', Sense, NotBegun, Wakes, [Next]_vars PROVE Wakes'  OBVIOUS
  <2>1. QueueHeld
    BY DEF Sense
  <2>2. CASE UNCHANGED vars
    <3>1. UNCHANGED <<sleeping, pc, task_queue, shutdown, retired>>
      BY <2>2 DEF vars, ghosts
    <3>2. Coming(Worker)' = Coming(Worker) /\ Coming(Producer)' = Coming(Producer)
      BY <3>1 DEF Coming
    <3> QED
      BY <3>1, <3>2 DEF Wakes, Waiting, Drained, Few, WorkerWakeups, ProducerWakeups
  <2> QED
    BY <2>1, <2>2, WorkerWakes, ProducerWakes, OthersWake, SpuriousWakes DEF Next
<1>3. Spec => [](TypeOK /\ Sense)
  BY TypeCorrect, SenseAlways, PTL
<1> QED  BY <1>1, <1>2, <1>3, NotBegunStep, PTL DEF Spec

\* While a worker sleeps, at least as many others are on their way to the queue
\* as there are tasks in it, for any number of threads: no signal of
\* thr_pool_add_task is lost, until a worker retires with one.
THEOREM TasksAreSeen == Spec => []WorkerWakeups
<1>1. Wakes => WorkerWakeups
  BY DEF Wakes
<1> QED  BY <1>1, WakesAlways, PTL

\* While a caller sleeps in thr_pool_add_task, at least as many others are on
\* their way to the queue as it has free places, for any number of callers and
\* any capacity: no signal of a worker that dequeues is lost.
THEOREM RoomIsSeen == Spec => []ProducerWakeups
<1>1. Wakes => ProducerWakeups
  BY DEF Wakes
<1> QED  BY <1>1, WakesAlways, PTL

-----------------------------------------------------------------------------
(* 6. Admin does not miss the first growth.  Until Admin creates a worker,  *)
(* the threads are those of thr_pool_init, and Admin asks for no layoff, as *)
(* there are no more than min_thrs; it counts under working_mut and keeps   *)
(* it until it sleeps, so a slot that becomes BUSY later is still to be     *)
(* told, and whoever tells it wakes Admin.                                  *)

\* thr_pool_init runs, or the pool is in use.
Building == Initialising \/ pc[Owner] = "open"

\* How many workers thr_pool_init has created, and how many of them it has counted.
OwnerMade ==
    CASE pc[Owner] \in {"mark", "count"} -> i[Owner] + 1
      [] pc[Owner] = "open" -> MinThrs
      [] OTHER -> IF i[Owner] < MinThrs THEN i[Owner] ELSE MinThrs

Counted == IF pc[Owner] \in {"mark", "count"} THEN i[Owner] ELSE OwnerMade

MadeInOrder == Building =>
    /\ 1 .. OwnerMade \subseteq Created
    /\ pc[Owner] = "start" => i[Owner] = 0
    /\ pc[Owner] \in {"mark", "count"} => i[Owner] < MinThrs

\* Admin has created no worker.
Untouched == Building /\ Created \subseteq 1 .. OwnerMade

Calm ==
    /\ ~shutdown /\ exit_thrs = 0
    /\ pc[Admin] \notin {"trim", "mark", "count", "exited"}
    /\ \A w \in Worker : pc[w] # "retire"

CountsKept ==
    /\ live_thrs = Counted
    /\ pc[Owner] = "count" => loaded[Owner].live = live_thrs

RestBlank ==
    /\ pc[Owner] = "mark" => pos[Owner] < MinThrs
    /\ \A w \in Worker : my_pos[w] < MinThrs
    /\ \A s \in Slot : s >= MinThrs => worker_thrs[s].state = "BLANK"

NoWork == Initialising =>
    /\ queue_empty(task_queue) /\ busy = 0
    /\ \A p \in Producer : pc[p] = "idle"
    /\ \A w \in Worker : pc[w] \in {"none", "enter", "sleep", "waiting"}
    /\ \A s \in Slot : worker_thrs[s].state # "BUSY"

Telling == \E w \in Worker : pc[w] = "tell"

\* Admin may grow the pool, and counts or sleeps.
MayGrow == MinThrs < MaxThrs /\ MinThrs < MaxCreate

AdminWatches ==
    /\ i[Admin] = 0
    /\ pc[Admin] \in {"layoff", "grow", "sleep"} => working_mut = Admin
    /\ pc[Owner] = "open" =>
        /\ pc[Admin] = "sleep" \/ Admin \in sleeping => BusyCount # MinThrs \/ Telling
        /\ pc[Admin] \in {"layoff", "grow"} => BusyCount = busy \/ Telling
        /\ pc[Admin] = "grow" /\ busy # 0 => loaded[Admin].live = MinThrs

Undisturbed == Calm /\ CountsKept /\ RestBlank /\ NoWork /\ (MayGrow => AdminWatches)

FirstThreads == MadeInOrder /\ (Untouched => Undisturbed)

\* Owner's numbers, and what follows for them from what a step leaves alone.
LEMMA OwnerNumbers ==
  ASSUME TypeOK
  PROVE  /\ MinThrs \in Nat \ {0} /\ i[Owner] \in Nat /\ OwnerMade \in Nat
         /\ MadeInOrder /\ Building => OwnerMade <= MinThrs /\ Counted \in Nat /\ Counted <= MinThrs
         /\ pc[Owner] = "open" => OwnerMade = MinThrs /\ Counted = MinThrs
<1>1. MinThrs \in Nat \ {0} /\ i[Owner] \in Nat
  BY PoolAssumption DEF TypeOK, MemoryOK
<1> QED  BY <1>1 DEF OwnerMade, Counted, MadeInOrder

LEMMA OwnerLeft ==
  ASSUME pc'[Owner] = pc[Owner], i'[Owner] = i[Owner]
  PROVE  /\ OwnerMade' = OwnerMade /\ Counted' = Counted
         /\ (Building' <=> Building) /\ (Initialising' <=> Initialising)
         /\ MadeInOrder /\ Created \subseteq Created' => MadeInOrder'
BY DEF OwnerMade, Counted, Building, Initialising, MadeInOrder

\* A created worker is the first that there was not.
LEMMA CreatesFirst ==
  ASSUME TypeOK, NEW t \in {Owner, Admin}, NEW s, Create(t, s)
  PROVE  \E w \in Worker \ Created :
            /\ Created' = Created \cup {w}
            /\ \A v \in Worker \ Created : w <= v
            /\ worker_thrs' = [worker_thrs EXCEPT ![s].tid = w]
            /\ pos' = [pos EXCEPT ![t] = s]
<1>1. PICK w \in Worker \ Created :
            /\ \A v \in Worker \ Created : w <= v
            /\ worker_thrs' = [worker_thrs EXCEPT ![s].tid = w]
            /\ pc' = [pc EXCEPT ![w] = "enter", ![t] = "mark"]
            /\ pos' = [pos EXCEPT ![t] = s]
  BY DEF Create
<1>2. /\ w \in Thread /\ w # t /\ t \in Thread
      /\ \A u \in Worker : u \in Thread /\ u # t
  BY <1>1, ThreadsApart
<1>3. pc'[w] = "enter" /\ \A u \in Worker \ {w} : pc'[u] = pc[u]
  BY <1>1, <1>2 DEF TypeOK, ControlOK
<1>4. Created' = Created \cup {w}
  BY <1>1, <1>3 DEF Created
<1> QED  BY <1>1, <1>4

\* The steps of workers and callers create nobody and leave Owner's numbers.
LEMMA OthersCreateNone ==
  ASSUME TypeOK, NEW t \in Worker \cup Producer, NEW label, Goto(t, label), i' = i,
         t \in Worker => pc[t] # "none" /\ label # "none"
  PROVE  /\ Created' = Created /\ \A u \in Thread \ {t} : pc'[u] = pc[u]
         /\ pc'[Owner] = pc[Owner] /\ pc'[Admin] = pc[Admin] /\ i'[Owner] = i[Owner]
         /\ pc'[t] = label
<1>1. t \in Thread /\ t # Owner /\ t # Admin /\ Owner \in Thread /\ Admin \in Thread
  BY ThreadsApart
<1>2. pc'[t] = label /\ \A u \in Thread \ {t} : pc'[u] = pc[u]
  BY <1>1 DEF Goto, TypeOK, ControlOK
<1>3. Created' = Created
  BY <1>2, ThreadsApart DEF Created
<1> QED  BY <1>1, <1>2, <1>3

\* What a worker does while no worker may be laid off.
LEMMA WorkerPlaces ==
  ASSUME TypeOK, NEW w \in Worker, WorkerNext(w)
  PROVE  \E label \in WorkerLabel \ {"none"} : Goto(w, label) /\ pc[w] # "none" /\ UNCHANGED <<i, pos, busy>>
  BY DEF WorkerNext, WorkerEnter, WorkerSleep, WorkerWake, WorkerRecheck, WorkerRetire,
         WorkerMarkBusy, WorkerTellBusy, WorkerRun, WorkerMarkFree, StartRetiring, WorkerLabel, locals

LEMMA WorkerFirst ==
  ASSUME TypeOK, Building, Undisturbed, NEW w \in Worker, WorkerNext(w)
  PROVE  Undisturbed'
<1>1. Calm /\ CountsKept /\ RestBlank /\ NoWork /\ (MayGrow => AdminWatches)
  BY DEF Undisturbed
<1>2. /\ \A u \in Thread \ {w} : pc'[u] = pc[u]
      /\ pc'[Owner] = pc[Owner] /\ pc'[Admin] = pc[Admin] /\ UNCHANGED <<i, pos, busy>>
  BY WorkerPlaces, OthersCreateNone
<1>3. ~shutdown /\ pc[w] # "retire" /\ \A s : ~MayRetire(s)
  BY <1>1 DEF Calm, MayRetire
<1>4. /\ UNCHANGED <<live_thrs, exit_thrs, shutdown, loaded, working_mut>>
      /\ pc'[w] # "retire"
  <2>1. pc'[w] # "retire"
    BY <1>3, ThreadsApart DEF WorkerNext, WorkerEnter, WorkerSleep, WorkerWake, WorkerRecheck, WorkerRetire,
         WorkerMarkBusy, WorkerTellBusy, WorkerRun, WorkerMarkFree, Goto, TypeOK, ControlOK
  <2> QED
    BY <1>3, <2>1 DEF WorkerNext, WorkerEnter, WorkerSleep, WorkerWake, WorkerRecheck, WorkerRetire,
         WorkerMarkBusy, WorkerTellBusy, WorkerRun, WorkerMarkFree, shared, mutexes, locals
<1>5. Calm' /\ CountsKept'
  <2>1. Counted' = Counted
    BY <1>2, OwnerLeft
  <2> QED  BY <1>1, <1>2, <1>4, <2>1, ThreadsApart DEF Calm, CountsKept
<1>6. /\ my_pos' \in {my_pos, [my_pos EXCEPT ![w] = FindMe(w)], [my_pos EXCEPT ![w] = -1]}
      /\ \/ worker_thrs' = worker_thrs /\ (pc[w] # "tell" \/ WorkerTellBusy(w))
         \/ WorkerMarkBusy(w) \/ WorkerMarkFree(w)
  BY <1>3 DEF WorkerNext, WorkerEnter, WorkerSleep, WorkerWake, WorkerRecheck, WorkerRetire,
         WorkerMarkBusy, WorkerTellBusy, WorkerRun, WorkerMarkFree, EndOfTurn, shared, locals
<1>7. RestBlank'
  <2>1. FindMe(w) # -1 => FindMe(w) \in Slot /\ worker_thrs[FindMe(w)].state # "BLANK"
    BY SlotsThere DEF FindMe
  <2>2. /\ MinThrs \in Nat \ {0} /\ FindMe(w) \in Slot \cup {-1} /\ Slot \subseteq Nat
        /\ my_pos \in [Worker -> Slot \cup {-1}]
    BY PoolAssumption, SlotsThere, FindMeType DEF TypeOK, MemoryOK
  <2>3. FindMe(w) < MinThrs /\ -1 < MinThrs
    <3>1. PICK s \in Slot \cup {-1} : s = FindMe(w)
      BY <2>2
    <3>2. CASE s = -1
      BY <2>2, <3>1, <3>2
    <3>3. CASE s \in Slot
      <4>1. s \in Nat /\ ~(s >= MinThrs)
        <5>1. s \in Nat /\ s # -1
          BY <2>2, <3>3
        <5>2. worker_thrs[s].state # "BLANK"
          BY <2>1, <3>1, <5>1
        <5>3. s >= MinThrs => worker_thrs[s].state = "BLANK"
          BY <1>1, <3>3 DEF RestBlank
        <5> QED  BY <5>1, <5>2, <5>3
      <4> QED  BY <2>2, <3>1, <4>1
    <3> QED  BY <3>2, <3>3
  <2>4. \A v \in Worker : my_pos'[v] < MinThrs
    BY <1>1, <1>6, <2>2, <2>3 DEF RestBlank
  <2>5. ASSUME NEW s \in Slot, s >= MinThrs PROVE worker_thrs'[s].state = "BLANK"
    <3>0. my_pos[w] < MinThrs /\ my_pos[w] \in Int /\ s \in Int
      <4>1. my_pos[w] < MinThrs
        BY <1>1 DEF RestBlank
      <4>2. s \in Int /\ Slot \cup {-1} \subseteq Int
        BY <2>2, <2>5
      <4>3. my_pos[w] \in Slot \cup {-1}
        BY <2>2
      <4> QED  BY <4>1, <4>2, <4>3
    <3>1. s # my_pos[w] /\ worker_thrs[s].state = "BLANK"
      BY <1>1, <2>2, <2>5, <3>0 DEF RestBlank
    <3>2. \/ worker_thrs' = worker_thrs
          \/ \E b : worker_thrs' = [worker_thrs EXCEPT ![my_pos[w]].state = b]
      BY <1>6 DEF WorkerMarkBusy, WorkerMarkFree
    <3> QED  BY <3>1, <3>2 DEF TypeOK, MemoryOK
  <2> QED  BY <1>1, <1>2, <2>4, <2>5 DEF RestBlank
<1>8. NoWork'
  <2> SUFFICES ASSUME Initialising PROVE NoWork'
    BY <1>2, OwnerLeft DEF NoWork
  <2>1. /\ queue_empty(task_queue) /\ busy = 0
        /\ \A p \in Producer : pc[p] = "idle"
        /\ \A v \in Worker : pc[v] \in {"none", "enter", "sleep", "waiting"}
        /\ \A s \in Slot : worker_thrs[s].state # "BUSY"
    BY <1>1 DEF NoWork
  <2>2. pc[w] \in {"none", "enter", "sleep", "waiting"}
    BY <2>1
  <2>3. WorkerEnter(w) \/ WorkerSleep(w) \/ WorkerWake(w)
    BY <2>2 DEF WorkerNext, WorkerRecheck, WorkerRetire, WorkerMarkBusy, WorkerTellBusy, WorkerRun,
       WorkerMarkFree
  <2>4. UNCHANGED <<task_queue, worker_thrs>> /\ pc'[w] \in {"sleep", "waiting"}
    BY <1>3, <2>1, <2>3, ThreadsApart DEF WorkerEnter, WorkerSleep, WorkerWake, MustWait, Goto,
       shared, TypeOK, ControlOK
  <2>5. \A v \in Worker \cup Producer : v # w => pc'[v] = pc[v]
    BY <1>2, ThreadsApart
  <2>6. \A p \in Producer : pc'[p] = "idle"
    BY <2>1, <2>5, ThreadsApart
  <2>7. \A v \in Worker : pc'[v] \in {"none", "enter", "sleep", "waiting"}
    BY <2>1, <2>4, <2>5
  <2> QED  BY <1>2, <2>1, <2>4, <2>6, <2>7 DEF NoWork
<1>9. ASSUME MayGrow, AdminWatches PROVE AdminWatches'
  <2>1. CASE worker_thrs' = worker_thrs /\ pc[w] # "tell"
    <3>1. BusyCount' = BusyCount
      BY <2>1 DEF BusyCount
    <3>2. Telling => Telling'
      BY <1>2, <2>1, ThreadsApart DEF Telling
    <3>3. Admin \in sleeping' => Admin \in sleeping
      BY <1>3, <2>1, ThreadsApart DEF WorkerNext, WorkerEnter, WorkerSleep, WorkerWake, WorkerRecheck,
         WorkerRetire, WorkerMarkBusy, WorkerTellBusy, WorkerRun, WorkerMarkFree, Signal
    <3> QED  BY <1>2, <1>4, <1>9, <3>1, <3>2, <3>3 DEF AdminWatches
  <2>2. CASE WorkerMarkBusy(w)
    <3>1. pc'[w] = "tell"
      BY <2>2, ThreadsApart DEF WorkerMarkBusy, Goto, TypeOK, ControlOK
    <3> QED  BY <1>2, <1>4, <1>9, <3>1 DEF AdminWatches, Telling
  <2>3. CASE WorkerTellBusy(w) \/ WorkerMarkFree(w)
    <3>1. working_mut = Nobody /\ Signal({Admin})
      BY <2>3 DEF WorkerTellBusy, WorkerMarkFree, MayTell, WorkingCond
    <3>2. pc'[Admin] \notin {"layoff", "grow", "sleep"} /\ Admin \notin sleeping'
      BY <1>2, <1>9, <3>1, ThreadsApart DEF AdminWatches, Signal
    <3> QED  BY <1>2, <1>9, <3>2 DEF AdminWatches
  <2> QED  BY <1>6, <2>1, <2>2, <2>3
<1> QED  BY <1>1, <1>5, <1>7, <1>8, <1>9 DEF Undisturbed

LEMMA ProducerFirst ==
  ASSUME TypeOK, Building, Undisturbed, NEW p \in Producer, ProducerNext(p)
  PROVE  Undisturbed' /\ Created' = Created /\ pc'[Owner] = pc[Owner] /\ i'[Owner] = i[Owner]
<1>1. Calm /\ CountsKept /\ RestBlank /\ NoWork /\ (MayGrow => AdminWatches)
  BY DEF Undisturbed
<1>2. PICK label \in ProducerLabel : Goto(p, label) /\ UNCHANGED <<shared, locals, shutdown, working_mut>>
  BY DEF ProducerNext, AddTask, AddTaskLocked, ProducerLabel, mutexes
<1>3. /\ Created' = Created /\ \A u \in Thread \ {p} : pc'[u] = pc[u]
      /\ pc'[Owner] = pc[Owner] /\ pc'[Admin] = pc[Admin] /\ i'[Owner] = i[Owner]
  BY <1>2, OthersCreateNone, ThreadsApart DEF locals
<1>4. UNCHANGED <<worker_thrs, live_thrs, exit_thrs, my_pos, loaded, busy, i, pos>>
  BY <1>2 DEF shared, locals
<1>5. /\ Counted' = Counted /\ (Initialising' <=> Initialising)
      /\ \A w \in Worker : pc'[w] = pc[w]
  BY <1>3, OwnerLeft, ThreadsApart
<1>6. Calm' /\ CountsKept' /\ RestBlank'
  BY <1>1, <1>2, <1>3, <1>4, <1>5 DEF Calm, CountsKept, RestBlank
<1>7. ~Initialising
  BY <1>1 DEF NoWork, Initialising, InService, ProducerNext, AddTask, AddTaskLocked
<1>8. NoWork'
  BY <1>5, <1>7 DEF NoWork
<1>9. ASSUME AdminWatches PROVE AdminWatches'
  <2>1. BusyCount' = BusyCount /\ (Telling' <=> Telling)
    BY <1>4, <1>5 DEF BusyCount, Telling
  <2>2. Admin \in sleeping' => Admin \in sleeping
    BY ThreadsApart DEF ProducerNext, AddTask, AddTaskLocked, Signal
  <2> QED  BY <1>2, <1>3, <1>4, <1>9, <2>1, <2>2 DEF AdminWatches
<1> QED  BY <1>1, <1>3, <1>6, <1>8, <1>9 DEF Undisturbed

LEMMA SpuriousFirst ==
  ASSUME Undisturbed, NEW t \in sleeping, SpuriousWakeup(t)
  PROVE  Undisturbed'
<1>1. /\ UNCHANGED <<worker_thrs, live_thrs, exit_thrs, shutdown, task_queue, working_mut, pc, my_pos,
                     loaded, busy, i, pos>>
      /\ sleeping' \subseteq sleeping
  BY DEF SpuriousWakeup, shared, locals, mutexes
<1>2. BusyCount' = BusyCount /\ (Telling' <=> Telling) /\ Counted' = Counted
      /\ (Initialising' <=> Initialising)
  BY <1>1 DEF BusyCount, Telling, Counted, OwnerMade, Initialising
<1>3. Calm' /\ CountsKept' /\ RestBlank' /\ NoWork'
  BY <1>1, <1>2 DEF Undisturbed, Calm, CountsKept, RestBlank, NoWork
<1>4. AdminWatches => AdminWatches'
  BY <1>1, <1>2 DEF AdminWatches
<1> QED  BY <1>3, <1>4 DEF Undisturbed

\* No slot is BUSY, so none is counted.
LEMMA NoneBusy ==
  ASSUME \A s \in Slot : worker_thrs[s].state # "BUSY"
  PROVE  BusyCount = 0
<1>1. {s \in Slot : worker_thrs[s].state = "BUSY"} = {}
  OBVIOUS
<1> QED  BY <1>1, FS_EmptySet DEF BusyCount

\* Admin's steps keep it, unless it creates a worker.
LEMMA AdminFirst ==
  ASSUME TypeOK, MadeInOrder, Untouched, Undisturbed, AdminNext, Created' = Created
  PROVE  Undisturbed'
<1>1. Calm /\ CountsKept /\ RestBlank /\ NoWork /\ (MayGrow => AdminWatches)
  BY DEF Undisturbed
<1>2. ~\E s : Create(Admin, s)
  BY CreatesFirst
<1>3. PICK label \in AdminLabel : Goto(Admin, label) \/ (pc' = pc /\ label = pc[Admin])
  BY <1>2 DEF AdminNext, AdminScan, AdminTestLayoff, AdminLayoff, AdminTestGrow, AdminSpawn,
     MarkCreated, CountCreated, AdminSleep, AdminLabel
<1>4. pc'[Admin] = label /\ \A u \in Thread \ {Admin} : pc'[u] = pc[u]
  BY <1>3, ThreadsApart DEF Goto, TypeOK, ControlOK
<1>5. /\ pc'[Owner] = pc[Owner] /\ \A w \in Worker : pc'[w] = pc[w]
      /\ \A p \in Producer : pc'[p] = pc[p]
  BY <1>4, ThreadsApart
<1>6. AdminScan \/ AdminTestLayoff \/ AdminTestGrow \/ AdminSpawn \/ AdminSleep
  BY <1>1 DEF Calm, AdminNext, AdminLayoff, MarkCreated, CountCreated
<1>7. /\ UNCHANGED <<worker_thrs, live_thrs, exit_thrs, shutdown, task_queue, my_pos, pos>>
      /\ i'[Owner] = i[Owner] /\ loaded'[Owner] = loaded[Owner]
  <2>1. UNCHANGED <<worker_thrs, live_thrs, exit_thrs, shutdown, task_queue, my_pos, pos>>
    BY <1>2, <1>6 DEF AdminScan, AdminTestLayoff, AdminTestGrow, AdminSpawn, AdminSleep, shared, locals
  <2>2. i' = i \/ \E n : i' = [i EXCEPT ![Admin] = n]
    BY <1>2, <1>6 DEF AdminScan, AdminTestLayoff, AdminTestGrow, AdminSpawn, AdminSleep, locals
  <2>3. \/ loaded' = loaded \/ loaded' = [loaded EXCEPT ![Admin].live = live_thrs]
        \/ loaded' = [loaded EXCEPT ![Admin] = NothingLoaded]
    BY <1>6 DEF AdminScan, AdminTestLayoff, AdminTestGrow, AdminSpawn, AdminSleep, locals
  <2> QED  BY <2>1, <2>2, <2>3, ThreadsApart DEF TypeOK, MemoryOK
<1>8. /\ Counted' = Counted /\ (Initialising' <=> Initialising) /\ BusyCount' = BusyCount
      /\ (Telling' <=> Telling)
  BY <1>5, <1>7, OwnerLeft DEF BusyCount, Telling
<1>9. live_thrs \in Nat /\ live_thrs <= MinThrs /\ (pc[Owner] = "open" => live_thrs = MinThrs)
      /\ MinThrs \in Nat \ {0}
  BY <1>1, OwnerNumbers DEF Untouched, CountsKept
<1>10. RestBlank' /\ CountsKept'
  BY <1>1, <1>5, <1>7, <1>8 DEF RestBlank, CountsKept
<1>11. Initialising => BusyCount = 0
  BY <1>1, NoneBusy DEF NoWork
<1>12. NoWork'
  <2>1. Initialising => busy' = 0
    BY <1>1, <1>6, <1>11 DEF AdminScan, AdminTestLayoff, AdminTestGrow, AdminSpawn, AdminSleep, locals,
       NoWork
  <2> QED  BY <1>1, <1>5, <1>7, <1>8, <2>1 DEF NoWork
<1>13. Calm'
  <2>1. label \notin {"trim", "mark", "count", "exited"}
    <3>1. ~TooManyIdle /\ ~shutdown
      BY <1>1, <1>9 DEF TooManyIdle, Calm
    <3>2. ~shutdown /\ pc[Admin] \notin {"trim", "mark", "count", "exited"}
      BY <1>1 DEF Calm
    <3> QED
      BY <1>2, <1>4, <1>6, <3>1, <3>2, ThreadsApart DEF AdminScan, AdminTestLayoff, AdminTestGrow,
         AdminSpawn, AdminSleep, Goto, TypeOK, ControlOK
  <2> QED  BY <1>1, <1>4, <1>5, <1>7, <2>1 DEF Calm
<1>14. ASSUME MayGrow, AdminWatches PROVE AdminWatches'
  <2>1. CASE AdminScan
    <3>1. /\ working_mut' = Admin /\ busy' = BusyCount /\ pc'[Admin] = "layoff"
          /\ UNCHANGED <<sleeping, i>>
      BY <1>1, <2>1, ThreadsApart DEF AdminScan, Calm, Goto, TypeOK, ControlOK
    <3> QED  BY <1>5, <1>8, <1>14, <3>1 DEF AdminWatches
  <2>2. CASE AdminTestLayoff
    <3>1. ~TooManyIdle
      BY <1>9 DEF TooManyIdle
    <3>2. /\ pc[Admin] = "layoff" /\ pc'[Admin] = "grow" /\ UNCHANGED <<sleeping, i, busy, working_mut>>
          /\ loaded' = [loaded EXCEPT ![Admin].live = live_thrs]
      BY <2>2, <3>1, ThreadsApart DEF AdminTestLayoff, Goto, TypeOK, ControlOK, mutexes
    <3>3. loaded'[Admin].live = live_thrs
      BY <3>2, ThreadsApart DEF TypeOK, MemoryOK
    <3> QED  BY <1>5, <1>8, <1>9, <1>14, <3>2, <3>3 DEF AdminWatches
  <2>3. CASE AdminTestGrow
    <3>1. /\ pc[Admin] = "grow" /\ UNCHANGED <<sleeping, i>> /\ busy \in Nat /\ BusyCount \in Nat
          /\ MaxThrs \in Nat
      BY <2>3, BusyCountType, PoolAssumption DEF AdminTestGrow, TypeOK, MemoryOK
    <3>2. PICK live \in LiveRead :
            \/ AllBusy(live) /\ Goto(Admin, "spawn")
            \/ ~AllBusy(live) /\ UNCHANGED working_mut /\ Goto(Admin, "sleep")
      BY <2>3 DEF AdminTestGrow
    <3>3. CASE Goto(Admin, "spawn")
      <4>1. pc'[Admin] = "spawn"
        BY <3>3, ThreadsApart DEF Goto, TypeOK, ControlOK
      <4> QED  BY <1>5, <1>8, <1>14, <3>1, <4>1 DEF AdminWatches
    <3>4. CASE ~AllBusy(live) /\ UNCHANGED working_mut /\ Goto(Admin, "sleep")
      <4>1. pc'[Admin] = "sleep"
        BY <3>4, ThreadsApart DEF Goto, TypeOK, ControlOK
      <4>2. pc[Owner] = "open" => BusyCount # MinThrs \/ Telling
        <5> SUFFICES ASSUME pc[Owner] = "open", ~Telling PROVE BusyCount # MinThrs
          OBVIOUS
        <5>1. BusyCount = busy /\ (busy # 0 => loaded[Admin].live = MinThrs) /\ live_thrs = MinThrs
          BY <1>9, <1>14, <3>1 DEF AdminWatches
        <5>2. CASE busy = 0
          BY <1>9, <5>1, <5>2
        <5>3. CASE busy # 0
          <6>1. live = MinThrs
            BY <3>2, <5>1, <5>3 DEF LiveRead
          <6> QED  BY <1>14, <3>1, <3>4, <5>1, <6>1 DEF AllBusy, MayGrow
        <5> QED  BY <5>2, <5>3
      <4> QED  BY <1>5, <1>8, <1>14, <3>1, <3>4, <4>1, <4>2 DEF AdminWatches
    <3> QED  BY <3>2, <3>3, <3>4
  <2>4. ~AdminSpawn
    <3> SUFFICES ASSUME AdminSpawn PROVE FALSE
      OBVIOUS
    <3>1. i[Admin] = 0 /\ i[Admin] < MinThrs /\ live_thrs < MaxThrs
      BY <1>9, <1>14, PoolAssumption DEF AdminWatches, MayGrow
    <3>2. FreePos # {}
      <4>1. MinThrs \in Slot /\ MinThrs >= MinThrs
        BY <1>14, PoolAssumption DEF Slot, MayGrow
      <4> QED  BY <1>1, <4>1 DEF FreePos, RestBlank
    <3>3. CanCreate
      <4>1. MinThrs + 1 \in Worker /\ OwnerMade \in Nat /\ OwnerMade <= MinThrs /\ MinThrs \in Nat
        BY <1>14, OwnerNumbers, PoolAssumption DEF Worker, MayGrow, Untouched
      <4>2. MinThrs + 1 \notin 1 .. OwnerMade
        BY <4>1
      <4> QED  BY <4>1, <4>2 DEF CanCreate, Untouched
    <3> QED  BY <1>2, <3>1, <3>2, <3>3 DEF AdminSpawn
  <2>5. CASE AdminSleep
    <3>1. /\ pc[Admin] = "sleep" /\ pc'[Admin] = "waiting" /\ UNCHANGED i
      BY <2>5, ThreadsApart DEF AdminSleep, Goto, TypeOK, ControlOK, locals
    <3> QED  BY <1>5, <1>8, <1>14, <3>1 DEF AdminWatches
  <2> QED  BY <1>6, <2>1, <2>2, <2>3, <2>4, <2>5
<1> QED  BY <1>1, <1>10, <1>12, <1>13, <1>14 DEF Undisturbed

\* thr_pool_init's steps.
LEMMA OwnerFirst ==
  ASSUME TypeOK, MadeInOrder, OwnerWork \/ Shutdown \/ Destroy
  PROVE  MadeInOrder' /\ (Untouched' => Untouched /\ (Undisturbed => Undisturbed'))
<1>1. MinThrs \in Nat \ {0} /\ i[Owner] \in Nat /\ i \in [{Owner, Admin} -> Nat]
  BY OwnerNumbers DEF TypeOK, MemoryOK
<1>2. CASE OwnerStart
  <2>1. /\ pc[Owner] = "start" /\ pc'[Owner] = "spawn" /\ pc'[Admin] = "lock"
        /\ \A w \in Worker : pc'[w] = pc[w]
        /\ \A p \in Producer : pc'[p] = pc[p]
    BY <1>2, ThreadsApart DEF OwnerStart, TypeOK, ControlOK
  <2>2. UNCHANGED <<worker_thrs, live_thrs, exit_thrs, shutdown, task_queue, my_pos, loaded, busy, i, pos>>
    BY <1>2 DEF OwnerStart, shared, locals
  <2>3. /\ OwnerMade' = OwnerMade /\ Counted' = Counted /\ Created' = Created
        /\ Initialising /\ Initialising'
    BY <2>1, <2>2 DEF OwnerMade, Counted, Created, Initialising
  <2>4. MadeInOrder' /\ (Untouched' => Untouched)
    BY <2>1, <2>3 DEF MadeInOrder, Untouched, Building
  <2>5. Undisturbed => Calm' /\ CountsKept' /\ RestBlank' /\ NoWork'
    BY <2>1, <2>2, <2>3 DEF Undisturbed, Calm, CountsKept, RestBlank, NoWork
  <2>6. AdminWatches => AdminWatches'
    BY <2>1, <2>2 DEF AdminWatches
  <2> QED  BY <2>4, <2>5, <2>6 DEF Undisturbed
<1>3. CASE OwnerSpawn /\ Create(Owner, i[Owner])
  <2>1. PICK w \in Worker \ Created :
            /\ Created' = Created \cup {w}
            /\ \A v \in Worker \ Created : w <= v
            /\ worker_thrs' = [worker_thrs EXCEPT ![i[Owner]].tid = w]
            /\ pos' = [pos EXCEPT ![Owner] = i[Owner]]
    BY <1>3, CreatesFirst
  <2>2. /\ pc[Owner] = "spawn" /\ i[Owner] < MinThrs /\ pc'[Owner] = "mark" /\ pc'[Admin] = pc[Admin]
        /\ \A v \in Worker : pc'[v] = pc[v] \/ (pc[v] = "none" /\ pc'[v] = "enter")
        /\ \A p \in Producer : pc'[p] = pc[p]
    BY <1>3, CreateLabels, CreatesOne, ThreadsApart DEF OwnerSpawn
  <2>3. UNCHANGED <<live_thrs, exit_thrs, shutdown, sleeping, task_queue, working_mut, my_pos, loaded,
                    busy, i>>
    <3>1. pc'[Owner] = "mark" /\ pc[Owner] = "spawn"
      BY <2>2
    <3> QED  BY <1>3, <3>1, ThreadsApart DEF OwnerSpawn, Goto, mutexes, TypeOK, ControlOK
  <2>4. OwnerMade = i[Owner] /\ OwnerMade' = i[Owner] + 1 /\ Counted = i[Owner] /\ Counted' = i[Owner]
    BY <2>2, <2>3 DEF OwnerMade, Counted
  <2>5. Initialising /\ Initialising' /\ Building /\ Building'
    BY <2>2 DEF Initialising, Building
  <2>6. w \in Nat /\ w \notin 1 .. i[Owner] /\ w >= 1
    BY <2>1, <2>4, <2>5 DEF MadeInOrder, Worker
  <2>7. 1 .. OwnerMade' \subseteq Created'
    <3> SUFFICES ASSUME NEW v \in 1 .. i[Owner] + 1 PROVE v \in Created'
      BY <2>4
    <3>1. v <= w
      BY <1>1, <2>6
    <3>2. CASE v = w
      BY <2>1, <3>2
    <3>3. CASE v < w
      <4>1. v \in Worker
        BY <2>6, <3>3, PoolAssumption DEF Worker
      <4>2. v \in Created
        BY <2>1, <2>6, <3>3, <4>1
      <4> QED  BY <2>1, <4>2
    <3> QED  BY <2>6, <3>1, <3>2, <3>3
  <2>8. MadeInOrder'
    BY <2>2, <2>3, <2>7 DEF MadeInOrder
  <2>9. ASSUME Untouched' PROVE Untouched
    <3>1. w \in 1 .. i[Owner] + 1
      BY <2>1, <2>4, <2>9 DEF Untouched
    <3>2. w = i[Owner] + 1
      BY <1>1, <2>6, <3>1
    <3>3. \A v \in Created : v \in 1 .. i[Owner] + 1 /\ v # w
      BY <2>1, <2>4, <2>9 DEF Untouched
    <3>4. \A v \in Created : v \in 1 .. i[Owner]
      BY <1>1, <3>2, <3>3
    <3> QED  BY <2>4, <2>5, <3>4 DEF Untouched
  <2>10. ASSUME Undisturbed PROVE Undisturbed'
    <3>1. Calm /\ CountsKept /\ RestBlank /\ NoWork /\ (MayGrow => AdminWatches)
      BY <2>10 DEF Undisturbed
    <3>2. \A s \in Slot : worker_thrs'[s].state = worker_thrs[s].state
      BY <2>1 DEF TypeOK, MemoryOK
    <3>3. pos'[Owner] = i[Owner]
      BY <2>1, ThreadsApart DEF TypeOK, MemoryOK
    <3>4. Calm' /\ CountsKept'
      BY <2>2, <2>3, <2>4, <3>1 DEF Calm, CountsKept
    <3>5. RestBlank'
      BY <2>2, <2>3, <3>1, <3>2, <3>3 DEF RestBlank
    <3>6. NoWork'
      BY <2>2, <2>3, <2>5, <3>1, <3>2 DEF NoWork
    <3>7. AdminWatches => AdminWatches'
      BY <2>2, <2>3 DEF AdminWatches
    <3> QED  BY <3>1, <3>4, <3>5, <3>6, <3>7 DEF Undisturbed
  <2> QED  BY <2>8, <2>9, <2>10
<1>4. ASSUME ~Building' PROVE MadeInOrder' /\ (Untouched' => Untouched /\ (Undisturbed => Undisturbed'))
  BY <1>4 DEF MadeInOrder, Untouched
<1>5. ASSUME pc[Owner] = "mark" \/ pc[Owner] = "count" \/ pc[Owner] = "spawn",
             NEW label \in OwnerLabel, Goto(Owner, label) \/ (pc' = pc /\ label = pc[Owner])
      PROVE  /\ Created' = Created /\ pc'[Owner] = label /\ pc'[Admin] = pc[Admin]
             /\ \A t \in Worker \cup Producer : pc'[t] = pc[t]
             /\ Initialising /\ Building /\ (Telling' <=> Telling)
  <2>1. pc'[Owner] = label /\ \A t \in Thread \ {Owner} : pc'[t] = pc[t]
    BY <1>5, ThreadsApart DEF Goto, TypeOK, ControlOK
  <2>2. pc'[Admin] = pc[Admin] /\ \A t \in Worker \cup Producer : pc'[t] = pc[t]
    BY <2>1, ThreadsApart
  <2> QED  BY <1>5, <2>1, <2>2 DEF Created, Initialising, Building, Telling
<1>6. CASE MarkCreated(Owner)
  <2>1. /\ pc[Owner] = "mark" /\ Goto(Owner, "count")
        /\ worker_thrs' = [worker_thrs EXCEPT ![pos[Owner]].state = "FREE"]
        /\ loaded' = [loaded EXCEPT ![Owner].live = live_thrs]
        /\ UNCHANGED <<live_thrs, exit_thrs, shutdown, task_queue, working_mut, sleeping, my_pos, busy,
                       i, pos>>
    BY <1>6 DEF MarkCreated, mutexes
  <2>2. /\ Created' = Created /\ pc'[Owner] = "count" /\ pc'[Admin] = pc[Admin]
        /\ \A t \in Worker \cup Producer : pc'[t] = pc[t]
        /\ Initialising /\ Building
    BY <1>5, <2>1 DEF OwnerLabel
  <2>3. OwnerMade' = OwnerMade /\ Counted' = Counted
    BY <2>1, <2>2 DEF OwnerMade, Counted
  <2>4. MadeInOrder' /\ (Untouched' => Untouched)
    BY <2>1, <2>2, <2>3 DEF MadeInOrder, Untouched
  <2>5. loaded'[Owner].live = live_thrs /\ loaded'[Admin] = loaded[Admin]
    BY <2>1, ThreadsApart DEF TypeOK, MemoryOK
  <2>6. ASSUME Undisturbed PROVE Undisturbed'
    <3>1. Calm /\ CountsKept /\ RestBlank /\ NoWork /\ (MayGrow => AdminWatches)
      BY <2>6 DEF Undisturbed
    <3>2. Calm' /\ CountsKept'
      BY <2>1, <2>2, <2>3, <2>5, <3>1 DEF Calm, CountsKept
    <3>3. /\ pos[Owner] < MinThrs /\ pos[Owner] \in Nat
          /\ \A s \in Slot : worker_thrs'[s].state = IF s = pos[Owner] THEN "FREE" ELSE worker_thrs[s].state
      <4>1. pos[Owner] < MinThrs /\ pos[Owner] \in Slot
        BY <2>1, <3>1 DEF RestBlank, TypeOK, MemoryOK
      <4> QED  BY <2>1, <4>1, SlotsThere DEF TypeOK, MemoryOK
    <3>4. RestBlank'
      BY <1>1, <2>1, <2>2, <3>1, <3>3, SlotsThere DEF RestBlank
    <3>5. NoWork'
      BY <2>1, <2>2, <3>1, <3>3 DEF NoWork
    <3>6. AdminWatches => AdminWatches'
      BY <2>1, <2>2 DEF AdminWatches
    <3> QED  BY <3>1, <3>2, <3>4, <3>5, <3>6 DEF Undisturbed
  <2> QED  BY <2>4, <2>6
<1>7. CASE CountCreated(Owner)
  <2>1. /\ pc[Owner] = "count" /\ Goto(Owner, "spawn")
        /\ live_thrs' = loaded[Owner].live + 1
        /\ i' = [i EXCEPT ![Owner] = @ + 1]
        /\ loaded' = [loaded EXCEPT ![Owner] = NothingLoaded]
        /\ UNCHANGED <<worker_thrs, exit_thrs, shutdown, task_queue, working_mut, sleeping, my_pos, busy>>
    BY <1>7 DEF CountCreated, mutexes
  <2>2. /\ Created' = Created /\ pc'[Owner] = "spawn" /\ pc'[Admin] = pc[Admin]
        /\ \A t \in Worker \cup Producer : pc'[t] = pc[t]
        /\ Initialising /\ Building
    BY <1>5, <2>1 DEF OwnerLabel
  <2>3. /\ i'[Owner] = i[Owner] + 1 /\ i'[Admin] = i[Admin] /\ i[Owner] < MinThrs
        /\ loaded'[Admin] = loaded[Admin]
    BY <2>1, <2>2, ThreadsApart DEF TypeOK, MemoryOK, MadeInOrder
  <2>4. OwnerMade' = OwnerMade /\ Counted = i[Owner] /\ Counted' = i[Owner] + 1
    BY <1>1, <2>1, <2>2, <2>3 DEF OwnerMade, Counted
  <2>5. MadeInOrder' /\ (Untouched' => Untouched)
    BY <2>2, <2>4 DEF MadeInOrder, Untouched
  <2>6. ASSUME Undisturbed PROVE Undisturbed'
    <3>1. Calm /\ CountsKept /\ RestBlank /\ NoWork /\ (MayGrow => AdminWatches)
      BY <2>6 DEF Undisturbed
    <3>2. Calm' /\ CountsKept'
      BY <2>1, <2>2, <2>4, <3>1 DEF Calm, CountsKept
    <3>3. RestBlank' /\ NoWork'
      BY <2>1, <2>2, <3>1 DEF RestBlank, NoWork
    <3>4. AdminWatches => AdminWatches'
      BY <2>1, <2>2, <2>3 DEF AdminWatches
    <3> QED  BY <3>1, <3>2, <3>3, <3>4 DEF Undisturbed
  <2> QED  BY <2>5, <2>6
<1>8. CASE OwnerBlank
  <2>1. /\ pc[Owner] = "spawn" /\ i[Owner] >= MinThrs
        /\ UNCHANGED <<live_thrs, exit_thrs, shutdown, task_queue, working_mut, sleeping, my_pos, loaded,
                       busy, pos>>
    BY <1>8 DEF OwnerBlank, mutexes
  <2>2. \/ /\ worker_thrs' = [worker_thrs EXCEPT ![i[Owner]].state = "BLANK"]
           /\ i' = [i EXCEPT ![Owner] = @ + 1] /\ pc' = pc
        \/ i' = [i EXCEPT ![Owner] = 0] /\ Goto(Owner, "open") /\ worker_thrs' = worker_thrs
    BY <1>8 DEF OwnerBlank
  <2>3. PICK label \in {"spawn", "open"} : Goto(Owner, label) \/ (pc' = pc /\ label = pc[Owner])
    BY <2>1, <2>2
  <2>4. /\ Created' = Created /\ pc'[Owner] = label /\ pc'[Admin] = pc[Admin]
        /\ \A t \in Worker \cup Producer : pc'[t] = pc[t]
        /\ Initialising /\ Building /\ (Telling' <=> Telling)
    BY <1>5, <2>1, <2>3 DEF OwnerLabel
  <2>5. i'[Admin] = i[Admin] /\ (label = "spawn" => i'[Owner] = i[Owner] + 1)
    BY <2>1, <2>2, <2>4, ThreadsApart DEF TypeOK, MemoryOK, Goto, ControlOK
  <2>6. OwnerMade = MinThrs /\ OwnerMade' = MinThrs /\ Counted = MinThrs /\ Counted' = MinThrs
    BY <1>1, <2>1, <2>4, <2>5 DEF OwnerMade, Counted
  <2>7. MadeInOrder' /\ (Untouched' => Untouched)
    BY <2>4, <2>6 DEF MadeInOrder, Untouched
  <2>8. ASSUME Undisturbed PROVE Undisturbed'
    <3>1. Calm /\ CountsKept /\ RestBlank /\ NoWork /\ (MayGrow => AdminWatches)
      BY <2>8 DEF Undisturbed
    <3>2. Calm' /\ CountsKept'
      BY <2>1, <2>4, <2>6, <3>1 DEF Calm, CountsKept
    <3>3. \A s \in Slot : worker_thrs'[s].state \in {"BLANK", worker_thrs[s].state}
      BY <2>2 DEF TypeOK, MemoryOK
    <3>4. RestBlank'
      BY <2>1, <2>4, <3>1, <3>3 DEF RestBlank
    <3>5. NoWork'
      <4>1. \A s \in Slot : worker_thrs'[s].state # "BUSY"
        BY <2>4, <3>1, <3>3 DEF NoWork
      <4> QED  BY <2>1, <2>4, <3>1, <4>1 DEF NoWork
    <3>6. ASSUME AdminWatches PROVE AdminWatches'
      <4>1. busy = 0 /\ \A s \in Slot : worker_thrs[s].state # "BUSY"
        BY <2>4, <3>1 DEF NoWork
      <4>2. label = "open" => BusyCount' = 0
        <5>1. ASSUME label = "open" PROVE worker_thrs' = worker_thrs
          BY <2>1, <2>2, <2>4, <5>1
        <5>2. BusyCount = 0
          BY <4>1, NoneBusy
        <5> QED  BY <5>1, <5>2 DEF BusyCount
      <4>3. MinThrs # 0
        BY <1>1
      <4> QED  BY <2>1, <2>4, <2>5, <3>6, <4>1, <4>2, <4>3 DEF AdminWatches
    <3> QED  BY <3>1, <3>2, <3>4, <3>5, <3>6 DEF Undisturbed
  <2> QED  BY <2>7, <2>8
<1>9. CASE OwnerSpawn /\ ~Create(Owner, i[Owner])
  <2>1. pc'[Owner] = "join"
    BY <1>9, ThreadsApart DEF OwnerSpawn, Goto, TypeOK, ControlOK
  <2> QED  BY <1>4, <2>1 DEF Building, Initialising
<1>10. CASE Announce \/ JoinAdmin \/ Reap \/ Shutdown \/ Destroy
  <2>1. pc'[Owner] \in {"closed", "reap", "freed", "announce", "join"}
    BY <1>10, ThreadsApart DEF Announce, JoinAdmin, Reap, Shutdown, Destroy, Goto, TypeOK, ControlOK
  <2> QED  BY <1>4, <2>1 DEF Building, Initialising
<1> QED  BY <1>2, <1>3, <1>6, <1>7, <1>8, <1>9, <1>10 DEF OwnerWork

LEMMA FirstThreadsStep == TypeOK /\ FirstThreads /\ [Next]_vars => FirstThreads'
<1> SUFFICES ASSUME TypeOK, MadeInOrder, Untouched => Undisturbed, [Next]_vars
             PROVE  MadeInOrder' /\ (Untouched' => Undisturbed')
  BY DEF FirstThreads
<1>1. ASSUME pc'[Owner] = pc[Owner], i'[Owner] = i[Owner], Created' = Created
      PROVE  MadeInOrder' /\ (Untouched' <=> Untouched) /\ (Untouched => Building)
  BY <1>1, OwnerLeft DEF Untouched
<1>2. ASSUME NEW w \in Worker, WorkerNext(w) PROVE MadeInOrder' /\ (Untouched' => Undisturbed')
  <2>1. Created' = Created /\ pc'[Owner] = pc[Owner] /\ i'[Owner] = i[Owner]
    BY <1>2, WorkerPlaces, OthersCreateNone
  <2> QED  BY <1>1, <1>2, <2>1, WorkerFirst
<1>3. ASSUME NEW p \in Producer, ProducerNext(p) PROVE MadeInOrder' /\ (Untouched' => Undisturbed')
  <2>1. PICK label \in ProducerLabel : Goto(p, label) /\ i' = i
    BY <1>3 DEF ProducerNext, AddTask, AddTaskLocked, ProducerLabel, locals
  <2>2. Created' = Created /\ pc'[Owner] = pc[Owner] /\ i'[Owner] = i[Owner]
    BY <2>1, OthersCreateNone, ThreadsApart
  <2> QED  BY <1>1, <1>3, <2>2, ProducerFirst
<1>4. ASSUME NEW t \in sleeping, SpuriousWakeup(t) PROVE MadeInOrder' /\ (Untouched' => Undisturbed')
  <2>1. Created' = Created /\ pc'[Owner] = pc[Owner] /\ i'[Owner] = i[Owner]
    BY <1>4 DEF SpuriousWakeup, Created, locals
  <2> QED  BY <1>1, <1>4, <2>1, SpuriousFirst
<1>5. CASE AdminNext
  <2>1. CASE \E s : Create(Admin, s) /\ AdminSpawn
    <3>1. PICK w \in Worker \ Created : Created' = Created \cup {w}
      BY <2>1, CreatesFirst
    <3>2. pc'[Owner] = pc[Owner]
      BY <2>1, CreateLabels, ThreadsApart
    <3>3. i'[Owner] = i[Owner]
      BY <2>1, ThreadsApart DEF AdminSpawn, TypeOK, MemoryOK
    <3>4. MadeInOrder' /\ OwnerMade' = OwnerMade /\ (Building' <=> Building)
      BY <3>1, <3>2, <3>3, OwnerLeft
    <3>5. ~Untouched'
      BY <3>1, <3>4 DEF Untouched, MadeInOrder
    <3> QED  BY <3>4, <3>5
  <2>2. CASE ~\E s : Create(Admin, s)
    <3>1. PICK label : Goto(Admin, label) \/ pc' = pc
      BY <1>5, <2>2 DEF AdminNext, AdminScan, AdminTestLayoff, AdminLayoff, AdminTestGrow, AdminSpawn,
         MarkCreated, CountCreated, AdminSleep
    <3>2. Created' = Created /\ pc'[Owner] = pc[Owner]
      BY <3>1, ThreadsApart DEF Goto, TypeOK, ControlOK, Created
    <3>3. i' = i \/ \E n : i' = [i EXCEPT ![Admin] = n]
      BY <1>5, <2>2 DEF AdminNext, AdminScan, AdminTestLayoff, AdminLayoff, AdminTestGrow, AdminSpawn,
         MarkCreated, CountCreated, AdminSleep, locals
    <3>4. i'[Owner] = i[Owner]
      BY <3>3, ThreadsApart DEF TypeOK, MemoryOK
    <3> QED  BY <1>1, <1>5, <3>2, <3>4, AdminFirst
  <2>3. ASSUME NEW s, Create(Admin, s) PROVE AdminSpawn
    <3>1. pc'[Admin] = "mark"
      BY <2>3, CreateLabels
    <3> QED
      BY <1>5, <3>1, ThreadsApart DEF AdminNext, AdminScan, AdminTestLayoff, AdminLayoff, AdminTestGrow,
         MarkCreated, CountCreated, AdminSleep, Goto, TypeOK, ControlOK
  <2> QED  BY <2>1, <2>2, <2>3
<1>6. CASE OwnerWork \/ Shutdown \/ Destroy
  BY <1>6, OwnerFirst
<1>7. CASE UNCHANGED vars
  <2>1. UNCHANGED <<worker_thrs, live_thrs, exit_thrs, shutdown, task_queue, working_mut, sleeping, pc,
                    my_pos, loaded, busy, i, pos>>
    BY <1>7 DEF vars, shared, locals, mutexes
  <2>2. /\ MadeInOrder' /\ (Untouched' <=> Untouched) /\ Counted' = Counted
        /\ (Initialising' <=> Initialising)
    BY <1>1, <2>1, OwnerLeft DEF Created
  <2>3. BusyCount' = BusyCount /\ (Telling' <=> Telling)
    BY <2>1 DEF BusyCount, Telling
  <2>4. Calm /\ CountsKept /\ RestBlank /\ NoWork => Calm' /\ CountsKept' /\ RestBlank' /\ NoWork'
    BY <2>1, <2>2 DEF Calm, CountsKept, RestBlank, NoWork
  <2>5. AdminWatches => AdminWatches'
    BY <2>1, <2>3 DEF AdminWatches
  <2> QED  BY <2>2, <2>4, <2>5 DEF Undisturbed
<1> QED  BY <1>2, <1>3, <1>4, <1>5, <1>6, <1>7 DEF Next

\* Until Admin has created or laid off a worker, it does not sleep while every
\* thread is busy, more are allowed and nobody is about to tell it, for any
\* numbers of threads: a worker tells it after its slot is BUSY, and Admin
\* counts and goes to sleep under the one mutex (admin_fun, worker_fun).
THEOREM GrowthIsSeen == Spec => []FirstGrowthNotMissed
<1>1. Init => FirstThreads
  <2> SUFFICES ASSUME Init PROVE FirstThreads
    OBVIOUS
  <2>1. /\ pc[Owner] = "start" /\ pc[Admin] = "none" /\ i[Owner] = 0 /\ i[Admin] = 0
        /\ \A w \in Worker : pc[w] = "none" /\ my_pos[w] = -1
        /\ \A p \in Producer : pc[p] = "idle"
        /\ \A s \in Slot : worker_thrs[s].state = "BLANK"
        /\ sleeping = {} /\ live_thrs = 0 /\ exit_thrs = 0 /\ ~shutdown /\ busy = 0
        /\ task_queue = queue_init
    BY ThreadsApart DEF Init
  <2>2. MinThrs \in Nat \ {0}
    BY PoolAssumption
  <2>3. OwnerMade = 0 /\ Counted = 0
    BY <2>1, <2>2 DEF OwnerMade, Counted
  <2>4. MadeInOrder
    BY <2>1, <2>3 DEF MadeInOrder
  <2>5. queue_empty(task_queue)
    BY <2>1 DEF queue_init, queue_empty
  <2>6. Calm /\ CountsKept /\ NoWork /\ AdminWatches
    BY <2>1, <2>3, <2>5 DEF Calm, CountsKept, NoWork, AdminWatches
  <2>7. RestBlank
    BY <2>1, <2>2 DEF RestBlank
  <2> QED  BY <2>4, <2>6, <2>7 DEF FirstThreads, Undisturbed
<1>2. TypeOK /\ FirstThreads => FirstGrowthNotMissed
  <2> SUFFICES ASSUME TypeOK, FirstThreads, Created = 1 .. MinThrs, GrowthMissed PROVE FALSE
    BY DEF FirstGrowthNotMissed
  <2>1. /\ pc[Owner] = "open" /\ Admin \in sleeping /\ CanCreate
        /\ BusyCount = live_thrs /\ live_thrs < MaxThrs /\ ~Telling
    BY DEF GrowthMissed, Telling
  <2>2. Untouched /\ live_thrs = MinThrs /\ (MayGrow => AdminWatches)
    BY <2>1, OwnerNumbers DEF Untouched, Building, FirstThreads, Undisturbed, CountsKept
  <2>3. MinThrs < MaxCreate
    <3> SUFFICES ASSUME ~(MinThrs < MaxCreate) PROVE FALSE
      OBVIOUS
    <3>1. Worker \subseteq Created
      BY PoolAssumption DEF Worker
    <3> QED  BY <2>1, <3>1 DEF CanCreate, Created
  <2> QED  BY <2>1, <2>2, <2>3 DEF MayGrow, AdminWatches
<1> QED  BY <1>1, <1>2, FirstThreadsStep, TypeCorrect, PTL DEF Spec
=============================================================================
