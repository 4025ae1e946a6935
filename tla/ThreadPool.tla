----------------------------- MODULE ThreadPool -----------------------------
(***************************************************************************)
(* server/pool/pool.c: the thread pool of the multicast server.            *)
(*                                                                         *)
(* Threads.  Owner calls thr_pool_init, thr_pool_shutdown and              *)
(* thr_pool_destroy; producers call thr_pool_add_task; Admin runs          *)
(* admin_fun; each worker runs worker_fun.  Worker w is the w-th thread    *)
(* pthread_create makes: an identity is never reused, because a worker     *)
(* that retires leaves its slot and is never joined.  pthread_create fails *)
(* once MaxCreate workers were made (the thread limit of the process).     *)
(*                                                                         *)
(* Grain.  A step is a stretch of code whose other accesses are to memory  *)
(* that the mutex it holds protects.  queue_mut protects the queue, and    *)
(* nothing protects live_thrs, exit_thrs and the slots' states, which are  *)
(* read under one mutex and written under another or under none: a         *)
(* decrement or increment of one of these is a load step and a store step, *)
(* and each test of one of these is a read of its own.  `shutdown' is read *)
(* by Admin without the mutex it is written under.                         *)
(***************************************************************************)
EXTENDS TaskQueue, Integers, Sequences, FiniteSets

CONSTANTS MinThrs, MaxThrs,     \* min_thrs and max_thrs of thr_pool_init
          MaxCreate,            \* how many workers pthread_create can make
          Owner, Admin,         \* the two threads that exist once
          Producer,             \* the threads that call thr_pool_add_task
          MaxCalls,             \* bound: the calls one producer makes
          MaxSpurious           \* bound: the spurious wake-ups of a behaviour

ASSUME PoolAssumption ==
    /\ MinThrs \in Nat \ {0}
    /\ MaxThrs \in Nat /\ MinThrs <= MaxThrs    \* else thr_pool_init returns -1
    /\ MaxCreate \in Nat /\ MaxCalls \in Nat /\ MaxSpurious \in Nat

Worker == 1 .. MaxCreate
Slot   == 0 .. MaxThrs - 1
Nobody == 0                     \* a tid field calloc cleared, a free mutex
Task   == Producer \X (1 .. MaxCalls)
Thread == Worker \cup Producer \cup {Owner, Admin}

ASSUME ThreadAssumption ==
    /\ Owner # Admin
    /\ {Owner, Admin} \cap (Nat \cup Producer) = {}
    /\ Producer \cap Nat = {}
    /\ NoTask \notin Task

VARIABLES
    worker_thrs,        \* Slot -> the tid and the state of working_thr_t
    live_thrs, exit_thrs, shutdown,
    task_queue,
    queue_mut, working_mut,     \* the thread that holds the mutex, or Nobody
    sleeping,           \* the threads asleep in a pthread_cond_wait
    pc,                 \* where each thread is
    my_pos, task,       \* the locals of each worker
    loaded,             \* what a thread loaded before it stores: counters
    busy, i, pos,       \* locals of admin_fun, and of thr_pool_init's loops
    calls,              \* calls of thr_pool_add_task made by each producer
    accepted, taken,    \* history: tasks entered in the queue, and dequeued
    early,              \* history: Admin grew the pool during thr_pool_init
    retired,            \* history: a worker was laid off
    spurious            \* spurious wake-ups so far

shared  == <<worker_thrs, live_thrs, exit_thrs>>
mutexes == <<queue_mut, working_mut>>
locals  == <<my_pos, task, loaded, busy, i, pos>>
ghosts  == <<accepted, taken, early, retired>>
bounds  == <<calls, spurious>>
vars    == <<shared, shutdown, task_queue, mutexes, sleeping, pc, locals, ghosts, bounds>>

Init ==
    /\ worker_thrs = [s \in Slot |-> [tid |-> Nobody, state |-> "BLANK"]]
    /\ live_thrs = 0 /\ exit_thrs = 0 /\ shutdown = FALSE
    /\ task_queue = queue_init
    /\ queue_mut = Nobody /\ working_mut = Nobody
    /\ sleeping = {}
    /\ pc = [t \in Thread |-> CASE t = Owner -> "start"
                                [] t \in Producer -> "idle"
                                [] OTHER -> "none"]
    /\ my_pos = [w \in Worker |-> -1] /\ task = [w \in Worker |-> NoTask]
    /\ loaded = [t \in Thread \ Producer |-> [exit |-> 0, live |-> 0]]
    /\ busy = 0
    /\ i = [t \in {Owner, Admin} |-> 0] /\ pos = [t \in {Owner, Admin} |-> 0]
    /\ calls = [p \in Producer |-> 0]
    /\ accepted = <<>> /\ taken = <<>> /\ early = FALSE /\ retired = FALSE
    /\ spurious = 0

-----------------------------------------------------------------------------
(* The pthread primitives. *)

Goto(t, label) == pc' = [pc EXCEPT ![t] = label]

\* pthread_cond_signal to a condition that the threads in T wait on.
Signal(T) ==
    IF sleeping \cap T = {} THEN sleeping' = sleeping
    ELSE \E t \in sleeping \cap T : sleeping' = sleeping \ {t}

\* A bug to detect: one waiter woken where all should be.
Broadcast_One(T) == Signal(T)

\* pthread_cond_broadcast.
Broadcast(T) == sleeping' = sleeping \ T

\* Two bugs to detect: the other condition of the queue is signalled.
QueueNotEmpty_Swapped == Producer
QueueNotFull_Swapped == Worker

\* Each condition has one kind of waiter.
QueueNotEmpty == Worker
QueueNotFull  == Producer
WorkingCond   == {Admin}

\* A thread may return from pthread_cond_wait unsignalled.
SpuriousWakeup(t) ==
    /\ spurious < MaxSpurious /\ spurious' = spurious + 1
    /\ sleeping' = sleeping \ {t}
    /\ UNCHANGED <<shared, shutdown, task_queue, mutexes, pc, locals, ghosts, calls>>

-----------------------------------------------------------------------------
(* worker_fun *)

\* The first slot that holds w's tid and is not BLANK, or -1.
FindMe(w) ==
    LET mine == {s \in Slot : /\ worker_thrs[s].state # "BLANK"
                              /\ worker_thrs[s].tid = w}
    IN IF mine = {} THEN -1 ELSE CHOOSE s \in mine : \A r \in mine : s <= r

\* The pool asks for fewer threads and the worker whose slot is s is idle.
MayRetire(s) ==
    /\ s # -1
    /\ worker_thrs[s].state = "FREE"
    /\ exit_thrs > 0

\* A local has its initial value again where its scope ends.
NothingLoaded == [exit |-> 0, live |-> 0]
EndOfTurn(w) ==
    /\ my_pos' = [my_pos EXCEPT ![w] = -1]
    /\ task' = [task EXCEPT ![w] = NoTask]

\* Holding queue_mut, the worker has found it should retire: it loads the
\* counters it is about to decrement.
StartRetiring(w) ==
    /\ loaded' = [loaded EXCEPT ![w] = [exit |-> exit_thrs, live |-> live_thrs]]
    /\ retired' = TRUE
    /\ Goto(w, "retire")

\* Top of the outer loop: shutdown, own position, first retirement test, and
\* the first evaluation of the wait loop's condition.  queue_mut stays held.
WorkerEnter(w) ==
    /\ pc[w] = "enter" /\ queue_mut = Nobody
    /\ \/ /\ shutdown
          /\ Goto(w, "exited")
          /\ UNCHANGED <<queue_mut, my_pos, loaded, retired>>
       \/ /\ ~shutdown
          /\ queue_mut' = w
          /\ my_pos' = [my_pos EXCEPT ![w] = FindMe(w)]
          /\ \/ MayRetire(FindMe(w)) /\ StartRetiring(w)
             \/ /\ ~MayRetire(FindMe(w))
                /\ Goto(w, IF queue_empty(task_queue) THEN "sleep" ELSE "recheck")
                /\ UNCHANGED <<loaded, retired>>
    /\ UNCHANGED <<shared, shutdown, task_queue, working_mut, sleeping, task, busy, i,
                   pos, accepted, taken, early, bounds>>

\* pthread_cond_wait(&queue_not_empty, &queue_mut).
WorkerSleep(w) ==
    /\ pc[w] = "sleep"
    /\ queue_mut' = Nobody
    /\ sleeping' = sleeping \cup {w}
    /\ Goto(w, "waiting")
    /\ UNCHANGED <<shared, shutdown, task_queue, working_mut, locals, ghosts, bounds>>

\* A bug to detect: `if' in place of `while' around the wait.
MustWait_Once(s) == FALSE

\* The condition of the wait loop, on a wake-up.
MustWait(s) == queue_empty(task_queue) /\ ~shutdown /\ ~MayRetire(s)

\* Woken, with queue_mut again: the wait loop's condition once more.
WorkerWake(w) ==
    /\ pc[w] = "waiting" /\ w \notin sleeping /\ queue_mut = Nobody
    /\ queue_mut' = w
    /\ Goto(w, IF MustWait(my_pos[w]) THEN "sleep" ELSE "recheck")
    /\ UNCHANGED <<shared, shutdown, task_queue, working_mut, sleeping, locals, ghosts, bounds>>

\* Past the wait loop: shutdown and retirement tested again, else a task is
\* taken, one producer signalled and the mutex released.
WorkerRecheck(w) ==
    /\ pc[w] = "recheck"
    /\ \/ /\ shutdown
          /\ queue_mut' = Nobody
          /\ EndOfTurn(w)
          /\ Goto(w, "exited")
          /\ UNCHANGED <<task_queue, sleeping, loaded, taken, retired>>
       \/ /\ ~shutdown /\ MayRetire(my_pos[w])
          /\ StartRetiring(w)
          /\ UNCHANGED <<task_queue, queue_mut, sleeping, my_pos, task, taken>>
       \/ /\ ~shutdown /\ ~MayRetire(my_pos[w])
          /\ task' = [task EXCEPT ![w] = queue_deq_data(task_queue, NoTask)]
          /\ taken' = IF queue_empty(task_queue) THEN taken
                      ELSE Append(taken, task'[w])
          /\ task_queue' = queue_deq(task_queue)
          /\ Signal(QueueNotFull)
          /\ queue_mut' = Nobody
          /\ Goto(w, IF my_pos[w] = -1 THEN "run" ELSE "taken")
          /\ UNCHANGED <<my_pos, loaded, retired>>
    /\ UNCHANGED <<shared, shutdown, working_mut, busy, i, pos, accepted, early, bounds>>

\* The two copies of the retirement, from the stores on.
WorkerRetire(w) ==
    /\ pc[w] = "retire"
    /\ exit_thrs' = loaded[w].exit - 1
    /\ live_thrs' = loaded[w].live - 1
    /\ worker_thrs' = [worker_thrs EXCEPT ![my_pos[w]].state = "BLANK"]
    /\ Signal(WorkingCond)
    /\ queue_mut' = Nobody
    /\ loaded' = [loaded EXCEPT ![w] = NothingLoaded]
    /\ EndOfTurn(w)
    /\ Goto(w, "exited")
    /\ UNCHANGED <<shutdown, task_queue, working_mut, busy, i, pos, ghosts, bounds>>

\* The state becomes BUSY with no mutex held...
WorkerMarkBusy(w) ==
    /\ pc[w] = "taken"
    /\ worker_thrs' = [worker_thrs EXCEPT ![my_pos[w]].state = "BUSY"]
    /\ Goto(w, "tell")
    /\ UNCHANGED <<live_thrs, exit_thrs, shutdown, task_queue, mutexes, sleeping, locals,
                   ghosts, bounds>>

\* A bug to detect: the signals sent without the mutex.
MayTell_NoLock == TRUE

\* working_mut can be taken for a signal to Admin.
MayTell == working_mut = Nobody

\* ...and Admin is told under working_mut.
WorkerTellBusy(w) ==
    /\ pc[w] = "tell" /\ MayTell
    /\ Signal(WorkingCond)
    /\ Goto(w, "run")
    /\ UNCHANGED <<shared, shutdown, task_queue, mutexes, locals, ghosts, bounds>>

\* task.job_fun(task.arg) returns.
WorkerRun(w) ==
    /\ pc[w] = "run"
    /\ task' = [task EXCEPT ![w] = NoTask]
    /\ Goto(w, IF my_pos[w] = -1 THEN "enter" ELSE "done")
    /\ UNCHANGED <<shared, shutdown, task_queue, mutexes, sleeping, my_pos, loaded, busy,
                   i, pos, ghosts, bounds>>

WorkerMarkFree(w) ==
    /\ pc[w] = "done" /\ MayTell
    /\ worker_thrs' = [worker_thrs EXCEPT ![my_pos[w]].state = "FREE"]
    /\ Signal(WorkingCond)
    /\ EndOfTurn(w)
    /\ Goto(w, "enter")
    /\ UNCHANGED <<live_thrs, exit_thrs, shutdown, task_queue, mutexes, loaded, busy, i,
                   pos, ghosts, bounds>>

WorkerNext(w) ==
    \/ WorkerEnter(w) \/ WorkerSleep(w) \/ WorkerWake(w) \/ WorkerRecheck(w)
    \/ WorkerRetire(w) \/ WorkerMarkBusy(w) \/ WorkerTellBusy(w)
    \/ WorkerRun(w) \/ WorkerMarkFree(w)

-----------------------------------------------------------------------------
(* Creating a worker: pthread_create, then state = FREE, then live_thrs++,  *)
(* by Owner in thr_pool_init and by Admin in admin_fun, with no mutex.      *)

Created == {w \in Worker : pc[w] # "none"}
CanCreate == Created # Worker

\* Thread t makes a worker in slot s; the worker starts at once.
Create(t, s) ==
    \E w \in Worker \ Created :
        /\ \A v \in Worker \ Created : w <= v
        /\ worker_thrs' = [worker_thrs EXCEPT ![s].tid = w]
        /\ pc' = [pc EXCEPT ![w] = "enter", ![t] = "mark"]
        /\ pos' = [pos EXCEPT ![t] = s]

MarkCreated(t) ==
    /\ pc[t] = "mark"
    /\ worker_thrs' = [worker_thrs EXCEPT ![pos[t]].state = "FREE"]
    /\ loaded' = [loaded EXCEPT ![t].live = live_thrs]
    /\ Goto(t, "count")
    /\ UNCHANGED <<live_thrs, exit_thrs, shutdown, task_queue, mutexes, sleeping, my_pos,
                   task, busy, i, pos, ghosts, bounds>>

CountCreated(t) ==
    /\ pc[t] = "count"
    /\ live_thrs' = loaded[t].live + 1
    /\ loaded' = [loaded EXCEPT ![t] = NothingLoaded]
    /\ i' = [i EXCEPT ![t] = @ + 1] /\ pos' = [pos EXCEPT ![t] = 0]
    /\ Goto(t, "spawn")
    /\ UNCHANGED <<worker_thrs, exit_thrs, shutdown, task_queue, mutexes, sleeping,
                   my_pos, task, busy, ghosts, bounds>>

-----------------------------------------------------------------------------
(* admin_fun *)

BusyCount == Cardinality({s \in Slot : worker_thrs[s].state = "BUSY"})

\* Division of C: towards zero.
Half(n) == IF n >= 0 THEN n \div 2 ELSE -((-n) \div 2)

\* working_mut taken, first or on a wake-up: shutdown, and the busy slots.
\* Under working_mut a slot can only become BUSY, so counting is one read.
AdminScan ==
    /\ \/ pc[Admin] = "lock"
       \/ pc[Admin] = "waiting" /\ Admin \notin sleeping
    /\ working_mut = Nobody
    /\ \/ shutdown /\ Goto(Admin, "exited") /\ UNCHANGED <<working_mut, busy>>
       \/ /\ ~shutdown
          /\ working_mut' = Admin
          /\ busy' = BusyCount
          /\ Goto(Admin, "layoff")
    /\ UNCHANGED <<shared, shutdown, task_queue, queue_mut, sleeping, my_pos, task,
                   loaded, i, pos, ghosts, bounds>>

TooManyIdle == busy * 2 < live_thrs /\ live_thrs > MinThrs

AdminTestLayoff ==
    /\ pc[Admin] = "layoff"
    /\ loaded' = [loaded EXCEPT ![Admin].live = live_thrs]
    /\ Goto(Admin, IF TooManyIdle THEN "trim" ELSE "grow")
    /\ UNCHANGED <<shared, shutdown, task_queue, mutexes, sleeping, my_pos, task, busy, i,
                   pos, ghosts, bounds>>

\* What Admin may take live_thrs to be in the rest of the turn: with no mutex
\* to order the reads, the build may keep the value of the first test in a
\* register or read it again.
LiveRead == {loaded[Admin].live, live_thrs}

ToExit(live) ==
    LET half == Half(live - busy)
    IN IF live - half < MinThrs THEN live - MinThrs ELSE half

AdminLayoff ==
    /\ pc[Admin] = "trim"
    /\ \E live \in LiveRead : exit_thrs' = ToExit(live)
    /\ Goto(Admin, "grow")
    /\ UNCHANGED <<worker_thrs, live_thrs, shutdown, task_queue, mutexes, sleeping,
                   locals, ghosts, bounds>>

AllBusy(live) == busy = live /\ live < MaxThrs

\* To grow, working_mut is released.
AdminTestGrow ==
    /\ pc[Admin] = "grow"
    /\ \E live \in LiveRead :
         \/ AllBusy(live) /\ working_mut' = Nobody /\ Goto(Admin, "spawn")
         \/ ~AllBusy(live) /\ UNCHANGED working_mut /\ Goto(Admin, "sleep")
    /\ loaded' = [loaded EXCEPT ![Admin] = NothingLoaded] /\ busy' = 0
    /\ UNCHANGED <<shared, shutdown, task_queue, queue_mut, sleeping, my_pos, task, i,
                   pos, ghosts, bounds>>

\* A bug to detect: an idle worker's slot is given away.
FreePos_NotBusy == {s \in Slot : worker_thrs[s].state # "BUSY"}

FreePos == {s \in Slot : worker_thrs[s].state = "BLANK"}

Initialising == pc[Owner] \in {"start", "spawn", "mark", "count"}

\* One turn of the growing loop: __get_free_pos, pthread_create.
AdminSpawn ==
    /\ pc[Admin] = "spawn"
    /\ \/ /\ i[Admin] < MinThrs /\ live_thrs < MaxThrs /\ FreePos # {}
          /\ \/ /\ CanCreate
                /\ \E s \in FreePos :
                      (\A r \in FreePos : s <= r) /\ Create(Admin, s)
                /\ early' = (early \/ Initialising)
                /\ UNCHANGED i
             \/ /\ ~CanCreate
                /\ i' = [i EXCEPT ![Admin] = @ + 1]
                /\ UNCHANGED <<worker_thrs, pc, pos, early>>
       \/ /\ ~(i[Admin] < MinThrs /\ live_thrs < MaxThrs /\ FreePos # {})
          /\ i' = [i EXCEPT ![Admin] = 0]
          /\ Goto(Admin, "sleep")
          /\ UNCHANGED <<worker_thrs, pos, early>>
    /\ UNCHANGED <<live_thrs, exit_thrs, shutdown, task_queue, mutexes, sleeping, my_pos,
                   task, loaded, busy, accepted, taken, retired, bounds>>

\* pthread_cond_wait(&working_cond, &working_mut); after growing, working_mut
\* has first to be taken again.
AdminSleep ==
    /\ pc[Admin] = "sleep" /\ working_mut \in {Admin, Nobody}
    /\ working_mut' = Nobody
    /\ sleeping' = sleeping \cup {Admin}
    /\ Goto(Admin, "waiting")
    /\ UNCHANGED <<shared, shutdown, task_queue, queue_mut, locals, ghosts, bounds>>

AdminNext ==
    \/ AdminScan \/ AdminTestLayoff \/ AdminLayoff \/ AdminTestGrow
    \/ AdminSpawn \/ MarkCreated(Admin) \/ CountCreated(Admin) \/ AdminSleep

-----------------------------------------------------------------------------
(* thr_pool_add_task: Producer p.  Callers stop calling once the owner has  *)
(* begun to destroy the pool.                                               *)

InService == pc[Owner] \in {"open", "announce", "closed"}

\* The call, and its first look at shutdown, without the mutex.
AddTask(p) ==
    /\ pc[p] = "idle" /\ InService
    /\ calls[p] < MaxCalls
    /\ calls' = [calls EXCEPT ![p] = @ + 1]
    /\ Goto(p, IF shutdown THEN "idle" ELSE "add")
    /\ UNCHANGED <<shared, shutdown, task_queue, mutexes, sleeping, locals, ghosts,
                   spurious>>

\* With queue_mut, at first or woken: wait while full, give up on shutdown,
\* or enter the task and signal one worker.
AddTaskLocked(p) ==
    /\ \/ pc[p] = "add"
       \/ pc[p] = "waiting" /\ p \notin sleeping
    /\ queue_mut = Nobody
    /\ \/ /\ queue_full(task_queue) /\ ~shutdown
          /\ sleeping' = sleeping \cup {p}
          /\ Goto(p, "waiting")
          /\ UNCHANGED <<task_queue, accepted>>
       \/ /\ shutdown
          /\ Goto(p, "idle")
          /\ UNCHANGED <<task_queue, sleeping, accepted>>
       \/ /\ ~queue_full(task_queue) /\ ~shutdown
          /\ task_queue' = queue_enter(task_queue, <<p, calls[p]>>)
          /\ accepted' = Append(accepted, <<p, calls[p]>>)
          /\ Signal(QueueNotEmpty)
          /\ Goto(p, "idle")
    /\ UNCHANGED <<shared, shutdown, mutexes, locals, taken, early, retired, bounds>>

ProducerNext(p) == AddTask(p) \/ AddTaskLocked(p)

-----------------------------------------------------------------------------
(* thr_pool_init, thr_pool_shutdown, thr_pool_destroy: Owner *)

\* Arguments accepted, the structure cleared, the administrator created.
OwnerStart ==
    /\ pc[Owner] = "start"
    /\ pc' = [pc EXCEPT ![Owner] = "spawn", ![Admin] = "lock"]
    /\ UNCHANGED <<shared, shutdown, task_queue, mutexes, sleeping, locals, ghosts,
                   bounds>>

\* The loop over the first MinThrs slots.  A failure goes to `cleanup': with no
\* mutex, shutdown is set and two broadcasts sent, and the pool is destroyed
\* (thr_pool_shutdown returns at once, as shutdown is set).
OwnerSpawn ==
    /\ pc[Owner] = "spawn" /\ i[Owner] < MinThrs
    /\ \/ CanCreate /\ Create(Owner, i[Owner])
          /\ UNCHANGED <<shutdown, sleeping, i>>
       \/ /\ ~CanCreate
          /\ shutdown' = TRUE
          /\ Broadcast(QueueNotEmpty \cup WorkingCond)
          /\ i' = [i EXCEPT ![Owner] = 0]
          /\ Goto(Owner, "join")
          /\ UNCHANGED <<worker_thrs, pos>>
    /\ UNCHANGED <<live_thrs, exit_thrs, task_queue, mutexes, my_pos, task, loaded, busy,
                   ghosts, bounds>>

\* The other slots are marked BLANK, then the pool is handed out.
OwnerBlank ==
    /\ pc[Owner] = "spawn" /\ i[Owner] >= MinThrs
    /\ \/ /\ i[Owner] < MaxThrs
          /\ worker_thrs' = [worker_thrs EXCEPT ![i[Owner]].state = "BLANK"]
          /\ i' = [i EXCEPT ![Owner] = @ + 1]
          /\ UNCHANGED pc
       \/ /\ i[Owner] = MaxThrs
          /\ i' = [i EXCEPT ![Owner] = 0]
          /\ Goto(Owner, "open")
          /\ UNCHANGED worker_thrs
    /\ UNCHANGED <<live_thrs, exit_thrs, shutdown, task_queue, mutexes, sleeping, my_pos,
                   task, loaded, busy, pos, ghosts, bounds>>

\* thr_pool_shutdown, by itself or as the first call of thr_pool_destroy.
Shutdown ==
    /\ pc[Owner] = "open" /\ queue_mut = Nobody
    /\ shutdown' = TRUE
    /\ Broadcast(QueueNotEmpty \cup QueueNotFull)
    /\ Goto(Owner, "announce")
    /\ UNCHANGED <<shared, task_queue, mutexes, locals, ghosts, bounds>>

\* Its last broadcast, to Admin, after queue_mut is released.
Announce ==
    /\ pc[Owner] = "announce"
    /\ Broadcast(WorkingCond)
    /\ Goto(Owner, "closed")
    /\ UNCHANGED <<shared, shutdown, task_queue, mutexes, locals, ghosts, bounds>>

\* thr_pool_destroy of a pool no caller is inside any more.
Destroy ==
    /\ pc[Owner] = "closed"
    /\ \A p \in Producer : pc[p] = "idle"
    /\ Goto(Owner, "join")
    /\ UNCHANGED <<shared, shutdown, task_queue, mutexes, sleeping, locals, ghosts,
                   bounds>>

JoinAdmin ==
    /\ pc[Owner] = "join" /\ pc[Admin] = "exited"
    /\ Goto(Owner, "reap")
    /\ UNCHANGED <<shared, shutdown, task_queue, mutexes, sleeping, locals, ghosts,
                   bounds>>

\* A bug to detect: only idle workers are waited for.
JoinReturns_FreeOnly(s) ==
    worker_thrs[s].state = "FREE" => pc[worker_thrs[s].tid] = "exited"

\* A BLANK slot is passed over, any other is joined.
JoinReturns(s) ==
    worker_thrs[s].state # "BLANK" => pc[worker_thrs[s].tid] = "exited"

\* Each slot is joined in turn; then all is freed.
Reap ==
    /\ pc[Owner] = "reap"
    /\ \/ /\ i[Owner] < MaxThrs
          /\ JoinReturns(i[Owner])
          /\ i' = [i EXCEPT ![Owner] = @ + 1]
          /\ UNCHANGED pc
       \/ i[Owner] = MaxThrs /\ Goto(Owner, "freed") /\ UNCHANGED i
    /\ UNCHANGED <<shared, shutdown, task_queue, mutexes, sleeping, my_pos, task, loaded,
                   busy, pos, ghosts, bounds>>

\* What Owner must finish once begun, and what it may do.
OwnerWork ==
    \/ OwnerStart \/ OwnerSpawn \/ MarkCreated(Owner) \/ CountCreated(Owner)
    \/ OwnerBlank \/ Announce \/ JoinAdmin \/ Reap

-----------------------------------------------------------------------------
Next ==
    \/ OwnerWork \/ Shutdown \/ Destroy
    \/ AdminNext
    \/ \E w \in Worker : WorkerNext(w)
    \/ \E p \in Producer : ProducerNext(p)
    \/ \E t \in sleeping : SpuriousWakeup(t)

Spec == Init /\ [][Next]_vars

\* What goes on without anybody calling the pool.
Work ==
    \/ OwnerWork \/ AdminNext
    \/ \E w \in Worker : WorkerNext(w)
    \/ \E p \in Producer : AddTaskLocked(p)

\* While a thread can run, some thread does, and jobs return: nobody has to
\* call anything.  Less than fairness to each thread, and enough here, since
\* with the calls and the spurious wake-ups bounded no thread runs for ever.
Fairness == WF_vars(Work)

FairSpec == Spec /\ Fairness

-----------------------------------------------------------------------------
(* Invariants *)

OwnerLabel    == {"start", "spawn", "mark", "count", "open", "announce",
                  "closed", "join", "reap", "freed"}
AdminLabel    == {"none", "lock", "layoff", "trim", "grow", "spawn", "mark",
                  "count", "sleep", "waiting", "exited"}
WorkerLabel   == {"none", "enter", "sleep", "waiting", "recheck", "retire",
                  "taken", "tell", "run", "done", "exited"}
ProducerLabel == {"idle", "add", "waiting"}

\* Every variable has its type; a producer inside a call has begun one.
ControlOK ==
    /\ pc \in [Thread -> OwnerLabel \cup AdminLabel \cup WorkerLabel
                           \cup ProducerLabel]
    /\ pc[Owner] \in OwnerLabel /\ pc[Admin] \in AdminLabel
    /\ \A w \in Worker : pc[w] \in WorkerLabel
    /\ \A p \in Producer : pc[p] \in ProducerLabel

MemoryOK ==
    /\ worker_thrs \in [Slot -> [tid : Worker \cup {Nobody},
                                 state : {"BLANK", "FREE", "BUSY"}]]
    /\ live_thrs \in Int /\ exit_thrs \in Int /\ shutdown \in BOOLEAN
    /\ task_queue \in [arr : [Cell -> Task \cup {NoTask}],
                       front : Cell, tail : Cell]
    /\ queue_mut \in Worker \cup {Nobody} /\ working_mut \in {Admin, Nobody}
    /\ sleeping \subseteq Worker \cup Producer \cup {Admin}
    /\ my_pos \in [Worker -> Slot \cup {-1}]
    /\ task \in [Worker -> Task \cup {NoTask}]
    /\ loaded \in [Thread \ Producer -> [exit : Int, live : Int]]
    /\ busy \in Nat /\ i \in [{Owner, Admin} -> Nat] /\ pos \in [{Owner, Admin} -> Slot]
    /\ calls \in [Producer -> 0 .. MaxCalls] /\ spurious \in 0 .. MaxSpurious
    /\ accepted \in Seq(Task) /\ taken \in Seq(Task \cup {NoTask})
    /\ early \in BOOLEAN /\ retired \in BOOLEAN

CallsOK == \A p \in Producer : pc[p] # "idle" => calls[p] > 0

TypeOK == ControlOK /\ MemoryOK /\ CallsOK

\* Tasks leave the queue in the order thr_pool_add_task entered them, each
\* once and none lost: what was accepted is what was taken and then what the
\* array still holds between front and tail (queue.c).
TaskOrder == accepted = taken \o QueueContents(task_queue)

Running == {w \in Worker : pc[w] \notin {"none", "exited"}}

\* Unless Admin grew the pool while thr_pool_init was filling it, every worker
\* thread has a slot of its own, with its tid, which thr_pool_destroy will
\* see.  So there are at most max_thrs threads, and no two share a state.
OwnSlot ==
    ~early => \A w \in Running : \E s \in Slot :
        /\ worker_thrs[s].tid = w
        /\ \/ worker_thrs[s].state # "BLANK"
           \/ \E t \in {Owner, Admin} : pc[t] = "mark" /\ pos[t] = s

\* With the same proviso, thr_pool_destroy frees the pool only after the last
\* worker has gone: no thread uses the structure after free.
JoinedBeforeFree == pc[Owner] = "freed" /\ ~early => Running = {}

\* A worker never calls an unset job: it dequeues from a queue that holds a
\* task, as long as the slots are sound and no worker has retired (worker_fun
\* does not look at what queue_deq returns).
NoGarbageJob ==
    ~early /\ ~retired => \A w \in Worker : pc[w] = "run" => task[w] # NoTask

\* Threads of T on their way to look at the queue.
Coming(T) == {t \in T : \/ pc[t] \in {"enter", "recheck", "add"}
                        \/ pc[t] = "waiting" /\ t \notin sleeping}

\* No wake-up for work is lost: while a worker sleeps, at least as many others
\* are on their way as there are tasks in the queue.  A worker that is
\* signalled and retires instead breaks it: the signal goes with it.
WorkerWakeups ==
    ~shutdown /\ ~retired /\ sleeping \cap Worker # {}
      => QueueLength(task_queue) <= Cardinality(Coming(Worker))

\* No wake-up for room is lost: while a caller of thr_pool_add_task sleeps, at
\* least as many others are on their way as the queue has free places.
ProducerWakeups ==
    ~shutdown /\ sleeping \cap Producer # {}
      => QueueSize - 1 - QueueLength(task_queue) <= Cardinality(Coming(Producer))

\* Every thread is busy, more are allowed and can be made, the workers have
\* told Admin all they had to tell, and Admin sleeps.
GrowthMissed ==
    /\ pc[Owner] = "open" /\ Admin \in sleeping /\ CanCreate
    /\ BusyCount = live_thrs /\ live_thrs < MaxThrs
    /\ \A w \in Worker : pc[w] # "tell"

\* Until Admin creates or lays off a worker, it never sleeps through the
\* moment when all are busy: a state is BUSY before Admin is signalled, and
\* Admin counts and goes to sleep under the mutex of the signal.
FirstGrowthNotMissed ==
    ~retired /\ Created = 1 .. MinThrs => ~GrowthMissed

-----------------------------------------------------------------------------
(* Liveness, under FairSpec *)

\* Once thr_pool_shutdown has run its locked part, every worker leaves.
ShutdownDrains == pc[Owner] = "announce" ~> Running = {}

\* A call of thr_pool_add_task returns, unless a layoff swallowed a wake-up.
AddTaskReturns ==
    \A p \in Producer : pc[p] # "idle" ~> (pc[p] = "idle" \/ retired)

InSeq(x, s) == \E k \in 1 .. Len(s) : s[k] = x

\* An accepted task is taken by a worker, unless the pool shuts down first or
\* a layoff swallowed the wake-up meant for it.
TaskTaken ==
    \A x \in Task : InSeq(x, accepted)
                      ~> (InSeq(x, taken) \/ shutdown \/ retired)

-----------------------------------------------------------------------------
(* What a comment of the source promises and the code does not keep. *)

\* pool.h: thr_pool_destroy destroys the pool; that is, it returns.
DestroyReturns == pc[Owner] = "join" ~> pc[Owner] = "freed"

-----------------------------------------------------------------------------
(* The pool implements the dispatcher: the pending tasks are what the array *)
(* holds, and a task starts when a worker has dequeued it.                  *)

Abstract == INSTANCE Dispatcher WITH
    Job <- Task, Capacity <- QueueSize - 1,
    pending <- QueueContents(task_queue), started <- taken, closed <- shutdown

\* Every step of every thread is a Submit, a Start, a Close or nothing to the
\* callers, whatever the layoffs, growths and failures inside.
ImplementsDispatcher == Abstract!DSpec

=============================================================================
