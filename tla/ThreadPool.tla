------------------------------ MODULE ThreadPool ------------------------------
(***************************************************************************)
(* The pthread pool of libpq, src/interfaces/libpq/threadpool.c: a ring    *)
(* buffer of tasks, workers blocked on one condition variable, immediate   *)
(* and graceful shutdown, and the release of the pool after its workers    *)
(* have been joined.                                                       *)
(*                                                                         *)
(* What a thread does between pthread_mutex_lock and pthread_mutex_unlock  *)
(* (or pthread_cond_wait) is one step: no other thread can look at the     *)
(* pool meanwhile.  lockLeaked tells that a thread went away with the      *)
(* mutex held, after which no step that locks it can happen.               *)
(***************************************************************************)
EXTENDS Integers, Sequences, FiniteSets

CONSTANTS ThreadCount, \* thread_count passed to threadpool_create
          QueueSize,   \* queue_size passed to threadpool_create
          Tasks,       \* what the application submits, each until accepted
          Destroyers,  \* threads that call threadpool_destroy, once each
          NoTask

ASSUME PoolAssumption == /\ ThreadCount \in Nat \ {0}
                         /\ QueueSize \in Nat \ {0}
                         /\ NoTask \notin Tasks

Workers == 1 .. ThreadCount
Slots == 0 .. QueueSize - 1

VARIABLES
  pool,         \* "absent", "creating", "counting", "open", "unwinding", "freed",
                \* or "leaked": returned to nobody and not released
  thread_count, \* threads created and counted
  started,      \* threads the pool believes alive
  head, tail, count, queue, \* the ring buffer
  shutdown,     \* "none", "immediate" or "graceful"
  pc,           \* per worker: "unborn", "lock", "wait", "run", "exited"
  task,         \* per worker: its local copy of the task it runs
  destroyer,    \* per destroyer: "idle", "join" or "returned"
  lockLeaked,   \* the mutex is held by a thread that returned
  result,       \* per task: the last answer of threadpool_add
  begun,        \* history: tasks taken from the queue, in order
  finished      \* history: tasks whose function returned

ring == <<head, tail, count, queue>>
owner == <<pool, thread_count>>
history == <<begun, finished>>
vars == <<owner, started, ring, shutdown, pc, task, destroyer, lockLeaked,
          result, history>>

Init == /\ pool = "absent"
        /\ thread_count = 0
        /\ started = 0
        /\ head = 0 /\ tail = 0 /\ count = 0
        /\ queue = [s \in Slots |-> NoTask]
        /\ shutdown = "none"
        /\ pc = [w \in Workers |-> "unborn"]
        /\ task = [w \in Workers |-> NoTask]
        /\ destroyer = [d \in Destroyers |-> "idle"]
        /\ lockLeaked = FALSE
        /\ result = [t \in Tasks |-> "none"]
        /\ begun = <<>>
        /\ finished = {}

-------------------------------------------------------------------------------
(* The condition variable. *)

Waiting == {w \in Workers : pc[w] = "wait"}

(* Mutant of Signal: threadpool_add forgets to notify. *)
SignalForgotten == pc' = pc

(* pthread_cond_signal: one waiter, if there is one, competes for the lock. *)
Signal == \/ /\ Waiting = {}
             /\ pc' = pc
          \/ \E w \in Waiting : pc' = [pc EXCEPT ![w] = "lock"]

(* pthread_cond_broadcast: every waiter does. *)
Broadcast == pc' = [w \in Workers |-> IF pc[w] = "wait" THEN "lock" ELSE pc[w]]

-------------------------------------------------------------------------------
(* threadpool_create *)

(* The allocations and the initialisation succeed. *)
Allocate == /\ pool = "absent"
            /\ pool' = "creating"
            /\ UNCHANGED <<thread_count, started, ring, shutdown, pc, task,
                           destroyer, lockLeaked, result, history>>

(* One of them fails: what there is of the pool is released. *)
AllocateFails == /\ pool = "absent"
                 /\ pool' = "freed"
                 /\ UNCHANGED <<thread_count, started, ring, shutdown, pc, task,
                                destroyer, lockLeaked, result, history>>

(* pthread_create succeeds; the thread may run before it is counted. *)
CreateThread == /\ pool = "creating"
                /\ thread_count < ThreadCount
                /\ pc' = [pc EXCEPT ![thread_count + 1] = "lock"]
                /\ pool' = "counting"
                /\ UNCHANGED <<thread_count, started, ring, shutdown, task,
                               destroyer, lockLeaked, result, history>>

CountThread == /\ pool = "counting"
               /\ thread_count' = thread_count + 1
               /\ started' = started + 1
               /\ pool' = IF thread_count + 1 = ThreadCount THEN "open" ELSE "creating"
               /\ UNCHANGED <<ring, shutdown, pc, task, destroyer, lockLeaked,
                              result, history>>

(* pthread_create fails: threadpool_destroy(pool, 0) up to its join. *)
CreateThreadFails == /\ pool = "creating"
                     /\ shutdown' = "immediate"
                     /\ Broadcast
                     /\ pool' = "unwinding"
                     /\ UNCHANGED <<thread_count, started, ring, task, destroyer,
                                    lockLeaked, result, history>>

(* Mutant of Joined: the last thread is not joined. *)
JoinedButOne == \A w \in 1 .. thread_count - 1 : pc[w] = "exited"

Joined == \A w \in 1 .. thread_count : pc[w] = "exited"

(* threadpool_free, after every thread was joined: it refuses to release a *)
(* pool that still counts a thread as started.                             *)
Free == pool' = IF started > 0 THEN "leaked" ELSE "freed"

CreateUnwinds == /\ pool = "unwinding"
                 /\ Joined
                 /\ Free
                 /\ UNCHANGED <<thread_count, started, ring, shutdown, pc, task,
                                destroyer, lockLeaked, result, history>>

-------------------------------------------------------------------------------
(* threadpool_add: full is tested before shutting down. *)

(* The slot after slot i of the ring. *)
Advance(i) == (i + 1) % QueueSize

(* Mutant of IsFull: the bound is off by one. *)
IsOverfull == count = QueueSize + 1

IsFull == count = QueueSize

Add(t) ==
  /\ pool = "open"
  /\ ~lockLeaked
  /\ result[t] # "ok"
  /\ \/ /\ IsFull
        /\ result' = [result EXCEPT ![t] = "queue_full"]
        /\ UNCHANGED <<ring, pc>>
     \/ /\ ~IsFull
        /\ shutdown # "none"
        /\ result' = [result EXCEPT ![t] = "shutdown"]
        /\ UNCHANGED <<ring, pc>>
     \/ /\ ~IsFull
        /\ shutdown = "none"
        /\ queue' = [queue EXCEPT ![tail] = t]
        /\ tail' = Advance(tail)
        /\ count' = count + 1
        /\ head' = head
        /\ Signal
        /\ result' = [result EXCEPT ![t] = "ok"]
  /\ UNCHANGED <<owner, started, shutdown, task, destroyer, lockLeaked, history>>

-------------------------------------------------------------------------------
(* threadpool_destroy *)

(* The first call: mark, wake everybody, unlock and go on to join. *)
Destroy(d) == /\ pool = "open"
              /\ ~lockLeaked
              /\ destroyer[d] = "idle"
              /\ shutdown = "none"
              /\ shutdown' \in {"immediate", "graceful"}
              /\ Broadcast
              /\ destroyer' = [destroyer EXCEPT ![d] = "join"]
              /\ UNCHANGED <<owner, started, ring, task, lockLeaked, result, history>>

(* A later call finds shutdown set and leaves the loop with the lock held. *)
DestroyAgain(d) == /\ pool = "open"
                   /\ ~lockLeaked
                   /\ destroyer[d] = "idle"
                   /\ shutdown # "none"
                   /\ lockLeaked' = TRUE
                   /\ destroyer' = [destroyer EXCEPT ![d] = "returned"]
                   /\ UNCHANGED <<owner, started, ring, shutdown, pc, task,
                                  result, history>>

(* Every thread is joined and the pool released; threadpool_free locks the *)
(* mutex once more "just in case" (it cannot return while that is leaked). *)
DestroyReturns(d) == /\ destroyer[d] = "join"
                     /\ Joined
                     /\ started > 0 \/ ~lockLeaked
                     /\ Free
                     /\ destroyer' = [destroyer EXCEPT ![d] = "returned"]
                     /\ UNCHANGED <<thread_count, started, ring, shutdown, pc,
                                    task, lockLeaked, result, history>>

-------------------------------------------------------------------------------
(* threadpool_thread *)

MustWait == count = 0 /\ shutdown = "none"

(* Mutant of MustExit: a graceful shutdown does not wait for the queue. *)
MustExitAtOnce == shutdown # "none"

MustExit == shutdown = "immediate" \/ (shutdown = "graceful" /\ count = 0)

WorkerWait(w) == /\ pc[w] = "lock"
                 /\ ~lockLeaked
                 /\ MustWait
                 /\ pc' = [pc EXCEPT ![w] = "wait"]
                 /\ UNCHANGED <<owner, started, ring, shutdown, task, destroyer,
                                lockLeaked, result, history>>

SpuriousWakeup(w) == /\ pc[w] = "wait"
                     /\ pc' = [pc EXCEPT ![w] = "lock"]
                     /\ UNCHANGED <<owner, started, ring, shutdown, task,
                                    destroyer, lockLeaked, result, history>>

WorkerExit(w) == /\ pc[w] = "lock"
                 /\ ~lockLeaked
                 /\ MustExit
                 /\ started' = started - 1
                 /\ pc' = [pc EXCEPT ![w] = "exited"]
                 /\ UNCHANGED <<owner, ring, shutdown, task, destroyer,
                                lockLeaked, result, history>>

WorkerTake(w) == /\ pc[w] = "lock"
                 /\ ~lockLeaked
                 /\ ~MustWait
                 /\ ~MustExit
                 /\ task' = [task EXCEPT ![w] = queue[head]]
                 /\ head' = Advance(head)
                 /\ count' = count - 1
                 /\ begun' = Append(begun, queue[head])
                 /\ pc' = [pc EXCEPT ![w] = "run"]
                 /\ UNCHANGED <<owner, started, tail, queue, shutdown, destroyer,
                                lockLeaked, result, finished>>

WorkerRun(w) == /\ pc[w] = "run"
                /\ finished' = finished \cup {task[w]}
                /\ pc' = [pc EXCEPT ![w] = "lock"]
                /\ UNCHANGED <<owner, started, ring, shutdown, task, destroyer,
                               lockLeaked, result, begun>>

-------------------------------------------------------------------------------

(* Nothing is left to do with a pool that was released. *)
Released == /\ pool = "freed"
            /\ UNCHANGED vars

Create == Allocate \/ AllocateFails \/ CreateThread \/ CountThread \/ CreateThreadFails
          \/ CreateUnwinds

Worker(w) == WorkerWait(w) \/ WorkerExit(w) \/ WorkerTake(w) \/ WorkerRun(w)

Next == \/ Create
        \/ \E t \in Tasks : Add(t)
        \/ \E d \in Destroyers : Destroy(d) \/ DestroyAgain(d) \/ DestroyReturns(d)
        \/ \E w \in Workers : Worker(w) \/ SpuriousWakeup(w)
        \/ Released

Spec == Init /\ [][Next]_vars

(* Threads that can run do run: a worker that can get the lock gets it, a  *)
(* task's function returns, and create and destroy go on once they can.    *)
Fairness == /\ WF_vars(Create)
            /\ \A w \in Workers : WF_vars(Worker(w))
            /\ \A d \in Destroyers : WF_vars(DestroyReturns(d))

FairSpec == Spec /\ Fairness

-------------------------------------------------------------------------------
(* Properties *)

(* The fields of threadpool_t keep their ranges: head and tail stay inside *)
(* the ring, count between empty and full, started within the threads.     *)
TypeOK == /\ pool \in {"absent", "creating", "counting", "open", "unwinding",
                       "freed", "leaked"}
          /\ thread_count \in 0 .. ThreadCount
          /\ started \in 0 .. ThreadCount
          /\ head \in Slots /\ tail \in Slots
          /\ count \in 0 .. QueueSize
          /\ queue \in [Slots -> Tasks \cup {NoTask}]
          /\ shutdown \in {"none", "immediate", "graceful"}
          /\ pc \in [Workers -> {"unborn", "lock", "wait", "run", "exited"}]
          /\ task \in [Workers -> Tasks \cup {NoTask}]
          /\ destroyer \in [Destroyers -> {"idle", "join", "returned"}]
          /\ lockLeaked \in BOOLEAN
          /\ result \in [Tasks -> {"none", "ok", "queue_full", "shutdown"}]
          /\ begun \in Seq(Tasks)
          /\ finished \in SUBSET Tasks

(* The queue as threadpool_thread will see it: from head, count slots on. *)
Pending == [i \in 1 .. count |-> queue[(head + i - 1) % QueueSize]]

(* TaskPool's state, read off the pool.                                    *)
Abstract == INSTANCE TaskPool
              WITH Capacity <- QueueSize,
                   pending <- Pending,
                   mode <- CASE shutdown = "none" -> "open"
                             [] shutdown = "graceful" -> "draining"
                             [] OTHER -> "cancelled"

(* The pool is a bounded FIFO store of tasks that begins every accepted    *)
(* task at most once and in order: threadpool.c implements TaskPool.       *)
ImplementsTaskPool == Abstract!Spec

Contending == {w \in Workers : pc[w] = "lock"}

(* No wakeup is lost: threadpool_add signals once per task, so while any   *)
(* worker sleeps there is, for every queued task, a worker on its way to   *)
(* the lock; and nobody is left sleeping once the pool shuts down.         *)
NoLostWakeup == /\ Waiting # {} => count <= Cardinality(Contending)
                /\ shutdown # "none" => Waiting = {}

(* The pool's memory goes only when no thread can still reach it, and it   *)
(* does go: the count of started threads that threadpool_create keeps      *)
(* without the lock and the workers keep under it is exact by then.        *)
ReleasedWhenQuiet == /\ pool # "leaked"
                     /\ pool = "freed" => \A w \in Workers : pc[w] \in {"unborn", "exited"}

(* threadpool.h: a graceful destroy "processes all pending tasks before    *)
(* shutdown"; every task threadpool_add accepted has run by then.          *)
GracefulDrains == (pool = "freed" /\ shutdown = "graceful")
                     => \A t \in Tasks : result[t] = "ok" => t \in finished

(* An accepted task runs, unless an immediate shutdown discards it or a    *)
(* second call of threadpool_destroy leaves the lock taken.                *)
AcceptedTaskRuns ==
  \A t \in Tasks :
    result[t] = "ok" ~> (t \in finished \/ shutdown = "immediate" \/ lockLeaked)

(* threadpool_destroy, called once, comes to its end: no worker sleeps     *)
(* through the shutdown or fails to leave.                                 *)
DestroyOnceReturns ==
  \A d \in Destroyers :
    destroyer[d] = "join" ~> (destroyer[d] = "returned" \/ lockLeaked)

===============================================================================
