--------------------------- MODULE ThreadPoolProofs ---------------------------
(***************************************************************************)
(* Proofs about ThreadPool, for any number of threads, slots, tasks and    *)
(* callers of threadpool_destroy.                                          *)
(***************************************************************************)
EXTENDS ThreadPool, FiniteSetTheorems, TLAPS

-------------------------------------------------------------------------------
(* Ring arithmetic *)

(* What the ring's indices wrap to. *)
LEMMA ModIs == ASSUME NEW q \in Nat \ {0}, NEW a \in 0 .. 2 * q - 1
               PROVE  a % q = IF a < q THEN a ELSE a - q
OBVIOUS

(* Advancing an index of the ring by one, then by i, or the other way      *)
(* round, is advancing it by i + 1.                                        *)
LEMMA AdvanceAdd ==
  ASSUME NEW q \in Nat \ {0}, NEW h \in 0 .. q - 1, NEW i \in 0 .. q - 1
  PROVE  /\ (((h + 1) % q) + i) % q = (h + i + 1) % q
         /\ (((h + i) % q) + 1) % q = (h + i + 1) % q
         /\ (h + i) % q \in 0 .. q - 1
<1> DEFINE m(a) == IF a < q THEN a ELSE a - q
<1>1. (h + i) % q = m(h + i) /\ (h + 1) % q = m(h + 1) /\ (h + i + 1) % q = m(h + i + 1)
  <2>1. h + i \in 0 .. 2 * q - 1 /\ h + 1 \in 0 .. 2 * q - 1 /\ h + i + 1 \in 0 .. 2 * q - 1
    OBVIOUS
  <2> HIDE DEF m
  <2>2. \A a \in 0 .. 2 * q - 1 : a % q = m(a)
    BY ModIs DEF m
  <2> QED
    BY <2>1, <2>2
<1>2. (m(h + 1) + i) % q = m(m(h + 1) + i)
  <2>1. m(h + 1) + i \in 0 .. 2 * q - 1
    OBVIOUS
  <2> QED
    BY <2>1, ModIs
<1>3. (m(h + i) + 1) % q = m(m(h + i) + 1)
  <2>1. m(h + i) + 1 \in 0 .. 2 * q - 1
    OBVIOUS
  <2> QED
    BY <2>1, ModIs
<1>4. m(m(h + 1) + i) = m(h + i + 1) /\ m(m(h + i) + 1) = m(h + i + 1) /\ m(h + i) \in 0 .. q - 1
  OBVIOUS
<1> QED
  BY <1>1, <1>2, <1>3, <1>4

-------------------------------------------------------------------------------
(* The inductive invariant *)

(* The threads the pool counts and that have not left. *)
Live == {w \in Workers : w <= thread_count /\ pc[w] # "exited"}

Starting == {"absent", "creating", "counting"}

(* Which workers there are at each stage of the pool's life, and that the  *)
(* unlocked count of started threads is exact.                             *)
StageInv == /\ pool = "absent" => thread_count = 0
            /\ pool \in {"creating", "counting"} => thread_count < ThreadCount
            /\ \A w \in Workers :
                 pc[w] = "unborn" <=> /\ w > thread_count
                                      /\ ~(pool = "counting" /\ w = thread_count + 1)
            /\ shutdown # "none" => pool \notin Starting
            /\ pool = "unwinding" => shutdown # "none"
            /\ \A d \in Destroyers : destroyer[d] = "join" => shutdown # "none"
            /\ \A w \in Workers : pc[w] = "exited" => shutdown # "none"
            /\ started = Cardinality(Live)

(* The count slots from head on, up to tail, hold tasks. *)
RingInv == /\ tail = (head + count) % QueueSize
           /\ \A i \in 0 .. count - 1 : queue[(head + i) % QueueSize] \in Tasks
           /\ \A w \in Workers : pc[w] = "run" => task[w] \in Tasks

PoolInv == TypeOK /\ StageInv /\ RingInv /\ NoLostWakeup /\ ReleasedWhenQuiet

(* There are ThreadCount workers.                                          *)
LEMMA WorkersFinite == IsFiniteSet(Workers) /\ Cardinality(Workers) = ThreadCount
BY FS_Interval, PoolAssumption DEF Workers

(* Sets of workers are finite and no larger than the pool.                 *)
LEMMA SubsetsFinite ==
  ASSUME NEW S \in SUBSET Workers
  PROVE  IsFiniteSet(S) /\ Cardinality(S) \in 0 .. ThreadCount
<1>1. IsFiniteSet(S) /\ Cardinality(S) <= ThreadCount
  BY WorkersFinite, FS_Subset
<1>2. Cardinality(S) \in Nat
  BY <1>1, FS_CardinalityType
<1> QED
  BY <1>1, <1>2, PoolAssumption

(* The invariant holds before the pool is created.                         *)
LEMMA PoolInit == Init => PoolInv
<1> SUFFICES ASSUME Init PROVE PoolInv
  OBVIOUS
<1> USE PoolAssumption
<1>1. TypeOK
  BY DEF Init, TypeOK, Workers, Slots
<1>2. Live = {} /\ Waiting = {}
  BY DEF Init, Live, Waiting, Workers
<1>3. StageInv
  BY <1>2, FS_EmptySet DEF Init, StageInv, Workers, Starting
<1>4. RingInv
  <2>1. 0 % QueueSize = 0
    BY ModIs
  <2> QED
    BY <2>1 DEF Init, RingInv
<1>5. NoLostWakeup /\ ReleasedWhenQuiet
  BY <1>2 DEF Init, NoLostWakeup, ReleasedWhenQuiet
<1> QED
  BY <1>1, <1>3, <1>4, <1>5 DEF PoolInv

(* How a step of each action moves the workers and the pool: no worker is  *)
(* born, lost or counted except where threadpool_create and the exit of    *)
(* threadpool_thread do so.                                                *)
LEMMA StageNext == PoolInv /\ [Next]_vars => StageInv'
<1> SUFFICES ASSUME PoolInv, [Next]_vars PROVE StageInv'
  OBVIOUS
<1> USE PoolAssumption DEF PoolInv, TypeOK, owner, ring, history
<1>0. IsFiniteSet(Live)
  BY SubsetsFinite DEF Live
<1>a. ASSUME Live' = Live, started' = started PROVE (started = Cardinality(Live))'
  BY <1>a DEF StageInv
<1>1. CASE UNCHANGED vars
  BY <1>1 DEF vars, StageInv, Live
<1>2. CASE Allocate \/ AllocateFails
  <2>1. Live' = Live
    BY <1>2 DEF Allocate, AllocateFails, Live
  <2> QED
    BY <1>2, <1>a, <2>1 DEF Allocate, AllocateFails, StageInv, Starting
<1>3. CASE CreateThread
  <2>1. Live' = Live
    BY <1>3 DEF CreateThread, Live, Workers
  <2> QED
    BY <1>3, <1>a, <2>1 DEF CreateThread, StageInv, Workers, Starting
<1>4. CASE CountThread
  <2>1. thread_count + 1 \in Workers /\ pc[thread_count + 1] # "exited"
    BY <1>4 DEF CountThread, StageInv, Workers, Starting
  <2>2. Live' = Live \cup {thread_count + 1} /\ thread_count + 1 \notin Live
    BY <1>4, <2>1 DEF CountThread, Live, Workers
  <2>3. (started = Cardinality(Live))'
    BY <1>0, <1>4, <2>2, FS_AddElement DEF CountThread, StageInv
  <2> QED
    BY <1>4, <2>3 DEF CountThread, StageInv, Workers, Starting
<1>5. CASE CreateThreadFails
  <2>1. Live' = Live
    BY <1>5 DEF CreateThreadFails, Broadcast, Live
  <2> QED
    BY <1>5, <1>a, <2>1 DEF CreateThreadFails, Broadcast, StageInv, Starting
<1>6. CASE CreateUnwinds
  BY <1>6 DEF CreateUnwinds, Free, StageInv, Live, Starting
<1>7. ASSUME NEW t \in Tasks, Add(t) PROVE StageInv'
  <2>1. pc' = pc \/ \E w \in Waiting : pc' = [pc EXCEPT ![w] = "lock"]
    BY <1>7 DEF Add, Signal
  <2>2. /\ \A w \in Workers : /\ pc'[w] = "exited" <=> pc[w] = "exited"
                              /\ pc'[w] = "unborn" <=> pc[w] = "unborn"
    BY <2>1 DEF Waiting
  <2>3. Live' = Live
    BY <1>7, <2>2 DEF Add, Live
  <2> QED
    BY <1>7, <1>a, <2>2, <2>3 DEF Add, StageInv
<1>8. ASSUME NEW d \in Destroyers, Destroy(d) PROVE StageInv'
  <2>1. Live' = Live
    BY <1>8 DEF Destroy, Broadcast, Live
  <2> QED
    BY <1>8, <1>a, <2>1 DEF Destroy, Broadcast, StageInv, Starting
<1>9. ASSUME NEW d \in Destroyers, DestroyAgain(d) PROVE StageInv'
  BY <1>9 DEF DestroyAgain, StageInv, Live
<1>10. ASSUME NEW d \in Destroyers, DestroyReturns(d) PROVE StageInv'
  BY <1>10 DEF DestroyReturns, Free, StageInv, Live, Starting
<1>11. ASSUME NEW w \in Workers, WorkerWait(w) \/ SpuriousWakeup(w) PROVE StageInv'
  <2>1. Live' = Live
    BY <1>11 DEF WorkerWait, SpuriousWakeup, Live
  <2> QED
    BY <1>11, <1>a, <2>1 DEF WorkerWait, SpuriousWakeup, StageInv
<1>12. ASSUME NEW w \in Workers, WorkerExit(w) PROVE StageInv'
  <2>1. shutdown # "none"
    BY <1>12 DEF WorkerExit, MustExit
  <2>2. w \in Live /\ Live' = Live \ {w}
    BY <1>12, <2>1 DEF WorkerExit, Live, StageInv, Starting
  <2>3. (started = Cardinality(Live))'
    BY <1>0, <1>12, <2>2, FS_RemoveElement DEF WorkerExit, StageInv
  <2> QED
    BY <1>12, <2>1, <2>3 DEF WorkerExit, StageInv
<1>13. ASSUME NEW w \in Workers, WorkerTake(w) \/ WorkerRun(w) PROVE StageInv'
  <2>1. Live' = Live
    BY <1>13 DEF WorkerTake, WorkerRun, Live
  <2> QED
    BY <1>13, <1>a, <2>1 DEF WorkerTake, WorkerRun, StageInv
<1> QED
  BY <1>1, <1>2, <1>3, <1>4, <1>5, <1>6, <1>7, <1>8, <1>9, <1>10, <1>11, <1>12,
     <1>13 DEF Next, Create, Worker, Released

(* The types: started is between its bounds because it counts threads, and *)
(* what a worker takes from the ring is a task.                            *)
LEMMA TypeNext == PoolInv /\ [Next]_vars => TypeOK'
<1> SUFFICES ASSUME PoolInv, [Next]_vars PROVE TypeOK'
  OBVIOUS
<1>0. started' \in 0 .. ThreadCount
  <2>1. Live' \in SUBSET Workers
    BY DEF Live
  <2>2. Cardinality(Live') \in 0 .. ThreadCount
    BY <2>1, SubsetsFinite
  <2> QED
    BY <2>2, StageNext DEF StageInv
<1> USE PoolAssumption DEF PoolInv, TypeOK, owner, ring, history
<1>1. CASE UNCHANGED vars
  BY <1>1 DEF vars
<1>2. CASE Create
  <2>1. CASE Allocate \/ AllocateFails
    BY <2>1 DEF Allocate, AllocateFails
  <2>2. CASE CreateThread
    BY <2>2 DEF CreateThread
  <2>3. CASE CountThread
    <3>1. thread_count + 1 \in 0 .. ThreadCount
      BY <2>3 DEF CountThread, StageInv
    <3> QED
      BY <1>0, <2>3, <3>1 DEF CountThread
  <2>4. CASE CreateThreadFails
    BY <2>4 DEF CreateThreadFails, Broadcast
  <2>5. CASE CreateUnwinds
    BY <2>5 DEF CreateUnwinds, Free
  <2> QED
    BY <1>2, <2>1, <2>2, <2>3, <2>4, <2>5 DEF Create
<1>3. ASSUME NEW t \in Tasks, Add(t) PROVE TypeOK'
  <2>1. Advance(tail) \in Slots
    BY DEF Advance, Slots
  <2>2. pc' \in [Workers -> {"unborn", "lock", "wait", "run", "exited"}]
    BY <1>3 DEF Add, Signal, Waiting
  <2> QED
    BY <1>3, <2>1, <2>2 DEF Add, IsFull
<1>4. ASSUME NEW d \in Destroyers, Destroy(d) PROVE TypeOK'
  BY <1>4 DEF Destroy, Broadcast
<1>5. ASSUME NEW d \in Destroyers, DestroyAgain(d) PROVE TypeOK'
  BY <1>5 DEF DestroyAgain
<1>6. ASSUME NEW d \in Destroyers, DestroyReturns(d) PROVE TypeOK'
  BY <1>6 DEF DestroyReturns, Free
<1>7. ASSUME NEW w \in Workers, WorkerWait(w) \/ SpuriousWakeup(w) PROVE TypeOK'
  BY <1>7 DEF WorkerWait, SpuriousWakeup
<1>8. ASSUME NEW w \in Workers, WorkerExit(w) PROVE TypeOK'
  BY <1>0, <1>8 DEF WorkerExit
<1>9. ASSUME NEW w \in Workers, WorkerTake(w) PROVE TypeOK'
  <2>1. count > 0
    BY <1>9 DEF WorkerTake, MustWait, MustExit
  <2>2. queue[head] \in Tasks
    <3>1. head + 0 = head /\ head \in 0 .. 2 * QueueSize - 1 /\ head < QueueSize
      BY DEF Slots
    <3>2. head % QueueSize = head
      BY <3>1, ModIs
    <3>3. 0 \in 0 .. count - 1
      BY <2>1
    <3>4. queue[(head + 0) % QueueSize] \in Tasks
      BY <3>3 DEF RingInv
    <3> QED
      BY <3>1, <3>2, <3>4
  <2>3. Advance(head) \in Slots
    BY DEF Advance, Slots
  <2> QED
    BY <1>9, <2>1, <2>2, <2>3 DEF WorkerTake
<1>10. ASSUME NEW w \in Workers, WorkerRun(w) PROVE TypeOK'
  BY <1>10 DEF WorkerRun, RingInv
<1> QED
  BY <1>1, <1>2, <1>3, <1>4, <1>5, <1>6, <1>7, <1>8, <1>9, <1>10
     DEF Next, Worker, Released

(* The ring: threadpool_add fills the slot at tail and threadpool_thread   *)
(* empties the one at head; no other step touches it.                      *)
LEMMA RingNext == PoolInv /\ [Next]_vars => RingInv'
<1> SUFFICES ASSUME PoolInv, [Next]_vars PROVE RingInv'
  OBVIOUS
<1> USE PoolAssumption DEF PoolInv, TypeOK, owner, ring, history
<1>a. ASSUME UNCHANGED <<ring, task>>, \A w \in Workers : pc'[w] = "run" => pc[w] = "run"
      PROVE  RingInv'
  BY <1>a DEF RingInv
<1>1. CASE UNCHANGED vars
  BY <1>1, <1>a DEF vars
<1>2. CASE Create
  BY <1>2, <1>a DEF Create, Allocate, AllocateFails, CreateThread, CountThread,
                    CreateThreadFails, CreateUnwinds, Broadcast
<1>3. ASSUME NEW t \in Tasks, Add(t) PROVE RingInv'
  <2>1. UNCHANGED task /\ \A w \in Workers : pc'[w] = "run" => pc[w] = "run"
    BY <1>3 DEF Add, Signal, Waiting
  <2>2. CASE UNCHANGED ring
    BY <1>a, <2>1, <2>2
  <2>3. CASE ~ UNCHANGED ring
    <3>1. /\ count < QueueSize /\ count' = count + 1 /\ head' = head
          /\ tail' = (tail + 1) % QueueSize
          /\ queue' = [queue EXCEPT ![tail] = t]
      BY <1>3, <2>3 DEF Add, IsFull, Advance
    <3>2. tail' = (head' + count') % QueueSize
      <4>1. head \in 0 .. QueueSize - 1 /\ count \in 0 .. QueueSize - 1
        BY <3>1 DEF Slots
      <4>2. (((head + count) % QueueSize) + 1) % QueueSize = (head + count + 1) % QueueSize
        BY <4>1, AdvanceAdd
      <4>3. head + count + 1 = head + (count + 1)
        BY <4>1
      <4> QED
        BY <3>1, <4>2, <4>3 DEF RingInv
    <3>3. ASSUME NEW i \in 0 .. count' - 1 PROVE queue'[(head' + i) % QueueSize] \in Tasks
      <4>1. CASE i = count
        BY <3>1, <4>1 DEF RingInv
      <4>2. CASE i < count
        <5>1. queue[(head + i) % QueueSize] \in Tasks
          <6>1. i \in 0 .. count - 1
            BY <3>1, <4>2
          <6> QED
            BY <6>1 DEF RingInv
        <5>2. (head + i) % QueueSize \in Slots
          <6>1. head \in 0 .. QueueSize - 1 /\ i \in 0 .. QueueSize - 1
            BY <3>1, <4>2 DEF Slots
          <6> QED
            BY <6>1, AdvanceAdd DEF Slots
        <5> QED
          BY <3>1, <5>1, <5>2
      <4> QED
        BY <3>1, <4>1, <4>2
    <3> QED
      BY <2>1, <3>2, <3>3 DEF RingInv
  <2> QED
    BY <2>2, <2>3
<1>4. ASSUME NEW d \in Destroyers, Destroy(d) \/ DestroyAgain(d) \/ DestroyReturns(d)
      PROVE  RingInv'
  BY <1>4, <1>a DEF Destroy, DestroyAgain, DestroyReturns, Broadcast
<1>5. ASSUME NEW w \in Workers, WorkerWait(w) \/ SpuriousWakeup(w) \/ WorkerExit(w)
      PROVE  RingInv'
  BY <1>5, <1>a DEF WorkerWait, SpuriousWakeup, WorkerExit
<1>6. ASSUME NEW w \in Workers, WorkerTake(w) PROVE RingInv'
  <2>1. /\ count > 0 /\ count' = count - 1 /\ head' = (head + 1) % QueueSize
        /\ tail' = tail /\ queue' = queue
    BY <1>6 DEF WorkerTake, MustWait, MustExit, Advance
  <2>2. \A i \in 0 .. count' : (head' + i) % QueueSize = (head + (i + 1)) % QueueSize
    <3>1. ASSUME NEW i \in 0 .. count'
          PROVE  (head' + i) % QueueSize = (head + (i + 1)) % QueueSize
      <4>1. head \in 0 .. QueueSize - 1 /\ i \in 0 .. QueueSize - 1
        BY <2>1 DEF Slots
      <4>2. (((head + 1) % QueueSize) + i) % QueueSize = (head + i + 1) % QueueSize
        BY <4>1, AdvanceAdd
      <4>3. head + i + 1 = head + (i + 1)
        BY <4>1
      <4> QED
        BY <2>1, <4>2, <4>3
    <3> QED
      BY <3>1
  <2>3. tail' = (head' + count') % QueueSize
    <3>1. count' \in 0 .. count' /\ count' + 1 = count
      BY <2>1
    <3> QED
      BY <2>1, <2>2, <3>1 DEF RingInv
  <2>4. ASSUME NEW i \in 0 .. count' - 1 PROVE queue'[(head' + i) % QueueSize] \in Tasks
    <3>1. i \in 0 .. count' /\ i + 1 \in 0 .. count - 1
      BY <2>1
    <3>2. queue[(head + (i + 1)) % QueueSize] \in Tasks
      BY <3>1 DEF RingInv
    <3> QED
      BY <2>1, <2>2, <3>1, <3>2
  <2>5. queue[head] \in Tasks
    <3>1. begun' \in Seq(Tasks) /\ begun' = Append(begun, queue[head])
      BY <1>6, TypeNext DEF WorkerTake
    <3>2. begun'[Len(begun) + 1] = queue[head] /\ Len(begun') = Len(begun) + 1
      BY <3>1
    <3> QED
      BY <3>1, <3>2
  <2>6. \A v \in Workers : pc'[v] = "run" => task'[v] \in Tasks
    BY <1>6, <2>5 DEF WorkerTake, RingInv
  <2> QED
    BY <2>3, <2>4, <2>6 DEF RingInv
<1>7. ASSUME NEW w \in Workers, WorkerRun(w) PROVE RingInv'
  BY <1>7, <1>a DEF WorkerRun
<1> QED
  BY <1>1, <1>2, <1>3, <1>4, <1>5, <1>6, <1>7 DEF Next, Worker, Released

(* Wake-ups: while a worker sleeps, threadpool_add wakes one worker per    *)
(* task, and a worker that takes a task is one of those awake.             *)
LEMMA WakeNext == PoolInv /\ [Next]_vars => NoLostWakeup'
<1> SUFFICES ASSUME PoolInv, [Next]_vars PROVE NoLostWakeup'
  OBVIOUS
<1> USE PoolAssumption DEF PoolInv, TypeOK, owner, ring, history
<1>0. /\ IsFiniteSet(Contending) /\ Cardinality(Contending) \in Nat
      /\ IsFiniteSet(Contending') /\ Cardinality(Contending') \in Nat
  BY SubsetsFinite DEF Contending
<1>a. ASSUME Waiting' \subseteq Waiting, Contending \subseteq Contending',
             count' <= count, shutdown' = shutdown, count' \in Nat
      PROVE  NoLostWakeup'
  <2>1. Cardinality(Contending) <= Cardinality(Contending')
    BY <1>0, <1>a, FS_Subset
  <2> QED
    BY <1>0, <1>a, <2>1 DEF NoLostWakeup
<1>b. ASSUME Waiting' = {} PROVE NoLostWakeup'
  BY <1>b DEF NoLostWakeup
<1>1. CASE UNCHANGED vars
  BY <1>1, <1>a DEF vars, Waiting, Contending
<1>2. CASE Allocate \/ AllocateFails \/ CountThread \/ CreateUnwinds
  BY <1>2, <1>a DEF Allocate, AllocateFails, CountThread, CreateUnwinds, Waiting, Contending
<1>3. CASE CreateThread
  BY <1>3, <1>a DEF CreateThread, Waiting, Contending
<1>4. CASE CreateThreadFails
  BY <1>4, <1>b DEF CreateThreadFails, Broadcast, Waiting
<1>5. ASSUME NEW t \in Tasks, Add(t) PROVE NoLostWakeup'
  <2>1. CASE UNCHANGED <<ring, pc>>
    BY <1>5, <1>a, <2>1 DEF Add, Waiting, Contending
  <2>2. CASE Signal /\ count' = count + 1 /\ shutdown = "none"
    <3>1. CASE Waiting = {} /\ pc' = pc
      BY <1>b, <3>1 DEF Waiting
    <3>2. ASSUME NEW w \in Waiting, pc' = [pc EXCEPT ![w] = "lock"] PROVE NoLostWakeup'
      <4>1. Contending' = Contending \cup {w} /\ w \notin Contending
        BY <3>2 DEF Waiting, Contending
      <4>2. Cardinality(Contending') = Cardinality(Contending) + 1
        BY <1>0, <4>1, FS_AddElement
      <4>3. count <= Cardinality(Contending)
        BY DEF NoLostWakeup
      <4>4. shutdown' = "none"
        BY <1>5, <2>2 DEF Add
      <4> QED
        BY <1>0, <2>2, <4>2, <4>3, <4>4 DEF NoLostWakeup
    <3> QED
      BY <2>2, <3>1, <3>2 DEF Signal
  <2> QED
    BY <1>5, <2>1, <2>2 DEF Add
<1>6. ASSUME NEW d \in Destroyers, Destroy(d) PROVE NoLostWakeup'
  BY <1>6, <1>b DEF Destroy, Broadcast, Waiting
<1>7. ASSUME NEW d \in Destroyers, DestroyAgain(d) \/ DestroyReturns(d) PROVE NoLostWakeup'
  BY <1>7, <1>a DEF DestroyAgain, DestroyReturns, Waiting, Contending
<1>8. ASSUME NEW w \in Workers, WorkerWait(w) PROVE NoLostWakeup'
  BY <1>0, <1>8 DEF WorkerWait, MustWait, NoLostWakeup
<1>9. ASSUME NEW w \in Workers, SpuriousWakeup(w) \/ WorkerRun(w) PROVE NoLostWakeup'
  BY <1>9, <1>a DEF SpuriousWakeup, WorkerRun, Waiting, Contending
<1>10. ASSUME NEW w \in Workers, WorkerExit(w) PROVE NoLostWakeup'
  <2>1. Waiting = {}
    BY <1>10 DEF WorkerExit, MustExit, NoLostWakeup
  <2> QED
    BY <1>10, <1>b, <2>1 DEF WorkerExit, Waiting
<1>11. ASSUME NEW w \in Workers, WorkerTake(w) PROVE NoLostWakeup'
  <2>1. /\ Contending' = Contending \ {w} /\ w \in Contending
        /\ Waiting' = Waiting /\ count' = count - 1 /\ shutdown' = shutdown
    BY <1>11 DEF WorkerTake, Contending, Waiting
  <2>2. Cardinality(Contending') = Cardinality(Contending) - 1
    BY <1>0, <2>1, FS_RemoveElement
  <2> QED
    BY <1>0, <2>1, <2>2 DEF NoLostWakeup
<1> QED
  BY <1>1, <1>2, <1>3, <1>4, <1>5, <1>6, <1>7, <1>8, <1>9, <1>10, <1>11
     DEF Next, Create, Worker, Released

(* Release: once every counted thread was joined, none counts as started   *)
(* and none is left that was not counted.                                  *)
LEMMA QuietNext == PoolInv /\ [Next]_vars => ReleasedWhenQuiet'
<1> SUFFICES ASSUME PoolInv, [Next]_vars PROVE ReleasedWhenQuiet'
  OBVIOUS
<1> USE PoolAssumption DEF PoolInv, TypeOK, owner, ring, history, ReleasedWhenQuiet
<1>a. ASSUME Joined PROVE started = 0
  <2>1. Live = {}
    BY <1>a DEF Joined, Live, Workers
  <2> QED
    BY <2>1, FS_EmptySet DEF StageInv
<1>b. ASSUME Joined, shutdown # "none"
      PROVE  \A w \in Workers : pc[w] \in {"unborn", "exited"}
  BY <1>b DEF Joined, StageInv, Workers, Starting
<1>1. CASE UNCHANGED vars
  BY <1>1 DEF vars
<1>2. CASE Allocate \/ CreateThread \/ CountThread \/ CreateThreadFails
  BY <1>2 DEF Allocate, CreateThread, CountThread, CreateThreadFails
<1>3. CASE AllocateFails
  BY <1>3 DEF AllocateFails, StageInv, Workers
<1>4. CASE CreateUnwinds
  BY <1>4, <1>a, <1>b DEF CreateUnwinds, Free, StageInv
<1>5. ASSUME NEW t \in Tasks, Add(t) PROVE ReleasedWhenQuiet'
  BY <1>5 DEF Add
<1>6. ASSUME NEW d \in Destroyers, Destroy(d) \/ DestroyAgain(d) PROVE ReleasedWhenQuiet'
  BY <1>6 DEF Destroy, DestroyAgain
<1>7. ASSUME NEW d \in Destroyers, DestroyReturns(d) PROVE ReleasedWhenQuiet'
  BY <1>7, <1>a, <1>b DEF DestroyReturns, Free, StageInv
<1>8. ASSUME NEW w \in Workers, Worker(w) \/ SpuriousWakeup(w) PROVE ReleasedWhenQuiet'
  BY <1>8 DEF Worker, WorkerWait, WorkerExit, WorkerTake, WorkerRun, SpuriousWakeup
<1> QED
  BY <1>1, <1>2, <1>3, <1>4, <1>5, <1>6, <1>7, <1>8 DEF Next, Create, Released

(* The invariant holds in every state.                                     *)
LEMMA PoolAlways == Spec => []PoolInv
<1>1. PoolInv /\ [Next]_vars => PoolInv'
  BY StageNext, TypeNext, RingNext, WakeNext, QuietNext DEF PoolInv
<1> QED
  BY <1>1, PoolInit, PTL DEF Spec

-------------------------------------------------------------------------------

(* The pool's fields stay in their ranges, whoever calls what when: the    *)
(* ring never overflows and its indices stay in it, and started, which     *)
(* threadpool_create increments without the lock, never leaves 0 ..        *)
(* thread_count.                                                           *)
THEOREM TypeCorrect == Spec => []TypeOK
<1>1. PoolInv => TypeOK
  BY DEF PoolInv
<1> QED
  BY <1>1, PoolAlways, PTL

(* One signal per task suffices: no task waits in the queue while every    *)
(* worker that could take it sleeps.                                       *)
THEOREM WakeupsSuffice == Spec => []NoLostWakeup
<1>1. PoolInv => NoLostWakeup
  BY DEF PoolInv
<1> QED
  BY <1>1, PoolAlways, PTL

(* threadpool_free runs only when no worker can reach the pool any more,   *)
(* and never gives up on it for a thread that still counts as started.     *)
THEOREM ReleaseIsSafe == Spec => []ReleasedWhenQuiet
<1>1. PoolInv => ReleasedWhenQuiet
  BY DEF PoolInv
<1> QED
  BY <1>1, PoolAlways, PTL

===============================================================================
