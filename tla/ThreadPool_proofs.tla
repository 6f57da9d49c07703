-------------------------- MODULE ThreadPool_proofs --------------------------
(***************************************************************************)
(* Proofs, for every number of threads and tasks and every size of the     *)
(* ring, that pool.c loses no wake-up, frees the pool only when it is      *)
(* quiet, and implements the queue of TaskQueue.                           *)
(***************************************************************************)
EXTENDS ThreadPool, FiniteSetTheorems, TLAPS

\* Threads that have been counted into pool->started and not out of it.
Active == {w \in Worker : wpc[w] \notin {"none", "exited"}}

\* What main knows: the pool is not shut down while it is being created or
\* used, tasks are queued only in a usable pool, and there is no thread left
\* when threadpool_destroy has returned.
MainInv ==
  /\ mpc \in {"create", "run"} => ~shutdown
  /\ mpc = "join" => shutdown
  /\ mpc = "create" => count = 0
  /\ mpc = "null" => /\ \A w \in Created : wpc[w] = "exited"
                     /\ ~shutdown => count = 0
  /\ freed => mpc = "null"
  /\ started = Cardinality(Active)

\* The slot of the ring that holds the i-th queued task.
Nth(i) == (head + i - 1) % QueueSize

\* The ring and the threads hold each accepted task once, and none of them is
\* a task that has returned.
TaskInv ==
  /\ tail = (head + count) % QueueSize
  /\ \A w \in Worker : wpc[w] = "busy" =>
       /\ doing[w] \in Task
       /\ answer[doing[w]] = "accepted" /\ doing[w] \notin finished
  /\ \A v, w \in At("busy") : v # w => doing[v] # doing[w]
  /\ \A i \in 1 .. count :
       /\ tasks[Nth(i)] \in Task
       /\ answer[tasks[Nth(i)]] = "accepted" /\ tasks[Nth(i)] \notin finished
       /\ \A w \in At("busy") : doing[w] # tasks[Nth(i)]
  /\ \A i, j \in 1 .. count : i # j => tasks[Nth(i)] # tasks[Nth(j)]
  /\ \A t \in finished : answer[t] = "accepted"

IndInv == TypeOK /\ MainInv /\ TaskInv /\ NoLostWakeup /\ FreedWhenQuiet

-----------------------------------------------------------------------------
(* The ring.                                                                *)

\* Positions never lie further than one round ahead.
LEMMA Wrap ==
  ASSUME NEW a \in Nat, a < 2 * QueueSize
  PROVE  a % QueueSize = IF a < QueueSize THEN a ELSE a - QueueSize
<1>. USE PoolAssumption
<1>1. CASE a < QueueSize
  BY <1>1
<1>2. CASE ~(a < QueueSize)
  BY <1>2
<1>. QED  BY <1>1, <1>2

\* c places behind position h.
LEMMA RingSlot ==
  ASSUME NEW h \in Slot, NEW c \in 0 .. QueueSize
  PROVE  /\ (h + c) % QueueSize = IF h + c < QueueSize THEN h + c ELSE h + c - QueueSize
         /\ (h + c) % QueueSize \in Slot
<1>1. h + c \in Nat /\ h + c < 2 * QueueSize
  BY PoolAssumption DEF Slot
<1>. QED  BY <1>1, Wrap, PoolAssumption DEF Slot

\* Advancing the head by one leaves the slots behind it where they are.
LEMMA RingShift ==
  ASSUME NEW h \in Slot, NEW c \in 1 .. QueueSize
  PROVE  (((h + 1) % QueueSize) + c - 1) % QueueSize = (h + c) % QueueSize
<1>. DEFINE n == (h + 1) % QueueSize
<1>1. n = (IF h + 1 < QueueSize THEN h + 1 ELSE h + 1 - QueueSize) /\ n \in Slot
  BY RingSlot, PoolAssumption DEF Slot
<1>2. (n + (c - 1)) % QueueSize
        = IF n + (c - 1) < QueueSize THEN n + (c - 1) ELSE n + (c - 1) - QueueSize
  <2>. HIDE DEF n
  <2>1. c - 1 \in 0 .. QueueSize
    BY PoolAssumption
  <2>. QED  BY <1>1, <2>1, RingSlot
<1>3. (h + c) % QueueSize = IF h + c < QueueSize THEN h + c ELSE h + c - QueueSize
  BY RingSlot, PoolAssumption
<1>4. n + c - 1 = n + (c - 1)
  <2>. HIDE DEF n
  <2>. QED  BY <1>1 DEF Slot
<1>. HIDE DEF n
<1>5. (n + c - 1) % QueueSize = (h + c) % QueueSize
  BY <1>1, <1>2, <1>3, <1>4, PoolAssumption DEF Slot
<1>. QED  BY <1>5 DEF n

-----------------------------------------------------------------------------
(* What the steps do to the sets of threads.                                *)

\* Threads are counted in by main and count themselves out.
LEMMA ActiveStep ==
  ASSUME TypeOK, [Next]_vars
  PROVE  \/ Active' = Active /\ started' = started
         \/ \E w \in Worker : /\ w \notin Active /\ Active' = Active \cup {w}
                              /\ started' = started + 1
         \/ \E w \in Active : Active' = Active \ {w} /\ started' = started - 1
<1>. USE DEF TypeOK, Active
<1>1. CASE UNCHANGED vars
  BY <1>1 DEF vars
<1>2. CASE CreateRefused \/ JoinAndFree \/ \E t \in Task : AddRefused(t)
  BY <1>2 DEF CreateRefused, JoinAndFree, AddRefused
<1>3. CASE CreateFails \/ Destroy
  BY <1>3 DEF CreateFails, Destroy, BeginDestroy, Broadcast
<1>4. ASSUME NEW w \in Worker, CreateThread(w)
      PROVE  w \notin Active /\ Active' = Active \cup {w} /\ started' = started + 1
  BY <1>4 DEF CreateThread
<1>5. ASSUME NEW w \in Worker, Sleep(w) \/ Take(w) \/ Return(w) \/ SpuriousWakeup(w)
      PROVE  Active' = Active /\ started' = started
  BY <1>5 DEF Sleep, Take, Return, SpuriousWakeup
<1>6. ASSUME NEW w \in Worker, Exit(w)
      PROVE  w \in Active /\ Active' = Active \ {w} /\ started' = started - 1
  BY <1>6 DEF Exit
<1>7. ASSUME NEW t \in Task, Add(t)
      PROVE  Active' = Active /\ started' = started
  BY <1>7 DEF Add, Signal, At
<1>. QED  BY <1>1, <1>2, <1>3, <1>4, <1>5, <1>6, <1>7 DEF Next, WorkerStep

\* So pool->started is their number.
LEMMA StartedStep ==
  ASSUME TypeOK, started = Cardinality(Active), [Next]_vars
  PROVE  started' = Cardinality(Active') /\ started' \in 0 .. Cardinality(Worker)
<1>1. IsFiniteSet(Worker)
  BY PoolAssumption
<1>2. IsFiniteSet(Active) /\ IsFiniteSet(Active') /\ Cardinality(Active') \in Nat
      /\ Cardinality(Worker) \in Nat /\ Cardinality(Active') <= Cardinality(Worker)
  <2>1. Active \in SUBSET Worker /\ Active' \in SUBSET Worker
    BY DEF Active
  <2>. QED  BY <1>1, <2>1, FS_Subset, FS_CardinalityType
<1>3. started' = Cardinality(Active')
  BY <1>2, ActiveStep, FS_AddElement, FS_RemoveElement
<1>. QED  BY <1>2, <1>3

\* A thread sleeps only while the mutex is contended for by enough others.
LEMMA WakeupStep ==
  ASSUME TypeOK, NoLostWakeup, [Next]_vars
  PROVE  NoLostWakeup'
<1>1. \A S \in SUBSET Worker : IsFiniteSet(S) /\ Cardinality(S) \in Nat
  BY PoolAssumption, FS_Subset, FS_CardinalityType
<1>2. \A S \in SUBSET Worker : \A w : w \notin S => Cardinality(S \cup {w}) = Cardinality(S) + 1
  BY <1>1, FS_AddElement
<1>3. \A S \in SUBSET Worker : \A w : w \in S => Cardinality(S \ {w}) = Cardinality(S) - 1
  BY <1>1, FS_RemoveElement
<1>4. At("lock") \in SUBSET Worker /\ At("waiting") \in SUBSET Worker
      /\ Cardinality(At("lock")) \in Nat /\ count \in Nat
  BY <1>1 DEF At, TypeOK
<1>5. CASE UNCHANGED vars
  BY <1>5 DEF vars, NoLostWakeup, At
<1>6. CASE CreateRefused \/ JoinAndFree \/ \E t \in Task : AddRefused(t)
  BY <1>6 DEF CreateRefused, JoinAndFree, AddRefused, NoLostWakeup, At, ring
<1>7. CASE CreateFails \/ Destroy
  <2>1. At("waiting")' = {}
    BY <1>7 DEF CreateFails, Destroy, BeginDestroy, Broadcast, At, TypeOK
  <2>. QED  BY <2>1 DEF NoLostWakeup
<1>8. ASSUME NEW w \in Worker, CreateThread(w) \/ Return(w) \/ SpuriousWakeup(w)
      PROVE  NoLostWakeup'
  <2>1. w \notin At("lock") /\ At("lock")' = At("lock") \cup {w}
        /\ At("waiting")' \subseteq At("waiting") /\ UNCHANGED <<shutdown, count>>
    BY <1>8 DEF CreateThread, Return, SpuriousWakeup, At, TypeOK, ring
  <2>. QED  BY <1>2, <1>4, <2>1 DEF NoLostWakeup
<1>9. ASSUME NEW w \in Worker, Sleep(w)
      PROVE  NoLostWakeup'
  <2>1. At("lock")' \in SUBSET Worker /\ count' = 0 /\ ~shutdown'
    BY <1>9 DEF Sleep, At, ring
  <2>2. Cardinality(At("lock")') \in Nat
    BY <1>1, <2>1
  <2>. QED  BY <2>1, <2>2 DEF NoLostWakeup
<1>10. ASSUME NEW w \in Worker, Take(w)
       PROVE  NoLostWakeup'
  <2>1. w \in At("lock") /\ At("lock")' = At("lock") \ {w}
        /\ At("waiting")' = At("waiting") /\ shutdown' = shutdown /\ count' = count - 1
    BY <1>10 DEF Take, At, TypeOK
  <2>. QED  BY <1>3, <1>4, <2>1 DEF NoLostWakeup
<1>11. ASSUME NEW w \in Worker, Exit(w)
       PROVE  NoLostWakeup'
  <2>1. At("waiting") = {} /\ At("waiting")' = {}
    BY <1>11 DEF Exit, At, NoLostWakeup, TypeOK
  <2>. QED  BY <2>1 DEF NoLostWakeup
<1>12. ASSUME NEW t \in Task, Add(t)
       PROVE  NoLostWakeup'
  <2>1. count' = count + 1 /\ ~shutdown'
    BY <1>12 DEF Add, Enqueue
  <2>2. CASE At("waiting") = {} /\ wpc' = wpc
    BY <2>2 DEF NoLostWakeup, At
  <2>3. ASSUME NEW w \in At("waiting"), wpc' = [wpc EXCEPT ![w] = "lock"]
        PROVE  w \notin At("lock") /\ At("lock")' = At("lock") \cup {w}
    BY <2>3 DEF At, TypeOK
  <2>. QED  BY <1>2, <1>4, <1>12, <2>1, <2>2, <2>3 DEF Add, Signal, NoLostWakeup
<1>. QED  BY <1>5, <1>6, <1>7, <1>8, <1>9, <1>10, <1>11, <1>12 DEF Next, WorkerStep

-----------------------------------------------------------------------------
(* Each part of the inductive invariant is kept.                            *)

\* Every variable keeps its type.
LEMMA TypeStep ==
  ASSUME TypeOK, TaskInv, started = Cardinality(Active), [Next]_vars
  PROVE  TypeOK'
<1>1. started' \in 0 .. Cardinality(Worker)
  BY StartedStep
<1>. USE <1>1, PoolAssumption DEF TypeOK
<1>2. CASE UNCHANGED vars
  BY <1>2 DEF vars
<1>3. CASE CreateRefused \/ JoinAndFree \/ \E t \in Task : AddRefused(t)
  BY <1>3 DEF CreateRefused, JoinAndFree, AddRefused, ring
<1>4. CASE CreateFails \/ Destroy
  BY <1>4 DEF CreateFails, Destroy, BeginDestroy, Broadcast, ring
<1>5. ASSUME NEW w \in Worker, CreateThread(w) \/ Sleep(w) \/ SpuriousWakeup(w) \/ Exit(w)
      PROVE  TypeOK'
  BY <1>5 DEF CreateThread, Sleep, SpuriousWakeup, Exit, ring
<1>6. ASSUME NEW w \in Worker, Return(w)
      PROVE  TypeOK'
  BY <1>6 DEF Return, ring, TaskInv
<1>7. ASSUME NEW w \in Worker, Take(w)
      PROVE  TypeOK'
  <2>1. head' \in Slot
    BY <1>7, RingSlot DEF Take
  <2>. QED  BY <1>7, <2>1 DEF Take
<1>8. ASSUME NEW t \in Task, Add(t)
      PROVE  TypeOK'
  <2>1. tail' \in Slot
    BY <1>8, RingSlot DEF Add, Enqueue
  <2>2. wpc' \in [Worker -> {"none", "lock", "waiting", "busy", "exited"}]
    BY <1>8 DEF Add, Signal, At
  <2>. QED  BY <1>8, <2>1, <2>2 DEF Add, Enqueue
<1>. QED  BY <1>2, <1>3, <1>4, <1>5, <1>6, <1>7, <1>8 DEF Next, WorkerStep

\* main's view, and the pool is freed only when it is quiet.
LEMMA MainStep ==
  ASSUME TypeOK, MainInv, FreedWhenQuiet, NoLostWakeup, [Next]_vars
  PROVE  MainInv' /\ FreedWhenQuiet'
<1>1. started' = Cardinality(Active')
  BY StartedStep DEF MainInv
<1>. USE <1>1 DEF TypeOK, MainInv, FreedWhenQuiet, Created
<1>2. CASE UNCHANGED vars
  BY <1>2 DEF vars
<1>3. CASE CreateRefused \/ \E t \in Task : AddRefused(t)
  BY <1>3 DEF CreateRefused, AddRefused, ring
<1>4. CASE JoinAndFree
  <2>1. Active = {}
    BY <1>4 DEF JoinAndFree, Active
  <2>2. started = 0
    BY <2>1, FS_EmptySet
  <2>. QED  BY <1>4, <2>2 DEF JoinAndFree, ring
<1>5. CASE CreateFails \/ Destroy
  BY <1>5 DEF CreateFails, Destroy, BeginDestroy, Broadcast, ring
<1>6. ASSUME NEW w \in Worker,
             CreateThread(w) \/ Sleep(w) \/ SpuriousWakeup(w) \/ Exit(w) \/ Return(w)
      PROVE  MainInv' /\ FreedWhenQuiet'
  BY <1>6 DEF CreateThread, Sleep, SpuriousWakeup, Exit, Return, ring
<1>7. ASSUME NEW w \in Worker, Take(w)
      PROVE  MainInv' /\ FreedWhenQuiet'
  BY <1>7 DEF Take
<1>8. ASSUME NEW t \in Task, Add(t)
      PROVE  MainInv' /\ FreedWhenQuiet'
  BY <1>8 DEF Add, Enqueue, Signal, At
<1>. QED  BY <1>2, <1>3, <1>4, <1>5, <1>6, <1>7, <1>8 DEF Next, WorkerStep

\* The i-th queued task lies in a slot of its own, apart from the tail.
LEMMA NthSlots ==
  ASSUME TypeOK, TaskInv
  PROVE  /\ \A i \in 1 .. count : Nth(i) \in Slot
         /\ \A i, j \in 1 .. count : i # j => Nth(i) # Nth(j)
         /\ count < QueueSize => \A i \in 1 .. count : Nth(i) # tail
<1>1. \A i \in 1 .. QueueSize : i - 1 \in 0 .. QueueSize /\ head + i - 1 = head + (i - 1)
  BY PoolAssumption DEF TypeOK, Slot
<1>2. \A i \in 1 .. QueueSize :
        /\ Nth(i) \in Slot
        /\ Nth(i) = IF head + (i - 1) < QueueSize THEN head + (i - 1)
                    ELSE head + (i - 1) - QueueSize
  BY <1>1, RingSlot DEF TypeOK, Nth
<1>3. tail = IF head + count < QueueSize THEN head + count ELSE head + count - QueueSize
  BY RingSlot DEF TypeOK, TaskInv
<1>. QED  BY <1>2, <1>3, PoolAssumption DEF TypeOK, Slot

\* threadpool_add puts its task behind the others.
LEMMA AddRing ==
  ASSUME TypeOK, TaskInv, NEW t \in Task, Add(t)
  PROVE  /\ \A i \in 1 .. count : Nth(i)' = Nth(i) /\ tasks'[Nth(i)] = tasks[Nth(i)]
         /\ Nth(count)' = tail /\ tasks'[tail] = t
         /\ tail' = (head' + count') % QueueSize
<1>1. head' = head /\ count' = count + 1 /\ tasks' = [tasks EXCEPT ![tail] = t]
      /\ tail' = (tail + 1) % QueueSize /\ count < QueueSize
  BY DEF Add, Enqueue
<1>2. \A i \in 1 .. count : Nth(i)' = Nth(i) /\ tasks'[Nth(i)] = tasks[Nth(i)]
  BY <1>1, NthSlots DEF Nth, TypeOK
<1>3. Nth(count)' = tail
  <2>1. head + (count + 1) - 1 = head + count
    BY PoolAssumption DEF TypeOK, Slot
  <2>. QED  BY <1>1, <2>1 DEF Nth, TaskInv
<1>4. tail' = (head' + count') % QueueSize
  <2>1. tail = (IF head + count < QueueSize THEN head + count ELSE head + count - QueueSize)
    BY RingSlot DEF TypeOK, TaskInv
  <2>2. (tail + 1) % QueueSize = IF tail + 1 < QueueSize THEN tail + 1 ELSE tail + 1 - QueueSize
    BY RingSlot, PoolAssumption DEF TypeOK
  <2>3. count + 1 \in 0 .. QueueSize
    BY <1>1, PoolAssumption DEF TypeOK
  <2>4. (head + (count + 1)) % QueueSize
          = IF head + (count + 1) < QueueSize THEN head + (count + 1)
            ELSE head + (count + 1) - QueueSize
    BY <2>3, RingSlot DEF TypeOK
  <2>. QED  BY <1>1, <2>1, <2>2, <2>4, PoolAssumption DEF TypeOK, Slot
<1>. QED  BY <1>1, <1>2, <1>3, <1>4 DEF TypeOK

\* A thread takes the first task, and the others move up.
LEMMA TakeRing ==
  ASSUME TypeOK, TaskInv, NEW w \in Worker, Take(w)
  PROVE  /\ doing'[w] = tasks[Nth(1)] /\ tasks' = tasks /\ count' = count - 1 /\ count > 0
         /\ \A i \in 1 .. count' : i + 1 \in 1 .. count /\ Nth(i)' = Nth(i + 1)
         /\ tail' = (head' + count') % QueueSize
<1>1. head' = (head + 1) % QueueSize /\ count' = count - 1 /\ tail' = tail /\ tasks' = tasks
      /\ count > 0 /\ doing'[w] = tasks[head]
  BY DEF Take, TypeOK
<1>2. Nth(1) = head
  <2>1. head + 1 - 1 = head
    BY PoolAssumption DEF TypeOK, Slot
  <2>2. head % QueueSize = head
    <3>1. head \in Nat /\ head < 2 * QueueSize /\ head < QueueSize
      BY PoolAssumption DEF TypeOK, Slot
    <3>. QED  BY <3>1, Wrap
  <2>. QED  BY <2>1, <2>2 DEF Nth
<1>3. \A i \in 1 .. QueueSize : (head' + i - 1) % QueueSize = (head + i) % QueueSize
  BY <1>1, RingShift DEF TypeOK
<1>4. \A i \in 1 .. count' : i + 1 \in 1 .. count /\ Nth(i)' = Nth(i + 1)
  <2>1. \A i \in 1 .. count' : i \in 1 .. QueueSize /\ head + (i + 1) - 1 = head + i
                              /\ i + 1 \in 1 .. count
    BY <1>1, PoolAssumption DEF TypeOK, Slot
  <2>. QED  BY <1>3, <2>1 DEF Nth
<1>5. tail' = (head' + count') % QueueSize
  <2>1. count \in 1 .. QueueSize
    BY <1>1 DEF TypeOK
  <2>2. head' \in Slot
    BY <1>1, RingSlot, PoolAssumption DEF TypeOK
  <2>3. head' + count - 1 = head' + count'
    BY <1>1, <2>1, <2>2, PoolAssumption DEF Slot
  <2>. QED  BY <1>1, <1>3, <2>1, <2>3 DEF TaskInv
<1>. QED  BY <1>1, <1>2, <1>4, <1>5

\* No task is in two places.
LEMMA TaskStep ==
  ASSUME TypeOK, TaskInv, [Next]_vars
  PROVE  TaskInv'
<1>1. CASE UNCHANGED vars
  BY <1>1 DEF vars, TaskInv, At, Nth
<1>2. CASE CreateRefused \/ JoinAndFree
  BY <1>2 DEF CreateRefused, JoinAndFree, ring, TaskInv, At, Nth
<1>3. CASE CreateFails \/ Destroy
  <2>1. At("busy")' = At("busy") /\ UNCHANGED <<doing, ring, answer, finished>>
    BY <1>3 DEF CreateFails, Destroy, BeginDestroy, Broadcast, At, TypeOK
  <2>. QED  BY <2>1 DEF ring, TaskInv, At, Nth
<1>4. ASSUME NEW w \in Worker,
             CreateThread(w) \/ Sleep(w) \/ SpuriousWakeup(w) \/ Exit(w)
      PROVE  TaskInv'
  <2>1. At("busy")' = At("busy") /\ UNCHANGED <<doing, ring, answer, finished>>
    BY <1>4 DEF CreateThread, Sleep, SpuriousWakeup, Exit, At, TypeOK
  <2>. QED  BY <2>1 DEF ring, TaskInv, At, Nth
<1>5. ASSUME NEW t \in Task, AddRefused(t)
      PROVE  TaskInv'
  <2>1. \A u \in Task : answer[u] = "accepted" => answer'[u] = "accepted"
    BY <1>5 DEF AddRefused, TypeOK
  <2>2. UNCHANGED <<wpc, doing, ring, finished>> /\ finished \subseteq Task
    BY <1>5 DEF AddRefused, TypeOK
  <2>. QED  BY <2>1, <2>2 DEF ring, TaskInv, At, Nth
<1>6. ASSUME NEW w \in Worker, Return(w)
      PROVE  TaskInv'
  <2>1. At("busy")' = At("busy") \ {w} /\ w \in At("busy")
        /\ (\A v \in Worker : v # w => doing'[v] = doing[v])
        /\ finished' = finished \cup {doing[w]} /\ UNCHANGED <<ring, answer>>
    BY <1>6 DEF Return, At, TypeOK
  <2>. QED  BY <2>1 DEF ring, TaskInv, At, Nth
<1>7. ASSUME NEW w \in Worker, Take(w)
      PROVE  TaskInv'
  <2>1. At("busy")' = At("busy") \cup {w} /\ w \notin At("busy")
        /\ (\A v \in Worker : v # w => doing'[v] = doing[v])
        /\ UNCHANGED <<answer, finished>>
    BY <1>7 DEF Take, At, TypeOK
  <2>2. 1 \in 1 .. count
    BY <1>7, TakeRing DEF TypeOK
  <2>3. \A i \in 1 .. count' : i + 1 # 1
    BY <1>7, TakeRing DEF TypeOK
  <2>4. \A v \in At("busy")' : doing'[v] \in Task
                               /\ answer'[doing'[v]] = "accepted" /\ doing'[v] \notin finished'
    BY <1>7, <2>1, <2>2, TakeRing DEF TaskInv, At
  <2>5. \A u, v \in At("busy")' : u # v => doing'[u] # doing'[v]
    BY <1>7, <2>1, <2>2, TakeRing DEF TaskInv, At
  <2>6. \A i \in 1 .. count' :
          /\ tasks'[Nth(i)'] \in Task
          /\ answer'[tasks'[Nth(i)']] = "accepted" /\ tasks'[Nth(i)'] \notin finished'
          /\ \A v \in At("busy")' : doing'[v] # tasks'[Nth(i)']
    BY <1>7, <2>1, <2>2, <2>3, TakeRing DEF TaskInv, At
  <2>7. \A i, j \in 1 .. count' : i # j => tasks'[Nth(i)'] # tasks'[Nth(j)']
    <3>1. \A i, j \in 1 .. count' : i # j => i + 1 # j + 1
      BY <1>7, TakeRing DEF TypeOK
    <3>. QED  BY <1>7, <3>1, TakeRing DEF TaskInv
  <2>. QED  BY <1>7, <2>1, <2>4, <2>5, <2>6, <2>7, TakeRing DEF TaskInv, At
<1>8. ASSUME NEW t \in Task, Add(t)
      PROVE  TaskInv'
  <2>1. At("busy")' = At("busy") /\ UNCHANGED <<doing, finished>>
    BY <1>8 DEF Add, Signal, At, TypeOK
  <2>2. answer[t] = "new" /\ answer'[t] = "accepted" /\ count' = count + 1
        /\ \A u \in Task : u # t => answer'[u] = answer[u]
    BY <1>8 DEF Add, Enqueue, TypeOK
  <2>3. \A i \in 1 .. count' : i \in 1 .. count \/ i = count'
    BY <2>2 DEF TypeOK
  <2>4. \A i \in 1 .. count' : IF i = count' THEN tasks'[Nth(i)'] = t
                               ELSE tasks'[Nth(i)'] = tasks[Nth(i)] /\ i \in 1 .. count
    <3>1. Nth(count)' = tail
      BY <1>8, AddRing
    <3>2. \A i \in 1 .. count' : i = count' => Nth(i)' = tail
      BY <3>1 DEF Nth
    <3>. QED  BY <1>8, <2>3, <3>2, AddRing
  <2>5. \A v \in At("busy") : doing[v] # t /\ answer'[doing[v]] = "accepted"
    BY <2>2 DEF TaskInv, At
  <2>6. \A i \in 1 .. count : tasks[Nth(i)] # t /\ answer'[tasks[Nth(i)]] = "accepted"
    BY <2>2 DEF TaskInv
  <2>7. t \notin finished /\ \A u \in finished' : answer'[u] = "accepted"
    BY <2>1, <2>2 DEF TaskInv, TypeOK
  <2>8. \A i \in 1 .. count' :
          /\ tasks'[Nth(i)'] \in Task
          /\ answer'[tasks'[Nth(i)']] = "accepted" /\ tasks'[Nth(i)'] \notin finished'
          /\ \A v \in At("busy")' : doing'[v] # tasks'[Nth(i)']
    BY <2>1, <2>2, <2>4, <2>5, <2>6, <2>7 DEF TaskInv
  <2>9. \A i, j \in 1 .. count' : i # j => tasks'[Nth(i)'] # tasks'[Nth(j)']
    BY <2>4, <2>6 DEF TaskInv
  <2>. QED  BY <1>8, <2>1, <2>5, <2>7, <2>8, <2>9, AddRing DEF TaskInv, At
<1>. QED  BY <1>1, <1>2, <1>3, <1>4, <1>5, <1>6, <1>7, <1>8 DEF Next, WorkerStep

-----------------------------------------------------------------------------
(* The invariants of the run.                                               *)

\* Before threadpool_create has started a thread there is nothing to lose.
LEMMA InitIndInv == Init => IndInv
<1> SUFFICES ASSUME Init PROVE IndInv
  OBVIOUS
<1> USE PoolAssumption DEF Init
<1>1. Active = {} /\ At("waiting") = {} /\ At("busy") = {} /\ Created = {}
  BY DEF Active, At, Created
<1>2. Cardinality(Active) = 0 /\ Cardinality(Worker) \in Nat
  BY <1>1, FS_EmptySet, FS_CardinalityType
<1>3. TypeOK
  <2>1. 0 \in Slot /\ 0 \in 0 .. QueueSize
    BY DEF Slot
  <2>2. 0 \in 0 .. Cardinality(Worker)
    BY <1>2
  <2>. QED  BY <2>1, <2>2 DEF TypeOK
<1>4. MainInv /\ FreedWhenQuiet /\ NoLostWakeup
  BY <1>1, <1>2 DEF MainInv, FreedWhenQuiet, NoLostWakeup
<1>5. tail = (head + count) % QueueSize
  BY Wrap
<1>6. TaskInv
  BY <1>1, <1>5 DEF TaskInv
<1>. QED  BY <1>3, <1>4, <1>6 DEF IndInv

\* Every step keeps the inductive invariant.
LEMMA NextIndInv == IndInv /\ [Next]_vars => IndInv'
<1> SUFFICES ASSUME IndInv, [Next]_vars PROVE IndInv'
  OBVIOUS
<1>1. TypeOK'
  BY TypeStep DEF IndInv, MainInv
<1>. QED  BY <1>1, MainStep, TaskStep, WakeupStep DEF IndInv

\* The inductive invariant holds in every reachable state.
THEOREM Invariance == Spec => []IndInv
  BY InitIndInv, NextIndInv, PTL DEF Spec

\* Every variable of the pool keeps its type: the ring's positions stay within
\* the ring and count and started within their bounds.
THEOREM TypeCorrect == Spec => []TypeOK
<1>1. IndInv => TypeOK
  BY DEF IndInv
<1>. QED  BY <1>1, Invariance, PTL

\* For any number of threads and any size of the ring, the one signal of
\* threadpool_add is enough: no task stays queued with every thread asleep.
THEOREM WakeupSafety == Spec => []NoLostWakeup
<1>1. IndInv => NoLostWakeup
  BY DEF IndInv
<1>. QED  BY <1>1, Invariance, PTL

\* threadpool_free releases the pool only when its threads are gone, and
\* threadpool_destroy always gets that far: started counts them right.
THEOREM FreeSafety == Spec => []FreedWhenQuiet
<1>1. IndInv => FreedWhenQuiet
  BY DEF IndInv
<1>. QED  BY <1>1, Invariance, PTL

-----------------------------------------------------------------------------
(* The refinement.                                                          *)

isOpen == ~shutdown /\ mpc # "null"
status == [t \in Task |-> Status(t)]

\* The queued tasks as a sequence.
LEMMA PendingSeq ==
  ASSUME TypeOK, TaskInv
  PROVE  /\ Pending \in Seq(Task)
         /\ shutdown => Pending = <<>> /\ Len(Pending) = 0
         /\ ~shutdown => /\ Len(Pending) = count
                         /\ \A i \in 1 .. count : Pending[i] = tasks[Nth(i)]
<1>1. CASE shutdown
  BY <1>1 DEF Pending
<1>2. CASE ~shutdown
  <2>1. Pending = [i \in 1 .. count |-> tasks[Nth(i)]]
    BY <1>2 DEF Pending, Nth
  <2>2. count \in Nat /\ \A i \in 1 .. count : tasks[Nth(i)] \in Task
    BY DEF TypeOK, TaskInv
  <2>. QED  BY <1>2, <2>1, <2>2
<1>. QED  BY <1>1, <1>2

\* A queued task, and only a queued task, is "waiting".
LEMMA WaitingStatus ==
  ASSUME TypeOK, TaskInv, NEW t \in Task
  PROVE  Status(t) = IF answer[t] # "accepted" THEN answer[t]
                     ELSE IF t \in finished THEN "done"
                     ELSE IF \E w \in At("busy") : doing[w] = t THEN "running"
                     ELSE IF ~shutdown /\ \E i \in 1 .. count : tasks[Nth(i)] = t THEN "waiting"
                     ELSE "dropped"
<1>1. (\E i \in 1 .. Len(Pending) : Pending[i] = t)
        <=> ~shutdown /\ \E i \in 1 .. count : tasks[Nth(i)] = t
  BY PendingSeq
<1>. QED  BY <1>1 DEF Status

\* The same of the next state.
LEMMA PendingSeqNext ==
  ASSUME TypeOK', TaskInv'
  PROVE  /\ Pending' \in Seq(Task)
         /\ shutdown' => Pending' = <<>> /\ Len(Pending') = 0
         /\ ~shutdown' => /\ Len(Pending') = count'
                          /\ \A i \in 1 .. count' : Pending'[i] = tasks'[Nth(i)']
<1>1. CASE shutdown'
  BY <1>1 DEF Pending
<1>2. CASE ~shutdown'
  <2>1. Pending' = [i \in 1 .. count' |-> tasks'[Nth(i)']]
    BY <1>2 DEF Pending, Nth
  <2>2. count' \in Nat /\ \A i \in 1 .. count' : tasks'[Nth(i)'] \in Task
    BY DEF TypeOK, TaskInv
  <2>. QED  BY <1>2, <2>1, <2>2
<1>. QED  BY <1>1, <1>2

\* What the status of a task is in the next state, in terms of the ring.
LEMMA WaitingStatusNext ==
  ASSUME TypeOK', TaskInv', NEW t \in Task
  PROVE  Status(t)' = IF answer'[t] # "accepted" THEN answer'[t]
                      ELSE IF t \in finished' THEN "done"
                      ELSE IF \E w \in At("busy")' : doing'[w] = t THEN "running"
                      ELSE IF ~shutdown' /\ \E i \in 1 .. count' : tasks'[Nth(i)'] = t
                      THEN "waiting"
                      ELSE "dropped"
<1>1. (\E i \in 1 .. Len(Pending') : Pending'[i] = t)
        <=> ~shutdown' /\ \E i \in 1 .. count' : tasks'[Nth(i)'] = t
  BY PendingSeqNext
<1>. QED  BY <1>1 DEF Status

\* A step that touches neither ring nor tasks is invisible.
LEMMA Invisible ==
  ASSUME UNCHANGED <<shutdown, ring, doing, answer, finished>>,
         At("busy")' = At("busy"), isOpen' = isOpen
  PROVE  UNCHANGED <<Pending, status, isOpen>>
<1>1. Pending' = Pending
  BY DEF Pending, ring
<1>2. \A t \in Task : Status(t)' = Status(t)
  BY <1>1 DEF Status
<1>. QED  BY <1>1, <1>2 DEF status

\* threadpool_add accepts.
LEMMA AddRefines ==
  ASSUME IndInv, IndInv', NEW t \in Task, Add(t)
  PROVE  Queue!Accept(t)
<1>1. TypeOK /\ TaskInv /\ TypeOK' /\ TaskInv'
  BY DEF IndInv
<1>2. ~shutdown /\ ~shutdown' /\ isOpen /\ isOpen' /\ count < QueueSize /\ answer[t] = "new"
      /\ answer' = [answer EXCEPT ![t] = "accepted"] /\ UNCHANGED <<doing, finished>>
      /\ count' = count + 1
  BY DEF Add, Enqueue, isOpen
<1>3. At("busy")' = At("busy")
  BY <1>1 DEF Add, Signal, At, TypeOK
<1>4. count \in Nat /\ \A i \in 1 .. count' : i \in 1 .. count \/ i = count'
  BY <1>1, <1>2 DEF TypeOK
<1>5. \A i \in 1 .. count' : tasks'[Nth(i)'] = IF i = count' THEN t ELSE tasks[Nth(i)]
  <2>1. Nth(count)' = tail
    BY <1>1, AddRing
  <2>2. \A i \in 1 .. count' : i = count' => Nth(i)' = tail
    BY <2>1 DEF Nth
  <2>. QED  BY <1>1, <1>4, <2>2, AddRing
<1>6. Pending' = Append(Pending, t)
  <2>1. Len(Pending) = count /\ Len(Pending') = count + 1
        /\ Pending \in Seq(Task) /\ Pending' \in Seq(Task)
    BY <1>1, <1>2, PendingSeq, PendingSeqNext
  <2>2. \A i \in 1 .. count : Pending'[i] = Pending[i]
    BY <1>1, <1>2, <1>4, <1>5, PendingSeq, PendingSeqNext
  <2>3. Pending'[count + 1] = t
    BY <1>1, <1>2, <1>4, <1>5, PendingSeqNext
  <2>. QED  BY <1>4, <2>1, <2>2, <2>3
<1>7. Status(t) = "new" /\ Status(t)' = "waiting"
  <2>1. t \notin finished /\ \A w \in At("busy") : doing[w] # t
    BY <1>1, <1>2 DEF TaskInv, At, TypeOK
  <2>2. \E i \in 1 .. count' : tasks'[Nth(i)'] = t
    BY <1>2, <1>4, <1>5
  <2>3. answer'[t] = "accepted"
    BY <1>1, <1>2 DEF TypeOK
  <2>. QED  BY <1>1, <1>2, <1>3, <2>1, <2>2, <2>3, WaitingStatus, WaitingStatusNext
<1>8. \A u \in Task : u # t => Status(u)' = Status(u)
  <2> SUFFICES ASSUME NEW u \in Task, u # t PROVE Status(u)' = Status(u)
    OBVIOUS
  <2>1. (\E i \in 1 .. count' : tasks'[Nth(i)'] = u) <=> \E i \in 1 .. count : tasks[Nth(i)] = u
    BY <1>2, <1>4, <1>5
  <2>2. answer'[u] = answer[u]
    BY <1>1, <1>2 DEF TypeOK
  <2>. QED  BY <1>1, <1>2, <1>3, <2>1, <2>2, WaitingStatus, WaitingStatusNext
<1>9. status' = [status EXCEPT ![t] = "waiting"] /\ status[t] = "new"
  BY <1>7, <1>8 DEF status
<1>10. Len(Pending) < QueueSize
  BY <1>1, <1>2, PendingSeq
<1>. QED  BY <1>2, <1>6, <1>9, <1>10 DEF Queue!Accept, status, isOpen

\* threadpool_add returns -1.
LEMMA RefuseRefines ==
  ASSUME IndInv, IndInv', NEW t \in Task, AddRefused(t)
  PROVE  Queue!Refuse(t)
<1>1. TypeOK /\ TaskInv /\ MainInv /\ TypeOK' /\ TaskInv'
  BY DEF IndInv
<1>2. answer[t] = "new" /\ answer' = [answer EXCEPT ![t] = "refused"]
      /\ UNCHANGED <<mpc, wpc, doing, ring, shutdown, finished>>
  BY DEF AddRefused
<1>3. Pending' = Pending /\ isOpen' = isOpen /\ At("busy")' = At("busy")
  BY <1>2 DEF Pending, ring, isOpen, At
<1>4. status' = [status EXCEPT ![t] = "refused"] /\ status[t] = "new"
  <2>1. Status(t) = "new" /\ Status(t)' = "refused"
    BY <1>1, <1>2 DEF Status, TypeOK
  <2>2. \A u \in Task : u # t => Status(u)' = Status(u)
    BY <1>1, <1>2, <1>3 DEF Status, TypeOK
  <2>. QED  BY <2>1, <2>2 DEF status
<1>5. ~isOpen \/ Len(Pending) = QueueSize
  BY <1>1, PendingSeq DEF AddRefused, isOpen, MainInv
<1>. QED  BY <1>3, <1>4, <1>5 DEF Queue!Refuse, status, isOpen

\* A thread takes the oldest task.
LEMMA TakeRefines ==
  ASSUME IndInv, IndInv', NEW w \in Worker, Take(w)
  PROVE  Queue!Begin
<1>1. TypeOK /\ TaskInv /\ MainInv /\ TypeOK' /\ TaskInv'
  BY DEF IndInv
<1>2. ~shutdown /\ ~shutdown' /\ UNCHANGED <<mpc, answer, finished>>
      /\ wpc[w] = "lock"
  BY DEF Take
<1>3. isOpen /\ isOpen'
  BY <1>1, <1>2 DEF isOpen, MainInv, Created
<1>4. At("busy")' = At("busy") \cup {w} /\ w \notin At("busy")
      /\ \A v \in At("busy") : doing'[v] = doing[v]
  BY <1>1 DEF Take, At, TypeOK
<1>5. count \in Nat \ {0} /\ count' = count - 1
      /\ doing'[w] = tasks[Nth(1)] /\ tasks' = tasks
      /\ \A i \in 1 .. count' : i + 1 \in 1 .. count /\ Nth(i)' = Nth(i + 1)
  BY <1>1, TakeRing DEF TypeOK
<1>6. Pending # <<>> /\ Head(Pending) = doing'[w] /\ Pending' = Tail(Pending)
  <2>1. Len(Pending) = count /\ Len(Pending') = count - 1
        /\ Pending \in Seq(Task) /\ Pending' \in Seq(Task)
    BY <1>1, <1>2, <1>5, PendingSeq, PendingSeqNext
  <2>2. \A i \in 1 .. count - 1 : Pending'[i] = Pending[i + 1]
    BY <1>1, <1>2, <1>5, PendingSeq, PendingSeqNext
  <2>3. Pending[1] = doing'[w]
    BY <1>1, <1>2, <1>5, PendingSeq
  <2>. QED  BY <1>5, <2>1, <2>2, <2>3
<1>7. PICK t \in Task : t = doing'[w] /\ answer[t] = "accepted" /\ t \notin finished
                         /\ t = tasks[Nth(1)]
  BY <1>1, <1>5 DEF TaskInv
<1>8. Status(t)' = "running"
  <2>1. answer'[t] = "accepted" /\ t \notin finished' /\ \E v \in At("busy")' : doing'[v] = t
    BY <1>2, <1>4, <1>7
  <2>. QED  BY <2>1 DEF Status
<1>9. \A u \in Task : u # t => Status(u)' = Status(u)
  <2> SUFFICES ASSUME NEW u \in Task, u # t PROVE Status(u)' = Status(u)
    OBVIOUS
  <2>1. (\E i \in 1 .. count' : tasks'[Nth(i)'] = u) <=> \E i \in 1 .. count : tasks[Nth(i)] = u
    <3>1. \A i \in 1 .. count : i = 1 \/ (i - 1 \in 1 .. count' /\ (i - 1) + 1 = i)
      BY <1>5
    <3>2. \A i \in 1 .. count : i # 1 => tasks'[Nth(i - 1)'] = tasks[Nth(i)]
      BY <1>5, <3>1
    <3>. QED  BY <1>5, <1>7, <3>1, <3>2
  <2>2. (\E v \in At("busy")' : doing'[v] = u) <=> \E v \in At("busy") : doing[v] = u
    BY <1>4, <1>7
  <2>. QED  BY <1>1, <1>2, <2>1, <2>2, WaitingStatus, WaitingStatusNext
<1>10. status' = [status EXCEPT ![t] = "running"]
  BY <1>7, <1>8, <1>9 DEF status
<1>. QED  BY <1>3, <1>6, <1>7, <1>10 DEF Queue!Begin, status, isOpen

\* A task returns.
LEMMA ReturnRefines ==
  ASSUME IndInv, IndInv', NEW w \in Worker, Return(w)
  PROVE  doing[w] \in Task /\ Queue!Finish(doing[w])
<1>1. TypeOK /\ TaskInv /\ TypeOK' /\ TaskInv'
  BY DEF IndInv
<1>2. UNCHANGED <<mpc, shutdown, ring, answer>> /\ finished' = finished \cup {doing[w]}
  BY DEF Return
<1>3. At("busy")' = At("busy") \ {w} /\ w \in At("busy")
      /\ \A v \in Worker : v # w => doing'[v] = doing[v]
  BY <1>1 DEF Return, At, TypeOK
<1>4. Pending' = Pending /\ isOpen' = isOpen
  BY <1>2 DEF Pending, ring, isOpen
<1>5. PICK t \in Task : t = doing[w] /\ answer[t] = "accepted" /\ t \notin finished
  BY <1>1, <1>3 DEF TaskInv, At
<1>6. Status(t) = "running" /\ Status(t)' = "done"
  BY <1>2, <1>3, <1>5 DEF Status
<1>7. \A u \in Task : u # t => Status(u)' = Status(u)
  <2> SUFFICES ASSUME NEW u \in Task, u # t PROVE Status(u)' = Status(u)
    OBVIOUS
  <2>1. (\E v \in At("busy")' : doing'[v] = u) <=> \E v \in At("busy") : doing[v] = u
    BY <1>3, <1>5 DEF At
  <2>. QED  BY <1>2, <1>4, <1>5, <2>1 DEF Status
<1>8. status' = [status EXCEPT ![t] = "done"] /\ status[t] = "running"
  BY <1>5, <1>6, <1>7 DEF status
<1>. QED  BY <1>4, <1>5, <1>8 DEF Queue!Finish, status, isOpen

\* The pool is shut down, or was never there: what was queued is dropped.
LEMMA CloseRefines ==
  ASSUME IndInv, CreateRefused \/ CreateFails \/ Destroy
  PROVE  Queue!Close
<1>1. TypeOK /\ TaskInv /\ MainInv
  BY DEF IndInv
<1>2. isOpen /\ ~isOpen' /\ UNCHANGED <<doing, answer, finished>>
  BY <1>1 DEF CreateRefused, CreateFails, Destroy, BeginDestroy, isOpen, MainInv
<1>3. At("busy")' = At("busy")
  BY <1>1 DEF CreateRefused, CreateFails, Destroy, BeginDestroy, Broadcast, At, TypeOK
<1>4. Pending' = <<>>
  <2>1. CASE CreateRefused
    <3>1. ~shutdown' /\ count' = 0
      BY <1>1, <2>1 DEF CreateRefused, MainInv, ring
    <3>. QED  BY <3>1 DEF Pending
  <2>2. CASE CreateFails \/ Destroy
    BY <2>2 DEF CreateFails, Destroy, BeginDestroy, Pending
  <2>. QED  BY <2>1, <2>2
<1>5. \A t \in Task : Status(t)' = IF Status(t) = "waiting" THEN "dropped" ELSE Status(t)
  <2> SUFFICES ASSUME NEW t \in Task
               PROVE  Status(t)' = IF Status(t) = "waiting" THEN "dropped" ELSE Status(t)
    OBVIOUS
  <2>1. ~ \E i \in 1 .. Len(Pending') : Pending'[i] = t
    BY <1>4
  <2>2. answer[t] # "waiting"
    BY <1>1 DEF TypeOK
  <2>. QED  BY <1>2, <1>3, <2>1, <2>2 DEF Status
<1>6. status' = [t \in Task |-> IF status[t] = "waiting" THEN "dropped" ELSE status[t]]
  BY <1>5 DEF status
<1>. QED  BY <1>2, <1>4, <1>6 DEF Queue!Close, status, isOpen

\* Every step of the pool is a step of the queue, or invisible.
LEMMA QueueStep ==
  ASSUME IndInv, IndInv', [Next]_vars
  PROVE  [Queue!Next]_<<Pending, status, isOpen>>
<1>1. TypeOK /\ MainInv
  BY DEF IndInv
<1>2. CASE UNCHANGED vars
  BY <1>2, Invisible DEF vars, ring, At, isOpen
<1>3. CASE CreateRefused \/ CreateFails \/ Destroy
  BY <1>3, CloseRefines DEF Queue!Next
<1>4. CASE JoinAndFree
  <2>1. isOpen' = isOpen /\ At("busy")' = At("busy")
    BY <1>1, <1>4 DEF JoinAndFree, MainInv, isOpen, At
  <2>. QED  BY <1>4, <2>1, Invisible DEF JoinAndFree
<1>5. ASSUME NEW w \in Worker,
             CreateThread(w) \/ Sleep(w) \/ SpuriousWakeup(w) \/ Exit(w)
      PROVE  UNCHANGED <<Pending, status, isOpen>>
  <2>1. isOpen' = isOpen /\ At("busy")' = At("busy")
        /\ UNCHANGED <<shutdown, ring, doing, answer, finished>>
    BY <1>1, <1>5 DEF CreateThread, Sleep, SpuriousWakeup, Exit, isOpen, At, TypeOK
  <2>. QED  BY <2>1, Invisible
<1>6. ASSUME NEW w \in Worker, Take(w) \/ Return(w) PROVE Queue!Next
  BY <1>6, TakeRefines, ReturnRefines DEF Queue!Next
<1>7. ASSUME NEW t \in Task, Add(t) \/ AddRefused(t) PROVE Queue!Next
  BY <1>7, AddRefines, RefuseRefines DEF Queue!Next
<1>. QED  BY <1>2, <1>3, <1>4, <1>5, <1>6, <1>7 DEF Next, WorkerStep

\* The new pool is an empty queue.
LEMMA QueueInit == Init => Queue!Init
<1> SUFFICES ASSUME Init PROVE Queue!Init
  OBVIOUS
<1>1. Pending = <<>>
  BY DEF Init, Pending
<1>2. \A t \in Task : Status(t) = "new"
  BY DEF Init, Status
<1>. QED  BY <1>1, <1>2 DEF Init, Queue!Init

\* For any number of threads and tasks and any size of the ring, pool.c
\* implements the bounded first-in first-out queue.
THEOREM Refinement == Spec => ImplementsQueue
<1>1. IndInv /\ IndInv' /\ [Next]_vars
        => [Queue!Next]_<<Pending, [t \in Task |-> Status(t)], ~shutdown /\ mpc # "null">>
  BY QueueStep DEF status, isOpen
<1>. QED  BY <1>1, QueueInit, Invariance, PTL DEF Spec, ImplementsQueue, Queue!Spec
=============================================================================
