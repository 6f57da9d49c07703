----------------------------- MODULE ThreadPool -----------------------------
(***************************************************************************)
(* pool.c: the work pool of ctforged.  A ring buffer of tasks and a fixed  *)
(* set of threads behind one mutex and one condition variable; main        *)
(* creates the pool, submits tasks and may destroy it.                     *)
(*                                                                         *)
(* A critical section of pool->lock is one step.  "lock" is a thread that  *)
(* contends for the mutex, "waiting" one inside pthread_cond_wait.         *)
(***************************************************************************)
EXTENDS Naturals, Sequences, FiniteSets

CONSTANTS Worker,     \* threads: MAX_THREADS of them
          Task,       \* calls of threadpool_add
          Endless,    \* tasks that never return (netlink_loop)
          QueueSize,  \* QUEUE_SIZE
          NoTask

ASSUME PoolAssumption ==
  /\ QueueSize \in Nat \ {0}
  /\ IsFiniteSet(Worker) /\ Worker # {}
  /\ Endless \subseteq Task
  /\ NoTask \notin Task

VARIABLES
  mpc,       \* main: "create", "run" (pool usable), "join", "null" (no pool)
  wpc,       \* threads: "none", "lock", "waiting", "busy", "exited"
  doing,     \* the local variable task of threadpool_thread
  tasks,     \* pool->tasks, a ring
  head, tail, count,
  shutdown,  \* pool->shutdown
  started,   \* pool->started
  freed,     \* threadpool_free has released the pool
  answer,    \* what threadpool_add returned for each task
  finished   \* history: tasks whose function returned

ring == <<tasks, head, tail, count>>
vars == <<mpc, wpc, doing, tasks, head, tail, count, shutdown, started, freed,
          answer, finished>>

Slot == 0 .. QueueSize - 1
Created == {w \in Worker : wpc[w] # "none"}
At(p) == {w \in Worker : wpc[w] = p}

TypeOK ==
  /\ mpc \in {"create", "run", "join", "null"}
  /\ wpc \in [Worker -> {"none", "lock", "waiting", "busy", "exited"}]
  /\ doing \in [Worker -> Task \cup {NoTask}]
  /\ tasks \in [Slot -> Task \cup {NoTask}]
  /\ head \in Slot /\ tail \in Slot /\ count \in 0 .. QueueSize
  /\ shutdown \in BOOLEAN
  /\ started \in 0 .. Cardinality(Worker)
  /\ freed \in BOOLEAN
  /\ answer \in [Task -> {"new", "accepted", "refused"}]
  /\ finished \subseteq Task

Init ==
  /\ mpc = "create"
  /\ wpc = [w \in Worker |-> "none"]
  /\ doing = [w \in Worker |-> NoTask]
  /\ tasks = [i \in Slot |-> NoTask]
  /\ head = 0 /\ tail = 0 /\ count = 0
  /\ shutdown = FALSE
  /\ started = 0
  /\ freed = FALSE
  /\ answer = [t \in Task |-> "new"]
  /\ finished = {}

-----------------------------------------------------------------------------
(* main: threadpool_create, threadpool_add, threadpool_destroy.             *)

\* The allocations or the initialisations fail: threadpool_create returns NULL.
CreateRefused ==
  /\ mpc = "create" /\ Created = {}
  /\ mpc' = "null"
  /\ UNCHANGED <<wpc, doing, ring, shutdown, started, freed, answer, finished>>

CreateThread(w) ==
  /\ mpc = "create" /\ wpc[w] = "none"
  /\ wpc' = [wpc EXCEPT ![w] = "lock"]
  /\ started' = started + 1
  /\ mpc' = IF Created \cup {w} = Worker THEN "run" ELSE "create"
  /\ UNCHANGED <<doing, ring, shutdown, freed, answer, finished>>

\* pthread_cond_broadcast: every waiter contends for the mutex again.
Broadcast == [w \in Worker |-> IF wpc[w] = "waiting" THEN "lock" ELSE wpc[w]]

\* threadpool_destroy up to its joins.
BeginDestroy ==
  /\ ~shutdown
  /\ shutdown' = TRUE
  /\ wpc' = Broadcast
  /\ mpc' = "join"
  /\ UNCHANGED <<doing, ring, started, freed, answer, finished>>

\* pthread_create fails: the threads created so far are shut down.
CreateFails == mpc = "create" /\ BeginDestroy

Destroy == mpc = "run" /\ BeginDestroy

\* Mutant: the joins go over thread_count threads, created or not.
JoinAllAndFree ==
  /\ mpc = "join"
  /\ \A w \in Worker : wpc[w] = "exited"
  /\ mpc' = "null"
  /\ freed' = (started = 0)
  /\ UNCHANGED <<wpc, doing, ring, shutdown, started, answer, finished>>

\* The last join has returned: threadpool_free, which gives up if started > 0.
JoinAndFree ==
  /\ mpc = "join"
  /\ \A w \in Created : wpc[w] = "exited"
  /\ mpc' = "null"
  /\ freed' = (started = 0)
  /\ UNCHANGED <<wpc, doing, ring, shutdown, started, answer, finished>>

\* Mutant: the signal is forgotten.
NoSignal == wpc' = wpc

\* pthread_cond_signal: one waiter, if there is any, contends for the mutex again.
Signal ==
  \/ At("waiting") = {} /\ wpc' = wpc
  \/ \E w \in At("waiting") : wpc' = [wpc EXCEPT ![w] = "lock"]

\* Mutant: the tail is advanced before the slot is filled.
EnqueueBehindTail(t) ==
  /\ tail' = (tail + 1) % QueueSize
  /\ tasks' = [tasks EXCEPT ![tail'] = t]
  /\ count' = count + 1
  /\ UNCHANGED head

Enqueue(t) ==
  /\ tasks' = [tasks EXCEPT ![tail] = t]
  /\ tail' = (tail + 1) % QueueSize
  /\ count' = count + 1
  /\ UNCHANGED head

Add(t) ==
  /\ mpc = "run" /\ answer[t] = "new"
  /\ count < QueueSize /\ ~shutdown
  /\ Enqueue(t)
  /\ Signal
  /\ answer' = [answer EXCEPT ![t] = "accepted"]
  /\ UNCHANGED <<mpc, doing, shutdown, started, freed, finished>>

\* threadpool_add returns -1: the ring is full, or there is no pool because
\* threadpool_create failed, which threadpoll_init does not report.
AddRefused(t) ==
  /\ answer[t] = "new"
  /\ \/ mpc = "run" /\ count = QueueSize
     \/ mpc = "null"
  /\ answer' = [answer EXCEPT ![t] = "refused"]
  /\ UNCHANGED <<mpc, wpc, doing, ring, shutdown, started, freed, finished>>

-----------------------------------------------------------------------------
(* threadpool_thread.                                                       *)

Sleep(w) ==
  /\ wpc[w] = "lock" /\ count = 0 /\ ~shutdown
  /\ wpc' = [wpc EXCEPT ![w] = "waiting"]
  /\ UNCHANGED <<mpc, doing, ring, shutdown, started, freed, answer, finished>>

SpuriousWakeup(w) ==
  /\ wpc[w] = "waiting"
  /\ wpc' = [wpc EXCEPT ![w] = "lock"]
  /\ UNCHANGED <<mpc, doing, ring, shutdown, started, freed, answer, finished>>

Take(w) ==
  /\ wpc[w] = "lock" /\ count > 0 /\ ~shutdown
  /\ doing' = [doing EXCEPT ![w] = tasks[head]]
  /\ head' = (head + 1) % QueueSize
  /\ count' = count - 1
  /\ wpc' = [wpc EXCEPT ![w] = "busy"]
  /\ UNCHANGED <<mpc, tasks, tail, shutdown, started, freed, answer, finished>>

\* Mutant: a thread leaves its loop after one task.
ReturnAndLeave(w) ==
  /\ wpc[w] = "busy" /\ doing[w] \notin Endless
  /\ wpc' = [wpc EXCEPT ![w] = "exited"]
  /\ started' = started - 1
  /\ doing' = [doing EXCEPT ![w] = NoTask]
  /\ finished' = finished \cup {doing[w]}
  /\ UNCHANGED <<mpc, ring, shutdown, freed, answer>>

Return(w) ==
  /\ wpc[w] = "busy" /\ doing[w] \notin Endless
  /\ wpc' = [wpc EXCEPT ![w] = "lock"]
  /\ doing' = [doing EXCEPT ![w] = NoTask]
  /\ finished' = finished \cup {doing[w]}
  /\ UNCHANGED <<mpc, ring, shutdown, started, freed, answer>>

\* Mutant: a thread that leaves does not count itself out.
ExitUncounted(w) ==
  /\ wpc[w] = "lock" /\ shutdown
  /\ wpc' = [wpc EXCEPT ![w] = "exited"]
  /\ UNCHANGED <<mpc, doing, ring, shutdown, started, freed, answer, finished>>

\* shutdown = 1 ends a thread even when tasks are queued.
Exit(w) ==
  /\ wpc[w] = "lock" /\ shutdown
  /\ wpc' = [wpc EXCEPT ![w] = "exited"]
  /\ started' = started - 1
  /\ UNCHANGED <<mpc, doing, ring, shutdown, freed, answer, finished>>

-----------------------------------------------------------------------------

WorkerStep(w) == Sleep(w) \/ Take(w) \/ Return(w) \/ Exit(w)

Next ==
  \/ CreateRefused \/ CreateFails \/ Destroy \/ JoinAndFree
  \/ \E w \in Worker : CreateThread(w) \/ WorkerStep(w) \/ SpuriousWakeup(w)
  \/ \E t \in Task : Add(t) \/ AddRefused(t)

Spec == Init /\ [][Next]_vars

\* The scheduler runs every thread that can run, and main returns from its joins.
FairSpec == Spec /\ WF_vars(JoinAndFree) /\ \A w \in Worker : WF_vars(WorkerStep(w))

-----------------------------------------------------------------------------
(* Safety.                                                                  *)

\* While a thread sleeps, the threads that contend for the mutex are at least
\* as many as the queued tasks: the one signal per threadpool_add never leaves
\* a task behind with everybody asleep.  After the shutdown nobody sleeps.
NoLostWakeup ==
  At("waiting") # {} => ~shutdown /\ Cardinality(At("lock")) >= count

\* The pool is freed only when no thread can touch it any more (threadpool_free
\* after the joins), and destroying it never leaks it: started is back to 0.
FreedWhenQuiet ==
  /\ freed => \A w \in Created : wpc[w] = "exited"
  /\ mpc = "null" /\ Created # {} => freed

-----------------------------------------------------------------------------
(* The pool implements the bounded first-in first-out queue.                *)

Pending == IF shutdown THEN <<>>
           ELSE [i \in 1 .. count |-> tasks[(head + i - 1) % QueueSize]]

Status(t) ==
  IF answer[t] # "accepted" THEN answer[t]
  ELSE IF t \in finished THEN "done"
  ELSE IF \E w \in At("busy") : doing[w] = t THEN "running"
  ELSE IF \E i \in 1 .. Len(Pending) : Pending[i] = t THEN "waiting"
  ELSE "dropped"

Queue == INSTANCE TaskQueue WITH
           waiting <- Pending,
           status  <- [t \in Task |-> Status(t)],
           isOpen  <- ~shutdown /\ mpc # "null"

\* Every step of pool.c is a step of the bounded FIFO queue or invisible to it:
\* no accepted task is lost, overtaken or run twice, whatever the ring's position.
ImplementsQueue == Queue!Spec

-----------------------------------------------------------------------------
(* Liveness.                                                                *)

\* An accepted task is begun unless the pool is destroyed first.  It needs a
\* thread that is not held by an endless task, as ctforged has.
AcceptedRuns == \A t \in Task : Status(t) = "waiting" ~> Status(t) # "waiting"

\* threadpool_destroy returns when no thread is held by an endless task.
DestroyEnds ==
  (mpc = "join" /\ \A w \in At("busy") : doing[w] \notin Endless) ~> mpc = "null"
=============================================================================
