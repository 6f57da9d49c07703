----------------------------- MODULE TaskQueue -----------------------------
(***************************************************************************)
(* What the work pool of ctforged promises its callers: a bounded first-in *)
(* first-out queue.  A submission is accepted or refused at once; accepted *)
(* tasks begin in the order of their acceptance, each at most once; only   *)
(* closing the queue drops tasks that have not begun.                      *)
(***************************************************************************)
EXTENDS Naturals, Sequences

CONSTANTS Task,       \* submissions (one call of threadpool_add each)
          QueueSize   \* accepted tasks that may wait

VARIABLES waiting,    \* accepted tasks that have not begun, oldest first
          status,     \* what became of each submission
          isOpen      \* the queue still accepts and starts tasks

Statuses == {"new", "refused", "waiting", "running", "done", "dropped"}

Init ==
  /\ waiting = <<>>
  /\ status = [t \in Task |-> "new"]
  /\ isOpen = TRUE

Accept(t) ==
  /\ isOpen /\ status[t] = "new" /\ Len(waiting) < QueueSize
  /\ waiting' = Append(waiting, t)
  /\ status' = [status EXCEPT ![t] = "waiting"]
  /\ UNCHANGED isOpen

Refuse(t) ==
  /\ status[t] = "new"
  /\ ~isOpen \/ Len(waiting) = QueueSize
  /\ status' = [status EXCEPT ![t] = "refused"]
  /\ UNCHANGED <<waiting, isOpen>>

Begin ==
  /\ isOpen /\ waiting # <<>>
  /\ waiting' = Tail(waiting)
  /\ status' = [status EXCEPT ![Head(waiting)] = "running"]
  /\ UNCHANGED isOpen

Finish(t) ==
  /\ status[t] = "running"
  /\ status' = [status EXCEPT ![t] = "done"]
  /\ UNCHANGED <<waiting, isOpen>>

Close ==
  /\ isOpen
  /\ isOpen' = FALSE
  /\ waiting' = <<>>
  /\ status' = [t \in Task |-> IF status[t] = "waiting" THEN "dropped" ELSE status[t]]

Next ==
  \/ \E t \in Task : Accept(t) \/ Refuse(t) \/ Finish(t)
  \/ Begin
  \/ Close

Spec == Init /\ [][Next]_<<waiting, status, isOpen>>
=============================================================================
