---------------------------- MODULE AgentCommands ----------------------------
(***************************************************************************)
(* Commands of the server that the agent executes and answers: Request and *)
(* dispatch of agentconn.go, the serving loop and handle_command of        *)
(* agent.c, ctc_cmd_exec_json of sysops.c.                                 *)
(*                                                                         *)
(* The agent has one thread for all of it: while a command runs, or a      *)
(* write to a terminal or a forwarded connection blocks, it sends no       *)
(* heartbeat and reads nothing.  Time is counted in ticks, and what is due *)
(* is done before the next tick.  Every call of Request has its own id     *)
(* (the time in nanoseconds).                                              *)
(***************************************************************************)
EXTENDS Naturals, Sequences

CONSTANTS
  Id,             \* calls of Request
  Commands,       \* what they ask for: [type, limit, wait, does]
  QuickWait,      \* how long Request waits for an operation that takes no time
  Slack,          \* how much longer than the limit of a shell command it waits
  Interval,       \* heartbeat_interval
  ReadDeadline,   \* the longest silence of the agent the server bears
  Nil

\* type  "quick": an operation that takes no time; "popen": one that reads the
\*       output of a program under timeout(1); "exec", "task": a shell command
\*       under ctc_cmd_exec_json; "silent": gets no answer
\* limit how long the program may run
\* wait  how long the handler of a "popen" operation waits for it
\* does  what it does: "ends", "hangs" until it is killed, "escapes" the limit
\*       (closes its outputs and goes on; ignores the signal of timeout(1)),
\*       "floods" (prints more than the buffer of task_run holds)
Programs == {"popen", "exec", "task"}

CommandType == [type : {"quick", "popen", "exec", "task", "silent"}, limit : Nat,
                wait : Nat \ {0}, does : {"ends", "hangs", "escapes", "floods"}]

Frames == [type : {"answer", "broken", "note"}, id : Id \cup {Nil}]
Results == [type : {"answer", "timeout", "error"}, id : Id \cup {Nil}]
Jobs == [id : Id \cup {Nil}, cmd : CommandType, at : {"read", "wait"}, ran : Nat]

ASSUME CommandsAssumption ==
  /\ Commands \subseteq CommandType
  /\ Slack \in Nat \ {0} /\ QuickWait \in Nat \ {0} /\ Interval \in Nat \ {0}
  /\ ReadDeadline \in Nat \ {0}

ASSUME NilAssumption ==
  Nil \notin Id /\ Nil \notin Commands /\ Nil \notin Frames /\ Nil \notin Jobs

VARIABLES
  link,      \* "up", or "cut" once the server has closed it
  silent,    \* ticks since the server last read a frame
  toAgent, toServer,
  reader,    \* the frame dispatch has a channel for, Nil when it reads
  pc,        \* Request: "idle", "wait", "done"
  asked,     \* its command
  left,      \* ticks until it gives up
  pending,   \* ac.pending: the ids with a channel
  ch,        \* what is in the channel
  got,       \* what it returned: the answer, or "timeout" or "error"
  alone,     \* the ids that were sent when nothing else was under way
  hb,        \* agent: ticks since its last heartbeat
  job,       \* what it waits for: [id, cmd, at, ran], or Nil
  finished,  \* ids whose command the agent has finished
  checked,   \* the loop has looked for anomalies since the last tick
  held       \* history: at the last tick it waited for what has no limit, or too long a one

server == <<link, silent, toServer, reader>>
calls == <<pc, asked, left, pending, ch, got, alone>>
loop == <<checked, held>>
agent == <<hb, job, finished, loop>>
vars == <<link, silent, toAgent, toServer, reader, pc, asked, left, pending, ch, got,
          alone, hb, job, finished, checked, held>>

Note == [type |-> "note", id |-> Nil]      \* heartbeat, metrics, log
Frame(type, i) == [type |-> type, id |-> i]

-----------------------------------------------------------------------------
(* Server.                                                                  *)

\* Mutant: the server waits no longer than the command may run.
WaitExactly(c) == CASE c.type \in {"exec", "task"} -> c.limit
                    [] c.type = "popen" -> c.wait
                    [] OTHER -> QuickWait

\* A shell command is waited for longer than it may run; every other operation
\* has a fixed time, which no rule ties to the limits the agent gives its programs.
Wait(c) == CASE c.type \in {"exec", "task"} -> c.limit + Slack
             [] c.type = "popen" -> c.wait
             [] OTHER -> QuickWait

\* The channel is stored, then the request written.
Request(i, c) ==
  /\ pc[i] = "idle"
  /\ asked' = [asked EXCEPT ![i] = c]
  /\ IF link = "up"
     THEN /\ pc' = [pc EXCEPT ![i] = "wait"]
          /\ left' = [left EXCEPT ![i] = Wait(c)]
          /\ pending' = pending \cup {i}
          /\ toAgent' = Append(toAgent, i)
          /\ alone' = IF job = Nil /\ toAgent = <<>> /\ toServer = <<>> /\ silent < ReadDeadline
                      THEN alone \cup {i} ELSE alone
          /\ UNCHANGED got
     ELSE /\ pc' = [pc EXCEPT ![i] = "done"]
          /\ got' = [got EXCEPT ![i] = Frame("error", Nil)]
          /\ UNCHANGED <<left, pending, toAgent, alone>>
  /\ UNCHANGED <<server, ch, agent>>

Return(i, what) ==
  /\ pc' = [pc EXCEPT ![i] = "done"]
  /\ got' = [got EXCEPT ![i] = what]
  /\ pending' = pending \ {i}
  /\ UNCHANGED <<server, toAgent, asked, left, alone, agent>>

\* Mutant: the request waits as long as the connection lasts.
TimedOutWithLink(i) ==
  pc[i] = "wait" /\ left[i] = 0 /\ link = "cut" /\ Return(i, Frame("timeout", Nil)) /\ UNCHANGED ch

Answered(i) == pc[i] = "wait" /\ ch[i] # Nil /\ Return(i, ch[i]) /\ UNCHANGED ch
TimedOut(i) == pc[i] = "wait" /\ left[i] = 0 /\ Return(i, Frame("timeout", Nil)) /\ UNCHANGED ch

\* The server closes the connection.  What the agent has received it still has.
Cut == link' = "cut" /\ toServer' = <<>> /\ reader' = Nil /\ UNCHANGED toAgent

\* Mutant: the answer goes to whoever waits longest.
dispatch_any ==
  /\ reader = Nil /\ toServer # <<>>
  /\ LET f == Head(toServer)
     IN  IF f.type = "broken" THEN Cut /\ UNCHANGED pending
         ELSE /\ toServer' = Tail(toServer)
              /\ IF f.id # Nil /\ pending # {}
                 THEN \E i \in pending : reader' = [f EXCEPT !.id = i] /\ pending' = pending \ {i}
                 ELSE UNCHANGED <<reader, pending>>
              /\ UNCHANGED <<link, toAgent>>
  /\ silent' = 0
  /\ UNCHANGED <<pc, asked, left, ch, got, alone, agent>>

\* A frame that is not JSON ends the connection.  The channel is taken out of
\* pending before the answer is sent to it.
dispatch ==
  /\ reader = Nil /\ toServer # <<>>
  /\ LET f == Head(toServer)
     IN  IF f.type = "broken" THEN Cut /\ UNCHANGED pending
         ELSE /\ toServer' = Tail(toServer)
              /\ reader' = IF f.id \in pending THEN f ELSE Nil
              /\ pending' = pending \ {f.id}
              /\ UNCHANGED <<link, toAgent>>
  /\ silent' = 0
  /\ UNCHANGED <<pc, asked, left, ch, got, alone, agent>>

\* Mutant: the channel has no buffer.
SendWithReceiver ==
  /\ reader # Nil /\ ch[reader.id] = Nil /\ pc[reader.id] = "wait"
  /\ ch' = [ch EXCEPT ![reader.id] = reader]
  /\ reader' = Nil
  /\ UNCHANGED <<link, silent, toAgent, toServer, pc, asked, left, pending, got, alone, agent>>

\* The channel holds one answer.
Send ==
  /\ reader # Nil /\ ch[reader.id] = Nil
  /\ ch' = [ch EXCEPT ![reader.id] = reader]
  /\ reader' = Nil
  /\ UNCHANGED <<link, silent, toAgent, toServer, pc, asked, left, pending, got, alone, agent>>

\* The read deadline.
TooSilent ==
  /\ link = "up" /\ silent = ReadDeadline /\ toServer = <<>>
  /\ Cut /\ UNCHANGED <<silent, calls, agent>>

-----------------------------------------------------------------------------
(* Agent: the serving loop.                                                 *)

InLoop == link = "up" /\ job = Nil

\* Mutant: the loop waits for the next command without a timeout.
HeartbeatWithCommand == hb = Interval /\ toAgent # <<>>

HeartbeatDue == hb = Interval

Heartbeat ==
  /\ InLoop /\ HeartbeatDue
  /\ toServer' = Append(toServer, Note)
  /\ hb' = 0
  /\ UNCHANGED <<link, silent, toAgent, reader, calls, job, finished, loop>>

\* The loop counts failed logins with programs of its own, which have no limit.
Anomaly == [type |-> "silent", limit |-> 0, wait |-> QuickWait, does |-> "ends"]

AnomalyCheck ==
  /\ InLoop /\ ~HeartbeatDue /\ ~checked
  /\ checked' = TRUE
  /\ job' = [id |-> Nil, cmd |-> Anomaly, at |-> "wait", ran |-> 0]
  /\ UNCHANGED <<server, toAgent, calls, hb, finished, held>>

\* What the agent writes to a connection that is closed is lost.
Sent(f) == IF link = "up" THEN Append(toServer, f) ELSE toServer

\* What handle_command does with a command that needs no shell: it has its
\* result at once, and sends it as ack or error.
Operation(i) ==
  /\ toServer' = Sent(Frame("answer", i))
  /\ finished' = finished \cup {i}
  /\ UNCHANGED <<hb, job>>

\* A terminal or forwarding message, ping (its pong wakes no request), an
\* unknown type, task_run without a command.  The write to the shell or to the
\* forwarded connection may block, without a limit.
NoAnswer(i) ==
  /\ \/ UNCHANGED job
     \/ job' = [id |-> i, cmd |-> asked[i], at |-> "wait", ran |-> 0]
  /\ UNCHANGED <<toServer, hb, finished>>

\* Packages, services, containers, the system log run a program, cmd_exec and
\* task_run a shell command; only cmd_exec announces it in the log.
StartProgram(i) ==
  /\ toServer' = IF asked[i].type = "exec" THEN Sent(Note) ELSE toServer
  /\ job' = [id |-> i, cmd |-> asked[i], at |-> "read", ran |-> 0]
  /\ UNCHANGED <<hb, finished>>

\* Also of what had been received before the server closed the connection.
handle_command ==
  /\ job = Nil /\ toAgent # <<>> /\ (link = "up" => ~HeartbeatDue)
  /\ toAgent' = Tail(toAgent)
  /\ LET i == Head(toAgent)
     IN  CASE asked[i].type = "quick"  -> Operation(i)
           [] asked[i].type = "silent" -> NoAnswer(i)
           [] OTHER -> StartProgram(i)
  /\ UNCHANGED <<link, silent, reader, calls, loop>>

\* The agent finds its connection closed, connects and registers again; what it
\* had not read of the old connection is lost when that was reset.
Reconnect ==
  /\ link = "cut" /\ job = Nil
  /\ link' = "up" /\ silent' = 0 /\ hb' = Interval /\ toAgent' = <<>>
  /\ UNCHANGED <<toServer, reader, calls, job, finished, loop>>

-----------------------------------------------------------------------------
(* Agent: what it waits for.  "read": the outputs of a program are read;    *)
(* "wait": nothing ends it any more (waitpid, pclose, a write that blocks). *)

\* The answer of task_run is built in a buffer; what does not fit is cut off.
AnswerType(c) == IF c.type = "task" /\ c.does = "floods" THEN "broken" ELSE "answer"

Finish ==
  /\ job' = Nil
  /\ finished' = finished \cup {job.id}
  /\ toServer' = Sent(Frame(AnswerType(job.cmd), job.id))
  /\ UNCHANGED <<link, silent, toAgent, reader, calls, hb, loop>>

Reading == job # Nil /\ job.at = "read"

Ends == Reading /\ job.cmd.does \in {"ends", "floods"} /\ Finish

Escapes ==
  /\ Reading /\ job.cmd.does = "escapes"
  /\ job' = [job EXCEPT !.at = "wait"]
  /\ UNCHANGED <<server, toAgent, calls, hb, finished, loop>>

\* The deadline: the process group is killed, and waitpid returns; the same
\* from timeout(1).
Kill == Reading /\ job.ran >= job.cmd.limit /\ Finish

Waiting == job # Nil /\ job.at = "wait"

waitpid == Waiting /\ job.cmd.type \in Programs /\ Finish

\* The write is taken, the loop's own program ends: nobody is told.
Unblocks ==
  /\ Waiting /\ job.cmd.type = "silent"
  /\ job' = Nil
  /\ UNCHANGED <<server, toAgent, calls, hb, finished, loop>>

-----------------------------------------------------------------------------

Due == \/ reader # Nil \/ toServer # <<>>
       \/ link = "up" /\ silent = ReadDeadline
       \/ InLoop /\ (HeartbeatDue \/ toAgent # <<>>)
       \/ Reading /\ job.ran >= job.cmd.limit
       \/ \E i \in Id : pc[i] = "wait" /\ (left[i] = 0 \/ ch[i] # Nil)

\* A command whose program may not run up to the read deadline.
Short(c) == c.type \notin Programs \/ c.limit + Interval < ReadDeadline

Least(a, b) == IF a < b THEN a ELSE b

Tick ==
  /\ ~Due
  /\ silent' = IF link = "up" THEN silent + 1 ELSE silent
  /\ hb' = Least(hb + 1, Interval)
  /\ left' = [i \in Id |-> IF pc[i] = "wait" THEN left[i] - 1 ELSE left[i]]
  /\ job' = IF Reading THEN [job EXCEPT !.ran = @ + 1] ELSE job
  /\ checked' = FALSE
  /\ held' = (Waiting \/ (job # Nil /\ ~Short(job.cmd)))
  /\ alone' = IF job # Nil /\ job.id = Nil THEN {i \in alone : pc[i] # "wait"} ELSE alone
  /\ UNCHANGED <<link, toAgent, toServer, reader, pc, asked, pending, ch, got, finished>>

Init ==
  /\ link = "up" /\ silent = 0 /\ toAgent = <<>> /\ toServer = <<>> /\ reader = Nil
  /\ pc = [i \in Id |-> "idle"]
  /\ asked = [i \in Id |-> Nil]
  /\ left = [i \in Id |-> 0]
  /\ pending = {}
  /\ ch = [i \in Id |-> Nil]
  /\ got = [i \in Id |-> Nil]
  /\ alone = {}
  /\ hb = Interval /\ job = Nil /\ finished = {} /\ checked = FALSE /\ held = FALSE

Server == dispatch \/ Send \/ TooSilent
Agent == Heartbeat \/ handle_command \/ Reconnect \/ Kill
Child == Ends \/ Escapes \/ waitpid \/ Unblocks
Next == \/ \E i \in Id, c \in Commands : Request(i, c)
        \/ \E i \in Id : Answered(i) \/ TimedOut(i)
        \/ Server \/ Agent \/ AnomalyCheck \/ Child \/ Tick

Spec == Init /\ [][Next]_vars

\* Both programs run and time passes.  A program owes nothing.
FairSpec ==
  /\ Spec
  /\ WF_vars(Server) /\ WF_vars(Agent) /\ WF_vars(Tick)
  /\ \A i \in Id : WF_vars(Answered(i) \/ TimedOut(i))

-----------------------------------------------------------------------------
(* Properties.                                                              *)

Got(i, type) == got[i] # Nil /\ got[i].type = type

TypeOK ==
  /\ link \in {"up", "cut"} /\ silent \in 0 .. ReadDeadline
  /\ toAgent \in Seq(Id) /\ toServer \in Seq(Frames) /\ reader \in Frames \cup {Nil}
  /\ pc \in [Id -> {"idle", "wait", "done"}]
  /\ asked \in [Id -> Commands \cup {Nil}]
  /\ left \in [Id -> Nat] /\ pending \subseteq Id
  /\ ch \in [Id -> Frames \cup {Nil}]
  /\ got \in [Id -> Results \cup {Nil}]
  /\ alone \subseteq Id /\ hb \in 0 .. Interval /\ finished \subseteq Id
  /\ job \in Jobs \cup {Nil} /\ (job # Nil => job.ran <= job.cmd.limit)
  /\ checked \in BOOLEAN /\ held \in BOOLEAN

\* Request returns the answer to its own command, and only once the agent has
\* finished that command: answers that come late, after others, or over a
\* connection that has been replaced reach nobody else (dispatch, pending).
OwnAnswer ==
  \A i \in Id : Got(i, "answer") => got[i].id = i /\ i \in finished

\* A command that is answered when its limit has passed, of which the handler
\* takes note.
InTime(c) ==
  \/ c.type = "quick"
  \/ /\ c.type \in Programs /\ c.does \in {"ends", "hangs"}
     /\ c.type = "popen" => c.wait > c.limit

\* The time the handlers wait is enough: a command of one program sent to an agent
\* with nothing else to do is answered before Request gives up, although the agent
\* may have to kill the program; but not one that escapes its limit, overflows the
\* answer or has a limit as long as the read deadline, nor an operation whose
\* handler waits no longer than the program may run (pkg_history), nor when the
\* loop's own check for anomalies takes time meanwhile.
SlackIsEnough ==
  \A i \in Id : (Got(i, "timeout") /\ i \in alone) => ~(InTime(asked[i]) /\ Short(asked[i]))

\* With heartbeats more often than the read deadline, the server takes an agent
\* for dead only when its thread was in a call without a limit (a program that
\* has escaped, a write that blocks, the check for anomalies), or in a program
\* that may run so long: whatever the commands, the loop sends a heartbeat
\* before the next one, and every program is killed at its deadline.
SilentOnlyWhenStuck ==
  (Interval < ReadDeadline /\ link = "up" /\ silent = ReadDeadline /\ toServer = <<>>) => held

\* dispatch gets rid of every frame, also of the answer to a request that has
\* timed out meanwhile: the one reader of the connection never stops.
ReaderGoesOn == (toServer # <<>> \/ reader # Nil) ~> (toServer = <<>> /\ reader = Nil)

\* Every Request returns.
RequestReturns == \A i \in Id : (pc[i] = "wait") ~> (pc[i] = "done")

=============================================================================
