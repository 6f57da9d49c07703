------------------------- MODULE AgentCommands_proofs -------------------------
(***************************************************************************)
(* Proofs, for every set of requests and commands and every choice of the  *)
(* intervals, that a request gets its own answer or none, that the server  *)
(* takes only a stuck agent for dead, and that it waits long enough for    *)
(* the commands it gives some slack.                                       *)
(***************************************************************************)
EXTENDS AgentCommands, TLAPS

\* The life of an id: it is in a queue, runs or is finished only after its
\* request was made, and the command that runs is the one it was made with.
IdInv ==
  /\ \A i \in Id : pc[i] = "idle" => i \notin finished /\ got[i] = Nil /\ i \notin alone
  /\ \A i \in Id : pc[i] # "idle" => asked[i] \in Commands
  /\ \A n \in 1 .. Len(toAgent) : pc[toAgent[n]] # "idle"
  /\ Reading => job.cmd.type \in Programs
  /\ (job # Nil /\ job.cmd.type \in Programs) => job.id \in Id
  /\ (job # Nil /\ job.id # Nil) => pc[job.id] # "idle" /\ job.cmd = asked[job.id]

\* Frames, the reader's hand and the channels hold answers to the id they
\* carry, of commands that are finished.
AnswerInv ==
  /\ \A n \in 1 .. Len(toServer) :
       IF toServer[n].type = "note" THEN toServer[n].id = Nil
       ELSE toServer[n].id \in finished
  /\ reader # Nil => reader.type = "answer" /\ reader.id \in finished
  /\ \A i \in Id : ch[i] # Nil => ch[i].type = "answer" /\ ch[i].id = i /\ i \in finished

\* The agent owes the server at most one interval of silence, unless a heartbeat
\* is due, and a program it reads from no more than it has run.  At a tick that
\* made the silence too long it was held up.
SilenceInv ==
  /\ reader # Nil => silent = 0
  /\ (link = "up" /\ toServer = <<>>) =>
       /\ (job = Nil \/ job.cmd.type \notin Programs) => silent <= hb \/ hb = Interval
       /\ Reading => silent + 1 <= Interval + job.ran

\* The requests SlackIsEnough is about, while they wait.
Owed(i) == pc[i] = "wait" /\ i \in alone /\ InTime(asked[i]) /\ Short(asked[i])

Unbroken(n) == \A m \in 1 .. n : toServer[m].type # "broken"

\* Where such a request may be, and how much time it has left there.
Queued(i) ==
  /\ link = "up" /\ (job # Nil => job.id = Nil) /\ silent < ReadDeadline
  /\ toAgent # <<>> /\ Head(toAgent) = i
  /\ i \in pending /\ i \notin finished /\ Unbroken(Len(toServer))
  /\ left[i] = Wait(asked[i])
Running(i) ==
  /\ link = "up" /\ Reading /\ job.id = i
  /\ i \in pending /\ i \notin finished /\ Unbroken(Len(toServer))
  /\ left[i] + job.ran = Wait(asked[i])
Coming(i) ==
  /\ i \in pending /\ left[i] > 0
  /\ \E n \in 1 .. Len(toServer) : toServer[n].id = i /\ Unbroken(n)
InHand(i) == left[i] > 0 /\ ((reader # Nil /\ reader.id = i) \/ ch[i] # Nil)

Place(i) == Queued(i) \/ Running(i) \/ Coming(i) \/ InHand(i)

OwedInv == \A i \in Id : Owed(i) => Place(i)

IndInv ==
  /\ TypeOK /\ IdInv /\ AnswerInv /\ SilenceInv /\ OwedInv
  /\ OwnAnswer /\ SlackIsEnough /\ SilentOnlyWhenStuck

-----------------------------------------------------------------------------
(* Every step keeps the types.                                              *)

\* The constants, without the types of the commands.
LEMMA Constants ==
  /\ Slack \in Nat /\ QuickWait \in Nat /\ Interval \in Nat /\ ReadDeadline \in Nat
  /\ Slack > 0 /\ QuickWait > 0 /\ Interval > 0 /\ ReadDeadline > 0
  /\ \A c \in Commands : c.limit \in Nat /\ c.wait \in Nat /\ c.wait > 0
BY CommandsAssumption DEF CommandType

\* A command is waited for at least one tick.
LEMMA WaitPositive ==
  ASSUME NEW c \in Commands
  PROVE  Wait(c) \in Nat /\ Wait(c) > 0
BY Constants DEF Wait

\* Cutting the connection empties it.
LEMMA CutTypes ==
  ASSUME TypeOK, Cut
  PROVE  /\ link' = "cut" /\ toAgent' \in Seq(Id) /\ toServer' \in Seq(Frames)
         /\ reader' = Nil
BY DEF Cut, TypeOK

\* The job that runs is a record of its four fields.
LEMMA JobFields ==
  ASSUME TypeOK, job # Nil
  PROVE  /\ job \in Jobs /\ job.id \in Id \cup {Nil} /\ job.cmd \in CommandType
         /\ job.at \in {"read", "wait"} /\ job.ran \in Nat
         /\ job.cmd.limit \in Nat /\ job.ran <= job.cmd.limit
BY Constants DEF TypeOK, Jobs, CommandType

\* The loop's own programs are a job.
LEMMA AnomalyJob ==
  ASSUME NEW j, j = [id |-> Nil, cmd |-> Anomaly, at |-> "wait", ran |-> 0]
  PROVE  /\ j \in Jobs /\ j # Nil /\ j.id = Nil /\ j.at = "wait" /\ j.ran <= j.cmd.limit
         /\ j.cmd.type \notin Programs
<1>1. Anomaly \in CommandType /\ Anomaly.limit = 0 /\ Anomaly.type = "silent"
  BY Constants DEF Anomaly, CommandType
<1>2. j \in Jobs
  BY <1>1 DEF Jobs
<1>. QED  BY <1>1, <1>2, NilAssumption DEF Programs

\* A request does not disturb the types.
LEMMA RequestTypes ==
  ASSUME TypeOK, NEW i \in Id, NEW c \in Commands, Request(i, c)
  PROVE  TypeOK'
<1>1. asked' \in [Id -> Commands \cup {Nil}] /\ pc' \in [Id -> {"idle", "wait", "done"}]
  BY DEF TypeOK, Request
<1>2. CASE link = "up"
  <2>1. /\ left' = [left EXCEPT ![i] = Wait(c)] /\ left \in [Id -> Nat]
        /\ toAgent' = Append(toAgent, i) /\ toAgent \in Seq(Id)
        /\ pending' = pending \cup {i}
        /\ alone' = alone \/ alone' = alone \cup {i}
        /\ got' = got
    BY <1>2 DEF Request, TypeOK
  <2>2. left' \in [Id -> Nat]
    BY <2>1, WaitPositive
  <2>3. toAgent' \in Seq(Id)
    BY <2>1
  <2>. QED  BY <1>1, <2>1, <2>2, <2>3 DEF TypeOK, Request, server, agent, loop
<1>3. CASE link # "up"
  <2>1. Frame("error", Nil) \in Results
    BY DEF Frame, Results
  <2>2. got' \in [Id -> Results \cup {Nil}]
    BY <1>3, <2>1 DEF TypeOK, Request
  <2>. QED  BY <1>1, <1>3, <2>2 DEF TypeOK, Request, server, agent, loop
<1>. QED  BY <1>2, <1>3

\* Nor does its return.
LEMMA ReturnTypes ==
  ASSUME TypeOK, AnswerInv, NEW i \in Id, Answered(i) \/ TimedOut(i)
  PROVE  TypeOK'
<1>1. CASE Answered(i)
  <2>1. ch[i] \in Results
    BY <1>1 DEF TypeOK, Answered, AnswerInv, Frames, Results
  <2>. QED  BY <1>1, <2>1 DEF TypeOK, Return, server, agent, loop, Answered
<1>2. CASE TimedOut(i)
  <2>1. Frame("timeout", Nil) \in Results
    BY DEF Frame, Results
  <2>. QED  BY <1>2, <2>1 DEF TypeOK, Return, server, agent, loop, TimedOut
<1>. QED  BY <1>1, <1>2

\* Nor do the steps of the connection's reader.
LEMMA ServerTypes ==
  ASSUME TypeOK, Server
  PROVE  TypeOK'
<1>1. CASE dispatch
  <2>0. 0 \in 0 .. ReadDeadline
    BY Constants
  <2>1. Head(toServer) \in Frames /\ Tail(toServer) \in Seq(Frames)
    BY <1>1 DEF TypeOK, dispatch
  <2>2. CASE Head(toServer).type = "broken"
    <3>1. Cut /\ pending' = pending
      BY <1>1, <2>2 DEF dispatch
    <3>. QED  BY <1>1, <2>0, <3>1, CutTypes DEF TypeOK, dispatch, agent, loop
  <2>3. CASE Head(toServer).type # "broken"
    <3>1. /\ reader' = Head(toServer) \/ reader' = Nil
          /\ pending' = pending \ {Head(toServer).id} /\ toServer' = Tail(toServer)
          /\ link' = link /\ toAgent' = toAgent
      BY <1>1, <2>3 DEF dispatch
    <3>. QED  BY <1>1, <2>0, <2>1, <3>1 DEF TypeOK, dispatch, agent, loop
  <2>. QED  BY <2>2, <2>3
<1>2. CASE Send
  BY <1>2 DEF TypeOK, Send, agent, loop
<1>3. CASE TooSilent
  BY <1>3, CutTypes DEF TypeOK, TooSilent, calls, agent, loop
<1>. QED  BY <1>1, <1>2, <1>3 DEF Server

\* Nor does the end of a program.
LEMMA FinishTypes ==
  ASSUME TypeOK, job # Nil, job.id \in Id, Finish
  PROVE  TypeOK'
<1>1. Frame(AnswerType(job.cmd), job.id) \in Frames
  BY DEF Frame, AnswerType, Frames
<1>2. toServer' \in Seq(Frames)
  BY <1>1 DEF Finish, Sent, TypeOK
<1>. QED  BY <1>2 DEF Finish, TypeOK, calls, loop

\* A program that ends was run for a request.
LEMMA Ending ==
  ASSUME IdInv, Kill \/ Ends \/ waitpid
  PROVE  job # Nil /\ job.id \in Id /\ job.cmd.type \in Programs /\ Finish
BY DEF IdInv, Kill, Ends, waitpid, Reading, Waiting

\* The next command the agent handles.
LEMMA NextCommand ==
  ASSUME TypeOK, IdInv, toAgent # <<>>
  PROVE  /\ Head(toAgent) \in Id /\ Tail(toAgent) \in Seq(Id)
         /\ pc[Head(toAgent)] # "idle" /\ asked[Head(toAgent)] \in Commands
<1>1. Head(toAgent) \in Id /\ Tail(toAgent) \in Seq(Id) /\ 1 \in 1 .. Len(toAgent)
      /\ Head(toAgent) = toAgent[1]
  BY DEF TypeOK
<1>. QED  BY <1>1 DEF IdInv

\* The three ways it is handled.
LEMMA CommandCases ==
  ASSUME handle_command
  PROVE  LET i == Head(toAgent)
         IN  \/ asked[i].type = "quick" /\ Operation(i)
             \/ asked[i].type = "silent" /\ NoAnswer(i)
             \/ asked[i].type \notin {"quick", "silent"} /\ StartProgram(i)
BY DEF handle_command

\* Nor do the agent's steps.
LEMMA AgentTypes ==
  ASSUME TypeOK, IdInv, Agent \/ AnomalyCheck \/ Child
  PROVE  TypeOK'
<1>1. CASE Heartbeat
  <2>1. Note \in Frames /\ 0 \in 0 .. Interval
    BY Constants DEF Note, Frames
  <2>2. toServer' \in Seq(Frames)
    BY <1>1, <2>1 DEF TypeOK, Heartbeat
  <2>. QED  BY <1>1, <2>1, <2>2 DEF TypeOK, Heartbeat, calls, loop
<1>2. CASE handle_command
  <2>1. PICK i \in Id : i = Head(toAgent) /\ asked[i] \in Commands /\ Tail(toAgent) \in Seq(Id)
    BY <1>2, NextCommand DEF handle_command
  <2>2. Note \in Frames /\ Frame("answer", i) \in Frames
    BY DEF Note, Frame, Frames
  <2>3. ASSUME toServer' \in Seq(Frames), finished' \subseteq Id, hb' = hb,
               job' \in Jobs \cup {Nil}, job' # Nil => job'.ran <= job'.cmd.limit
        PROVE  TypeOK'
    BY <1>2, <2>1, <2>3 DEF TypeOK, handle_command, calls, loop
  <2>4. CASE Operation(i)
    <3>1. toServer' \in Seq(Frames) /\ finished' \subseteq Id
      BY <2>4, <2>2 DEF Operation, Sent, TypeOK
    <3>. QED  BY <2>3, <2>4, <3>1 DEF Operation, TypeOK
  <2>j. \A at \in {"read", "wait"} :
          LET j == [id |-> i, cmd |-> asked[i], at |-> at, ran |-> 0]
          IN  j \in Jobs /\ j.ran <= j.cmd.limit
    <3>1. asked[i] \in CommandType /\ 0 <= asked[i].limit
      BY <2>1, CommandsAssumption, Constants
    <3>. QED  BY <3>1 DEF Jobs
  <2>5. CASE NoAnswer(i)
    <3>1. job' \in Jobs \cup {Nil} /\ (job' # Nil => job'.ran <= job'.cmd.limit)
      BY <2>5, <2>j DEF NoAnswer, TypeOK
    <3>. QED  BY <2>3, <2>5, <3>1 DEF NoAnswer, TypeOK
  <2>6. CASE StartProgram(i)
    <3>1. job' \in Jobs /\ job'.ran <= job'.cmd.limit
      BY <2>6, <2>j DEF StartProgram
    <3>2. toServer' \in Seq(Frames)
      BY <2>6, <2>2 DEF StartProgram, Sent, TypeOK
    <3>. QED  BY <2>3, <2>6, <3>1, <3>2 DEF StartProgram, TypeOK
  <2>. QED  BY <1>2, <2>1, <2>4, <2>5, <2>6, CommandCases
<1>3. CASE Reconnect
  BY <1>3, Constants DEF Reconnect, TypeOK, calls, loop
<1>4. CASE Kill \/ Ends \/ waitpid
  BY <1>4, Ending, FinishTypes
<1>5. CASE Escapes
  <2>1. job' \in Jobs /\ job'.ran <= job'.cmd.limit
    BY <1>5, JobFields DEF Escapes, Reading, Jobs
  <2>. QED  BY <1>5, <2>1 DEF Escapes, TypeOK, server, calls, loop
<1>6. CASE Unblocks
  BY <1>6 DEF Unblocks, TypeOK, server, calls, loop
<1>7. CASE AnomalyCheck
  <2>1. job' \in Jobs /\ job'.ran <= job'.cmd.limit
    BY <1>7, AnomalyJob DEF AnomalyCheck
  <2>. QED  BY <1>7, <2>1 DEF AnomalyCheck, TypeOK, server, calls
<1>. QED  BY <1>1, <1>2, <1>3, <1>4, <1>5, <1>6, <1>7 DEF Agent, Child

\* Nor does time.
LEMMA TickTypes ==
  ASSUME TypeOK, Tick
  PROVE  TypeOK'
<1>1. silent' \in 0 .. ReadDeadline /\ hb' \in 0 .. Interval
  <2>1. hb \in 0 .. Interval /\ silent \in 0 .. ReadDeadline /\ hb' = Least(hb + 1, Interval)
        /\ (silent' = silent \/ (silent' = silent + 1 /\ silent # ReadDeadline))
    BY DEF TypeOK, Tick, Due
  <2>. QED  BY <2>1, Constants DEF Least
<1>2. left' \in [Id -> Nat]
  <2>1. \A i \in Id : pc[i] = "wait" => left[i] # 0
    BY DEF Tick, Due
  <2>2. \A i \in Id : pc[i] = "wait" => left[i] - 1 \in Nat
    BY <2>1 DEF TypeOK
  <2>. QED  BY <2>2 DEF Tick, TypeOK
<1>3. job' \in Jobs \cup {Nil} /\ (job' # Nil => job'.ran <= job'.cmd.limit)
  <2>1. CASE Reading
    <3>1. job' = [job EXCEPT !.ran = job.ran + 1] /\ job # Nil /\ ~(job.ran >= job.cmd.limit)
      BY <2>1 DEF Tick, Due, Reading
    <3>2. job.ran + 1 \in Nat /\ job.ran + 1 <= job.cmd.limit /\ job \in Jobs
      BY <3>1, JobFields
    <3>. QED  BY <3>1, <3>2 DEF Jobs
  <2>2. CASE ~Reading
    BY <2>2 DEF Tick, TypeOK
  <2>. QED  BY <2>1, <2>2
<1>4. checked' \in BOOLEAN /\ held' \in BOOLEAN /\ alone' \subseteq Id
  BY DEF Tick, TypeOK
<1>. QED  BY <1>1, <1>2, <1>3, <1>4 DEF Tick, TypeOK

\* No step disturbs the types.
LEMMA TypeStep ==
  ASSUME TypeOK, IdInv, AnswerInv, [Next]_vars
  PROVE  TypeOK'
<1>1. CASE UNCHANGED vars
  BY <1>1 DEF TypeOK, vars
<1>. QED  BY <1>1, RequestTypes, ReturnTypes, ServerTypes, AgentTypes, TickTypes DEF Next

-----------------------------------------------------------------------------
(* The life of an id.                                                       *)

\* A request makes its id known, and no other.
LEMMA RequestIds ==
  ASSUME TypeOK, IdInv, NEW i \in Id, NEW c \in Commands, Request(i, c)
  PROVE  IdInv'
<1>1. /\ pc' = [pc EXCEPT ![i] = pc'[i]] /\ pc'[i] # "idle" /\ pc[i] = "idle"
      /\ asked' = [asked EXCEPT ![i] = c]
      /\ job' = job /\ finished' = finished
  BY DEF Request, agent, TypeOK
<1>2. \A j \in Id : j # i => pc'[j] = pc[j] /\ asked'[j] = asked[j] /\ got'[j] = got[j]
                         /\ (j \in alone' => j \in alone)
  BY DEF Request, TypeOK
<1>3. asked'[i] = c
  BY <1>1 DEF TypeOK
<1>4. \A n \in 1 .. Len(toAgent') : toAgent'[n] = i \/ (n \in 1 .. Len(toAgent) /\ toAgent'[n] = toAgent[n])
  <2>1. toAgent \in Seq(Id) /\ (toAgent' = toAgent \/ toAgent' = Append(toAgent, i))
    BY DEF Request, TypeOK
  <2>. QED  BY <2>1
<1>5. \A n \in 1 .. Len(toAgent) : toAgent[n] \in Id
  BY DEF TypeOK
<1>6. (job # Nil /\ job.id # Nil) => job.id \in Id /\ job.id # i
  BY <1>1, JobFields DEF IdInv
<1>. QED  BY <1>1, <1>2, <1>3, <1>4, <1>5, <1>6 DEF IdInv, Reading

\* The end of a program finishes its id.
LEMMA FinishIds ==
  ASSUME TypeOK, IdInv, job # Nil, job.id \in Id, Finish
  PROVE  IdInv'
BY NilAssumption DEF Finish, IdInv, calls, Reading

\* The other steps.
LEMMA IdStep ==
  ASSUME TypeOK, IdInv, [Next]_vars
  PROVE  IdInv'
<1>1. CASE UNCHANGED <<pc, asked, got, alone, toAgent, job, finished>>
  BY <1>1 DEF IdInv, Reading
<1>2. CASE \E i \in Id, c \in Commands : Request(i, c)
  BY <1>2, RequestIds
<1>3. CASE \E i \in Id : Answered(i) \/ TimedOut(i)
  <2>1. PICK i \in Id : pc[i] = "wait" /\ \E r : Return(i, r)
    BY <1>3 DEF Answered, TimedOut
  <2>2. /\ \A j \in Id : (pc'[j] = "idle") = (pc[j] = "idle")
        /\ \A j \in Id : j # i => got'[j] = got[j]
        /\ UNCHANGED <<asked, alone, toAgent, job, finished>>
    BY <2>1 DEF Return, agent, TypeOK
  <2>3. /\ \A n \in 1 .. Len(toAgent) : toAgent[n] \in Id
        /\ (job # Nil /\ job.id # Nil) => job.id \in Id
    BY JobFields DEF TypeOK
  <2>. QED  BY <2>1, <2>2, <2>3 DEF IdInv, Reading
<1>4. CASE dispatch \/ TooSilent
  <2>1. UNCHANGED <<pc, asked, got, alone, toAgent, job, finished>>
    BY <1>4 DEF dispatch, TooSilent, Cut, calls, agent
  <2>. QED  BY <1>1, <2>1
<1>5. CASE handle_command
  <2>1. PICK i \in Id : /\ i = Head(toAgent) /\ asked[i] \in Commands
                        /\ pc[i] # "idle" /\ toAgent # <<>>
    BY <1>5, NextCommand DEF handle_command
  <2>2. UNCHANGED <<pc, asked, got, alone>> /\ toAgent' = Tail(toAgent)
    BY <1>5 DEF handle_command, calls
  <2>3. \A n \in 1 .. Len(toAgent') : pc[toAgent'[n]] # "idle"
    <3>1. \A n \in 1 .. Len(toAgent') : n + 1 \in 1 .. Len(toAgent) /\ toAgent'[n] = toAgent[n + 1]
      BY <2>1, <2>2 DEF TypeOK
    <3>. QED  BY <3>1 DEF IdInv
  <2>4. finished' \subseteq finished \cup {i}
    BY <1>5, <2>1, CommandCases DEF Operation, NoAnswer, StartProgram
  <2>5. job' # Nil => /\ job'.id = i /\ job'.cmd = asked[i]
                      /\ job'.at = "read" => asked[i].type \in Programs
    <3>1. job' # Nil => NoAnswer(i) \/ (asked[i].type \notin {"quick", "silent"} /\ StartProgram(i))
      BY <1>5, <2>1, CommandCases DEF Operation, handle_command
    <3>2. asked[i].type \in {"quick", "popen", "exec", "task", "silent"}
      BY <2>1, CommandsAssumption DEF CommandType
    <3>3. job = Nil
      BY <1>5 DEF handle_command
    <3>. QED  BY <3>1, <3>2, <3>3 DEF StartProgram, NoAnswer, Programs
  <2>. QED  BY <2>1, <2>2, <2>3, <2>4, <2>5 DEF IdInv, Reading
<1>6. CASE Kill \/ Ends \/ waitpid
  BY <1>6, Ending, FinishIds
<1>7. CASE Escapes \/ Tick
  <2>1. UNCHANGED <<pc, asked, got, toAgent, finished>> /\ alone' \subseteq alone
    BY <1>7 DEF Escapes, Tick, calls
  <2>2. job' # Nil => job # Nil /\ job'.id = job.id /\ job'.cmd = job.cmd
                      /\ (job'.at = "read" => job.at = "read")
    <3>1. job' = job \/ job' = [job EXCEPT !.at = "wait"] \/ job' = [job EXCEPT !.ran = @ + 1]
      BY <1>7 DEF Escapes, Tick
    <3>2. job' # job => job # Nil
      BY <1>7 DEF Escapes, Tick, Reading
    <3>. QED  BY <3>1, <3>2, JobFields DEF Jobs
  <2>. QED  BY <2>1, <2>2 DEF IdInv, Reading
<1>8. CASE Send \/ Heartbeat \/ UNCHANGED vars
  BY <1>1, <1>8 DEF Send, Heartbeat, vars, calls, agent
<1>9. CASE Reconnect
  BY <1>9 DEF Reconnect, IdInv, Reading, calls
<1>10. CASE Unblocks \/ AnomalyCheck
  <2>1. UNCHANGED <<pc, asked, got, alone, toAgent, finished>>
    BY <1>10 DEF Unblocks, AnomalyCheck, calls
  <2>2. job' = Nil \/ (job'.id = Nil /\ job'.at = "wait" /\ job'.cmd.type \notin Programs)
    BY <1>10, AnomalyJob DEF Unblocks, AnomalyCheck
  <2>. QED  BY <2>1, <2>2 DEF IdInv, Reading
<1>. QED  BY <1>2, <1>3, <1>4, <1>5, <1>6, <1>7, <1>8, <1>9, <1>10 DEF Next, Server, Agent, Child

-----------------------------------------------------------------------------
(* Answers belong to the id they carry.                                     *)

\* A frame appended to toServer that is a note or about a finished command.
LEMMA AppendFrame ==
  ASSUME TypeOK, AnswerInv, NEW f, toServer' = Append(toServer, f), finished \subseteq finished',
         IF f.type = "note" THEN f.id = Nil ELSE f.id \in finished',
         UNCHANGED <<reader, ch>>
  PROVE  AnswerInv'
<1>1. \A n \in 1 .. Len(toServer') :
        toServer'[n] = f \/ (n \in 1 .. Len(toServer) /\ toServer'[n] = toServer[n])
  BY DEF TypeOK
<1>. QED  BY <1>1 DEF AnswerInv

\* A connection that a frame is appended to is not empty.
LEMMA Appended ==
  ASSUME TypeOK, NEW f
  PROVE  Append(toServer, f) # <<>>
<1>1. toServer \in Seq(Frames)
  BY DEF TypeOK
<1>2. Len(Append(toServer, f)) = Len(toServer) + 1 /\ Len(toServer) \in Nat
  BY <1>1
<1>. QED  BY <1>2

\* The answer to a program carries its id.
LEMMA FinishAnswers ==
  ASSUME TypeOK, AnswerInv, job # Nil, job.id \in Id, Finish
  PROVE  AnswerInv'
<1>1. finished' = finished \cup {job.id} /\ UNCHANGED <<reader, ch>>
  BY DEF Finish, calls
<1>2. PICK f : f = Frame(AnswerType(job.cmd), job.id)
  OBVIOUS
<1>3. f.type # "note" /\ f.id = job.id
  BY <1>2 DEF Frame, AnswerType
<1>4. CASE toServer' = toServer
  BY <1>1, <1>4 DEF AnswerInv
<1>5. CASE toServer' = Append(toServer, f)
  BY <1>1, <1>3, <1>5, AppendFrame
<1>. QED  BY <1>2, <1>4, <1>5 DEF Finish, Sent

\* No step gives an id the answer of another.
LEMMA AnswerStep ==
  ASSUME TypeOK, IdInv, AnswerInv, [Next]_vars
  PROVE  AnswerInv'
<1>1. CASE UNCHANGED <<toServer, reader, ch, finished>>
  BY <1>1 DEF AnswerInv
<1>2. CASE dispatch
  <2>. DEFINE f == Head(toServer)
  <2>1. UNCHANGED <<ch, finished>> /\ toServer # <<>>
    BY <1>2 DEF dispatch, agent
  <2>2. CASE f.type = "broken"
    BY <1>2, <2>1, <2>2 DEF dispatch, Cut, AnswerInv
  <2>3. CASE f.type # "broken"
    <3>1. /\ toServer' = Tail(toServer)
          /\ reader' = IF f.id \in pending THEN f ELSE Nil
      BY <1>2, <2>3 DEF dispatch
    <3>2. f = toServer[1] /\ 1 \in 1 .. Len(toServer) /\ f \in Frames
      BY <2>1 DEF TypeOK
    <3>3. \A n \in 1 .. Len(toServer') : n + 1 \in 1 .. Len(toServer) /\ toServer'[n] = toServer[n + 1]
      BY <2>1, <3>1 DEF TypeOK
    <3>4. f.id \in pending => f.type = "answer" /\ f.id \in finished
      <4>1. f.id # Nil => f.type # "note"
        BY <3>2 DEF AnswerInv
      <4>2. f.id \in pending => f.id # Nil
        BY NilAssumption DEF TypeOK
      <4>3. f.type \in {"answer", "broken", "note"}
        BY <3>2 DEF Frames
      <4>4. f.type # "note" => f.id \in finished
        BY <3>2 DEF AnswerInv
      <4>. QED  BY <2>3, <4>1, <4>2, <4>3, <4>4
    <3>. HIDE DEF f
    <3>. QED  BY <2>1, <3>1, <3>3, <3>4 DEF AnswerInv
  <2>. QED  BY <2>2, <2>3
<1>3. CASE Send
  <2>1. UNCHANGED <<toServer, finished>> /\ reader # Nil /\ reader' = Nil
        /\ ch' = [ch EXCEPT ![reader.id] = reader]
    BY <1>3 DEF Send, agent
  <2>2. \A i \in Id : ch'[i] = ch[i] \/ (i = reader.id /\ ch'[i] = reader)
    BY <2>1 DEF TypeOK
  <2>. QED  BY <2>1, <2>2 DEF AnswerInv
<1>4. CASE TooSilent
  BY <1>4 DEF TooSilent, Cut, calls, agent, AnswerInv
<1>5. CASE Heartbeat
  <2>1. toServer' = Append(toServer, Note) /\ UNCHANGED <<reader, ch, finished>>
    BY <1>5 DEF Heartbeat, calls
  <2>. QED  BY <2>1, AppendFrame DEF Note
<1>6. CASE handle_command
  <2>1. UNCHANGED <<reader, ch>>
    BY <1>6 DEF handle_command, calls
  <2>2. PICK i \in Id : i = Head(toAgent)
    BY <1>6, NextCommand DEF handle_command
  <2>3. CASE Operation(i)
    <3>1. Frame("answer", i).type # "note" /\ Frame("answer", i).id = i
      BY DEF Frame
    <3>2. finished' = finished \cup {i}
          /\ (toServer' = toServer \/ toServer' = Append(toServer, Frame("answer", i)))
      BY <2>3 DEF Operation, Sent
    <3>3. CASE toServer' = toServer
      BY <2>1, <3>2, <3>3 DEF AnswerInv
    <3>. QED  BY <2>1, <3>1, <3>2, <3>3, AppendFrame
  <2>4. CASE NoAnswer(i)
    BY <1>1, <2>1, <2>4 DEF NoAnswer
  <2>5. CASE StartProgram(i)
    <3>1. finished' = finished /\ (toServer' = toServer \/ toServer' = Append(toServer, Note))
      BY <2>5 DEF StartProgram, Sent
    <3>. QED  BY <1>1, <2>1, <3>1, AppendFrame DEF Note
  <2>. QED  BY <1>6, <2>2, <2>3, <2>4, <2>5, CommandCases
<1>7. CASE Kill \/ Ends \/ waitpid
  BY <1>7, Ending, FinishAnswers
<1>8. CASE Escapes \/ Unblocks \/ AnomalyCheck \/ Tick \/ Reconnect \/ UNCHANGED vars
  BY <1>1, <1>8 DEF Escapes, Unblocks, AnomalyCheck, Tick, Reconnect, vars, calls, server
<1>9. CASE \E i \in Id : (\E c \in Commands : Request(i, c)) \/ Answered(i) \/ TimedOut(i)
  BY <1>1, <1>9 DEF Request, Answered, TimedOut, Return, server, agent
<1>. QED  BY <1>2, <1>3, <1>4, <1>5, <1>6, <1>7, <1>8, <1>9 DEF Next, Server, Agent, Child

\* What Request returns is what was in its channel.
LEMMA OwnAnswerStep ==
  ASSUME TypeOK, AnswerInv, OwnAnswer, [Next]_vars
  PROVE  OwnAnswer'
<1>1. finished \subseteq finished'
  BY DEF Next, Request, Answered, TimedOut, Return, Server, dispatch, Send, TooSilent, Agent,
     Heartbeat, handle_command, Operation, NoAnswer, StartProgram, Reconnect, Kill, Child,
     Ends, Escapes, waitpid, Finish, Unblocks, AnomalyCheck, Tick, vars, calls, agent
<1>2. CASE got' = got
  BY <1>1, <1>2 DEF OwnAnswer, Got
<1>3. CASE \E i \in Id, c \in Commands : Request(i, c)
  <2>1. PICK i \in Id : got' = got \/ got' = [got EXCEPT ![i] = Frame("error", Nil)]
    BY <1>3 DEF Request
  <2>2. Frame("error", Nil).type # "answer"
    BY DEF Frame
  <2>3. \A j \in Id : got'[j] = got[j] \/ got'[j] = Frame("error", Nil)
    BY <2>1 DEF TypeOK
  <2>. QED  BY <1>1, <2>2, <2>3 DEF OwnAnswer, Got
<1>4. CASE \E i \in Id : Answered(i) \/ TimedOut(i)
  <2>1. PICK i \in Id : Answered(i) \/ TimedOut(i)
    BY <1>4
  <2>2. \/ got' = [got EXCEPT ![i] = Frame("timeout", Nil)]
        \/ ch[i] # Nil /\ got' = [got EXCEPT ![i] = ch[i]]
    BY <2>1 DEF Answered, TimedOut, Return
  <2>3. Frame("timeout", Nil).type # "answer"
    BY DEF Frame
  <2>4. \A j \in Id : \/ got'[j] = got[j]
                      \/ got'[j] = Frame("timeout", Nil)
                      \/ j = i /\ ch[i] # Nil /\ got'[j] = ch[i]
    <3>1. CASE got' = [got EXCEPT ![i] = Frame("timeout", Nil)]
      BY <3>1 DEF TypeOK
    <3>2. CASE ch[i] # Nil /\ got' = [got EXCEPT ![i] = ch[i]]
      BY <3>2 DEF TypeOK
    <3>. QED  BY <2>2, <3>1, <3>2
  <2>. QED  BY <1>1, <2>3, <2>4 DEF OwnAnswer, AnswerInv, Got
<1>5. CASE Server \/ Agent \/ AnomalyCheck \/ Child \/ Tick \/ UNCHANGED vars
  <2>1. got' = got
    BY <1>5 DEF Server, dispatch, Send, TooSilent, Agent, Heartbeat, handle_command, Reconnect,
       Kill, Child, Ends, Escapes, waitpid, Finish, Unblocks, AnomalyCheck, Tick, vars, calls
  <2>. QED  BY <1>2, <2>1
<1>. QED  BY <1>3, <1>4, <1>5 DEF Next

-----------------------------------------------------------------------------
(* How long the agent may be silent.                                        *)

\* No step lets the agent be silent for longer than it may.
LEMMA SilenceStep ==
  ASSUME TypeOK, IdInv, SilenceInv, [Next]_vars
  PROVE  SilenceInv'
<1>1. CASE UNCHANGED <<link, silent, toServer, reader, hb, job>>
  BY <1>1 DEF SilenceInv, Reading
<1>2. CASE dispatch
  <2>1. hb \in Nat /\ Interval \in Nat /\ Interval > 0 /\ (Reading => job.ran \in Nat)
    BY JobFields, Constants DEF TypeOK, Reading
  <2>2. silent' = 0 /\ hb' = hb /\ job' = job
    BY <1>2 DEF dispatch, agent
  <2>. QED  BY <2>1, <2>2 DEF SilenceInv, Reading
<1>3. CASE Send
  BY <1>3 DEF Send, agent, SilenceInv, Reading
<1>4. CASE TooSilent
  BY <1>4 DEF TooSilent, Cut, SilenceInv
<1>5. CASE Heartbeat
  <2>0. toServer' = Append(toServer, Note) /\ UNCHANGED <<reader, silent>>
    BY <1>5 DEF Heartbeat
  <2>1. toServer' # <<>> /\ UNCHANGED <<reader, silent>>
    BY <2>0, Appended
  <2>. QED  BY <2>1 DEF SilenceInv
<1>6. CASE handle_command
  <2>1. UNCHANGED <<link, silent, reader>> /\ job = Nil /\ (link = "up" => hb # Interval)
    BY <1>6 DEF handle_command, HeartbeatDue
  <2>2. hb \in 0 .. Interval /\ Interval \in Nat /\ silent \in Nat
    BY Constants DEF TypeOK
  <2>3. PICK i \in Id : i = Head(toAgent)
    BY <1>6, NextCommand DEF handle_command
  <2>4. hb' = hb /\ (toServer' = <<>> => toServer = <<>>)
    BY <1>6, CommandCases DEF Operation, NoAnswer, StartProgram, Sent, TypeOK
  <2>5. job' = Nil \/ (job'.ran = 0 /\ job' # Nil)
    <3>1. CASE job' = job
      BY <2>1, <3>1
    <3>2. CASE StartProgram(i) \/ NoAnswer(i)
      BY <2>1, <3>2 DEF StartProgram, NoAnswer
    <3>. QED  BY <1>6, <2>3, <3>1, <3>2, CommandCases DEF Operation
  <2>6. link = "up" /\ toServer' = <<>> => silent <= hb /\ hb + 1 <= Interval
    BY <2>1, <2>2, <2>4 DEF SilenceInv
  <2>7. link' = "up" /\ toServer' = <<>> => /\ silent' <= hb'
                                            /\ job' # Nil => silent' + 1 <= Interval + job'.ran
    BY <2>1, <2>2, <2>4, <2>5, <2>6
  <2>. QED  BY <2>1, <2>7 DEF SilenceInv, Reading
<1>7. CASE Reconnect
  <2>1. silent' = 0 /\ hb' = Interval /\ job' = Nil /\ UNCHANGED reader
    BY <1>7 DEF Reconnect
  <2>. QED  BY <2>1, Constants DEF SilenceInv, Reading
<1>8. CASE Kill \/ Ends \/ waitpid
  <2>1. Finish
    BY <1>8, Ending
  <2>2. UNCHANGED <<reader, silent, link>> /\ (link = "up" => toServer' # <<>>)
    <3>1. toServer \in Seq(Frames) /\ UNCHANGED <<reader, silent, link>>
          /\ (link = "up" => \E f : toServer' = Append(toServer, f))
      BY <2>1 DEF Finish, Sent, TypeOK
    <3>2. \A f : Append(toServer, f) # <<>>
      BY <3>1
    <3>. QED  BY <3>1, <3>2
  <2>. QED  BY <2>2 DEF SilenceInv
<1>9. CASE Escapes
  <2>1. UNCHANGED <<link, silent, toServer, reader>> /\ job \in Jobs /\ job # Nil
        /\ job' = [job EXCEPT !.at = "wait"]
    BY <1>9, JobFields DEF Escapes, server, Reading
  <2>2. job'.at = "wait" /\ job' \in Jobs /\ job'.cmd = job.cmd
    BY <2>1 DEF Jobs
  <2>3. job'.cmd.type \in Programs
    BY <1>9, <2>2 DEF IdInv, Escapes
  <2>. QED  BY <2>1, <2>2, <2>3, NilAssumption DEF SilenceInv, Reading
<1>10. CASE Tick
  <2>1. UNCHANGED <<link, toServer, reader>> /\ reader = Nil
        /\ (link = "up" => silent' = silent + 1)
    <3>1. ~Due
      BY <1>10 DEF Tick
    <3>. QED  BY <1>10, <3>1 DEF Tick, Due
  <2>2. CASE job = Nil
    <3>1. job' = Nil /\ (link = "up" => hb # Interval /\ hb' = Least(hb + 1, Interval))
      BY <1>10, <2>2 DEF Tick, Due, Reading, InLoop, HeartbeatDue
    <3>2. link = "up" => hb' = hb + 1 /\ hb \in Nat /\ silent \in Nat
      BY <3>1, Constants DEF TypeOK, Least
    <3>. QED  BY <2>1, <2>2, <3>1, <3>2 DEF SilenceInv, Reading
  <2>3. CASE Reading
    <3>1. job' = [job EXCEPT !.ran = job.ran + 1] /\ job \in Jobs
      BY <1>10, <2>3, JobFields DEF Tick, Reading
    <3>2. job' \in Jobs /\ job'.ran = job.ran + 1 /\ job.ran \in Nat /\ job'.cmd = job.cmd
      BY <3>1 DEF Jobs
    <3>3. job'.cmd.type \in Programs
      BY <2>3, <3>2 DEF IdInv
    <3>. QED  BY <2>1, <2>3, <3>2, <3>3, NilAssumption, Constants DEF SilenceInv, Reading, TypeOK
  <2>4. CASE job # Nil /\ ~Reading
    <3>1. job' = job /\ hb' = Least(hb + 1, Interval)
      BY <1>10, <2>4 DEF Tick
    <3>2. hb \in 0 .. Interval /\ Interval \in Nat /\ silent \in Nat
      BY Constants DEF TypeOK
    <3>3. ASSUME link = "up", silent <= hb \/ hb = Interval PROVE silent' <= hb' \/ hb' = Interval
      BY <2>1, <3>1, <3>2, <3>3 DEF Least
    <3>. QED  BY <2>1, <2>4, <3>1, <3>3 DEF SilenceInv, Reading
  <2>. QED  BY <2>2, <2>3, <2>4
<1>11. CASE UNCHANGED vars
  BY <1>1, <1>11 DEF vars
<1>12. CASE \E i \in Id : (\E c \in Commands : Request(i, c)) \/ Answered(i) \/ TimedOut(i)
  BY <1>1, <1>12 DEF Request, Answered, TimedOut, Return, server, agent
<1>13. CASE Unblocks
  <2>1. UNCHANGED <<link, silent, toServer, reader, hb>> /\ job' = Nil /\ job.cmd.type \notin Programs
    BY <1>13 DEF Unblocks, server, Programs
  <2>. QED  BY <2>1 DEF SilenceInv, Reading
<1>14. CASE AnomalyCheck
  <2>1. UNCHANGED <<link, silent, toServer, reader, hb>> /\ job = Nil
    BY <1>14 DEF AnomalyCheck, InLoop, server
  <2>2. job'.at = "wait"
    BY <1>14, AnomalyJob DEF AnomalyCheck
  <2>. QED  BY <2>1, <2>2 DEF SilenceInv, Reading
<1>. QED  BY <1>2, <1>3, <1>4, <1>5, <1>6, <1>7, <1>8, <1>9, <1>10, <1>11, <1>12, <1>13, <1>14
          DEF Next, Server, Agent, Child

\* What the agent reads from bounds the silence.
LEMMA SilenceBound ==
  ASSUME TypeOK, SilenceInv, link = "up", toServer = <<>>, Reading
  PROVE  silent + 1 <= Interval + job.cmd.limit
<1>1. silent + 1 <= Interval + job.ran
  BY DEF SilenceInv
<1>2. job.ran \in Nat /\ job.cmd.limit \in Nat /\ job.ran <= job.cmd.limit /\ silent \in Nat
  BY JobFields DEF Reading, TypeOK
<1>. QED  BY <1>1, <1>2, Constants

\* The tick at which the silence becomes too long finds the agent held up.
LEMMA StuckStep ==
  ASSUME TypeOK, IdInv, SilenceInv, SilentOnlyWhenStuck, [Next]_vars
  PROVE  SilentOnlyWhenStuck'
<1>. SUFFICES ASSUME Interval < ReadDeadline, link' = "up", silent' = ReadDeadline, toServer' = <<>>
              PROVE  held'
  BY DEF SilentOnlyWhenStuck
<1>1. CASE UNCHANGED <<link, silent, toServer, held>>
  BY <1>1 DEF SilentOnlyWhenStuck
<1>2. CASE \E i \in Id : (\E c \in Commands : Request(i, c)) \/ Answered(i) \/ TimedOut(i)
  BY <1>1, <1>2 DEF Request, Answered, TimedOut, Return, server, agent, loop
<1>3. CASE dispatch \/ Reconnect
  <2>1. silent' = 0
    BY <1>3 DEF dispatch, Reconnect
  <2>. QED  BY <2>1, Constants
<1>4. CASE TooSilent
  BY <1>4 DEF TooSilent, Cut
<1>5. CASE Send \/ Escapes \/ Unblocks \/ AnomalyCheck \/ UNCHANGED vars
  BY <1>1, <1>5 DEF Send, Escapes, Unblocks, AnomalyCheck, vars, server, agent, loop
<1>6. CASE Heartbeat \/ Kill \/ Ends \/ waitpid
  <2>1. \E f : toServer' = Append(toServer, f)
    BY <1>6, Ending DEF Heartbeat, Finish, Sent
  <2>. QED  BY <2>1, Appended
<1>7. CASE handle_command
  <2>1. toServer = <<>>
    <3>1. toServer' = toServer \/ \E f : toServer' = Append(toServer, f)
      BY <1>7, CommandCases DEF Operation, NoAnswer, StartProgram, Sent
    <3>. QED  BY <3>1, Appended
  <2>2. UNCHANGED <<link, silent, held>>
    BY <1>7 DEF handle_command, loop
  <2>. QED  BY <1>1, <2>1, <2>2
<1>8. CASE Tick
  <2>1. link = "up" /\ silent' = silent + 1 /\ toServer = <<>> /\ ~Due
    BY <1>8 DEF Tick
  <2>2. held' = (Waiting \/ (job # Nil /\ ~Short(job.cmd)))
    BY <1>8 DEF Tick
  <2>3. job # Nil
    <3>. SUFFICES ASSUME job = Nil PROVE FALSE
      OBVIOUS
    <3>1. hb # Interval
      BY <2>1 DEF Due, InLoop, HeartbeatDue
    <3>2. silent <= hb
      BY <2>1, <3>1 DEF SilenceInv
    <3>3. hb \in 0 .. Interval /\ silent \in Nat /\ silent + 1 = ReadDeadline
      BY <2>1 DEF TypeOK
    <3>. QED  BY <3>1, <3>2, <3>3, Constants
  <2>4. CASE Reading
    <3>1. silent + 1 <= Interval + job.cmd.limit /\ job.cmd.type \in Programs
      BY <2>1, <2>4, SilenceBound DEF IdInv
    <3>2. ~(job.cmd.limit + Interval < ReadDeadline)
      BY <2>1, <2>3, <3>1, JobFields, Constants
    <3>. QED  BY <2>2, <2>3, <3>1, <3>2 DEF Short
  <2>5. CASE ~Reading
    BY <2>2, <2>3, <2>5, JobFields DEF Reading, Waiting
  <2>. QED  BY <2>4, <2>5
<1>. QED  BY <1>2, <1>3, <1>4, <1>5, <1>6, <1>7, <1>8 DEF Next, Server, Agent, Child

-----------------------------------------------------------------------------
(* The slack of the server is enough.                                       *)

\* Request waits longer for such a command than its program may run.
LEMMA OwedWait ==
  ASSUME NEW i \in Id, Owed(i), asked[i] \in Commands, asked[i].type \in Programs
  PROVE  /\ Wait(asked[i]) \in Nat /\ asked[i].limit \in Nat /\ Wait(asked[i]) > asked[i].limit
         /\ asked[i].limit + Interval < ReadDeadline
<1>1. /\ asked[i].type \in {"exec", "task"} \/ asked[i].type = "popen"
      /\ asked[i].type = "popen" => asked[i].wait > asked[i].limit
      /\ asked[i].type \in {"exec", "task"} => asked[i].type # "popen"
      /\ asked[i].limit + Interval < ReadDeadline
  BY DEF Owed, InTime, Short, Programs
<1>2. Wait(asked[i]) = IF asked[i].type = "popen" THEN asked[i].wait ELSE asked[i].limit + Slack
  BY <1>1 DEF Wait
<1>. QED  BY <1>1, <1>2, Constants

\* A request that is owed an answer was owed it before the step, unless the
\* step makes it.
LEMMA OwedBefore ==
  ASSUME TypeOK, NEW i \in Id, [Next]_vars, Owed(i)', ~\E c \in Commands : Request(i, c)
  PROVE  Owed(i) /\ asked'[i] = asked[i]
<1>1. CASE \E j \in Id, c \in Commands : Request(j, c)
  <2>1. PICK j \in Id, c \in Commands : Request(j, c)
    BY <1>1
  <2>2. j # i
    BY <2>1
  <2>3. pc'[i] = pc[i] /\ asked'[i] = asked[i] /\ (i \in alone' => i \in alone)
    BY <2>1, <2>2 DEF Request, TypeOK
  <2>. QED  BY <2>3 DEF Owed, InTime, Short
<1>2. CASE \E j \in Id : Answered(j) \/ TimedOut(j)
  <2>1. PICK j \in Id : pc[j] = "wait" /\ \E r : Return(j, r)
    BY <1>2 DEF Answered, TimedOut
  <2>2. (pc'[i] = "wait" => pc[i] = "wait") /\ UNCHANGED <<asked, alone>>
    BY <2>1 DEF Return, TypeOK
  <2>. QED  BY <2>2 DEF Owed, InTime, Short
<1>3. CASE Server \/ Agent \/ AnomalyCheck \/ Child \/ Tick \/ UNCHANGED vars
  <2>1. UNCHANGED <<pc, asked>> /\ alone' \subseteq alone
    BY <1>3 DEF Server, dispatch, Send, TooSilent, Agent, Heartbeat, handle_command, Reconnect,
       Kill, Child, Ends, Escapes, waitpid, Finish, Unblocks, AnomalyCheck, Tick, vars, calls
  <2>. QED  BY <2>1 DEF Owed, InTime, Short
<1>. QED  BY <1>1, <1>2, <1>3 DEF Next

\* A frame behind the others delays none of them.
LEMMA ComingAppend ==
  ASSUME TypeOK, NEW i \in Id, Coming(i), NEW f, toServer' = Append(toServer, f),
         UNCHANGED <<left, pending>>
  PROVE  Coming(i)'
<1>1. toServer \in Seq(Frames) /\ Len(toServer) \in Nat
  BY DEF TypeOK
<1>2. \A n \in 1 .. Len(toServer) : n \in 1 .. Len(toServer') /\ toServer'[n] = toServer[n]
  BY <1>1
<1>3. PICK n \in 1 .. Len(toServer) : toServer[n].id = i /\ Unbroken(n)
  BY DEF Coming
<1>4. \A m \in 1 .. n : m \in 1 .. Len(toServer)
  BY <1>1
<1>5. toServer'[n].id = i /\ \A m \in 1 .. n : toServer'[m].type # "broken"
  BY <1>2, <1>3, <1>4 DEF Unbroken
<1>. QED  BY <1>2, <1>5 DEF Coming, Unbroken

\* An answer appended behind frames that are not broken is coming.
LEMMA ComingNow ==
  ASSUME TypeOK, NEW i \in Id, Unbroken(Len(toServer)),
         toServer' = Append(toServer, Frame("answer", i)),
         UNCHANGED <<left, pending>>, i \in pending, left[i] > 0
  PROVE  Coming(i)'
<1>1. toServer \in Seq(Frames) /\ Len(toServer) \in Nat
  BY DEF TypeOK
<1>2. PICK n \in Nat : n = Len(toServer) + 1
  BY <1>1
<1>3. /\ n \in 1 .. Len(toServer') /\ toServer'[n] = Frame("answer", i)
      /\ \A m \in 1 .. n : m = n \/ (m \in 1 .. Len(toServer) /\ toServer'[m] = toServer[m])
  BY <1>1, <1>2
<1>4. toServer'[n].id = i /\ toServer'[n].type # "broken"
  BY <1>3 DEF Frame
<1>5. \A m \in 1 .. n : toServer'[m].type # "broken"
  BY <1>3, <1>4 DEF Unbroken
<1>. QED  BY <1>3, <1>4, <1>5 DEF Coming, Unbroken

\* A note breaks nothing.
LEMMA UnbrokenNote ==
  ASSUME TypeOK, Unbroken(Len(toServer)), toServer' = Append(toServer, Note)
  PROVE  Unbroken(Len(toServer))'
<1>1. \A m \in 1 .. Len(toServer') :
        toServer'[m] = Note \/ (m \in 1 .. Len(toServer) /\ toServer'[m] = toServer[m])
  BY DEF TypeOK
<1>2. Note.type # "broken"
  BY DEF Note
<1>. QED  BY <1>1, <1>2 DEF Unbroken

\* A new request to an idle agent is the next command.
LEMMA PlaceRequested ==
  ASSUME TypeOK, IdInv, NEW i \in Id, NEW c \in Commands, Request(i, c), Owed(i)'
  PROVE  Queued(i)'
<1>0. i \notin alone
  BY DEF Request, IdInv
<1>1. link = "up" /\ job = Nil /\ toAgent = <<>> /\ toServer = <<>> /\ silent < ReadDeadline
  BY <1>0 DEF Request, Owed, TypeOK
<1>2. /\ toAgent' = <<i>> /\ i \in pending' /\ left'[i] = Wait(c) /\ asked'[i] = c
      /\ UNCHANGED <<link, silent, job, toServer, finished>> /\ pc[i] = "idle"
  BY <1>1 DEF Request, TypeOK, server, agent
<1>3. toAgent' # <<>> /\ Head(toAgent') = i
  BY <1>2
<1>4. i \notin finished
  BY <1>2 DEF IdInv
<1>5. Len(toServer') = 0
  BY <1>1, <1>2
<1>6. Wait(asked[i])' = Wait(c)
  BY <1>2 DEF Wait
<1>. QED  BY <1>1, <1>2, <1>3, <1>4, <1>5, <1>6 DEF Queued, Unbroken

\* Other requests stay behind it, and their returns take nothing from it.
LEMMA PlaceCalls ==
  ASSUME TypeOK, NEW i \in Id, NEW j \in Id, j # i, Place(i),
         (\E c \in Commands : Request(j, c)) \/ Answered(j) \/ TimedOut(j)
  PROVE  Place(i)'
<1>1. /\ UNCHANGED <<link, silent, job, toServer, finished, reader, ch>>
      /\ left'[i] = left[i] /\ asked'[i] = asked[i]
      /\ i \in pending => i \in pending'
  BY DEF Request, Answered, TimedOut, Return, TypeOK, server, agent
<1>2. Wait(asked[i])' = Wait(asked[i])
  BY <1>1 DEF Wait
<1>3. toAgent # <<>> => toAgent' # <<>> /\ Head(toAgent') = Head(toAgent)
  <2>1. toAgent \in Seq(Id) /\ (toAgent' = toAgent \/ toAgent' = Append(toAgent, j))
    BY DEF Request, Answered, TimedOut, Return, TypeOK
  <2>. QED  BY <2>1
<1>4. CASE Queued(i)
  BY <1>1, <1>2, <1>3, <1>4 DEF Place, Queued, Unbroken
<1>5. CASE Running(i)
  BY <1>1, <1>2, <1>5 DEF Place, Running, Reading, Unbroken
<1>6. CASE Coming(i)
  BY <1>1, <1>6 DEF Place, Coming, Unbroken
<1>7. CASE InHand(i)
  BY <1>1, <1>7 DEF Place, InHand
<1>. QED  BY <1>4, <1>5, <1>6, <1>7 DEF Place

\* dispatch takes no connection down that still carries an answer that is due.
LEMMA PlaceDispatch ==
  ASSUME TypeOK, AnswerInv, NEW i \in Id, Place(i), dispatch
  PROVE  Place(i)'
<1>. DEFINE f == Head(toServer)
<1>1. /\ toServer # <<>> /\ reader = Nil
      /\ UNCHANGED <<pc, asked, left, ch, got, alone, hb, job, finished>>
  BY DEF dispatch, agent
<1>2. /\ Len(toServer) \in Nat /\ 1 \in 1 .. Len(toServer) /\ f = toServer[1]
      /\ Len(Tail(toServer)) = Len(toServer) - 1
      /\ \A n \in 1 .. Len(Tail(toServer)) :
           n + 1 \in 1 .. Len(toServer) /\ Tail(toServer)[n] = toServer[n + 1]
  BY <1>1 DEF TypeOK
<1>3. ASSUME f.type # "broken"
      PROVE  /\ toServer' = Tail(toServer) /\ UNCHANGED <<link, toAgent>>
             /\ reader' = IF f.id \in pending THEN f ELSE Nil
             /\ pending' = pending \ {f.id}
  BY <1>3 DEF dispatch
<1>4. CASE Queued(i) \/ Running(i)
  <2>1. Unbroken(Len(toServer)) /\ i \in pending /\ i \notin finished
    BY <1>4 DEF Queued, Running
  <2>2. f.type # "broken"
    BY <1>2, <2>1 DEF Unbroken
  <2>3. f.id # i
    BY <1>2, <2>1, NilAssumption DEF AnswerInv
  <2>4. i \in pending'
    BY <1>3, <2>1, <2>2, <2>3
  <2>5. Unbroken(Len(toServer))'
    BY <1>2, <1>3, <2>1, <2>2 DEF Unbroken
  <2>6. Wait(asked[i])' = Wait(asked[i])
    BY <1>1
  <2>7. link' = link /\ toAgent' = toAgent
    BY <1>3, <2>2
  <2>8. silent' < ReadDeadline
    BY Constants DEF dispatch
  <2>. HIDE DEF f
  <2>. QED  BY <1>1, <1>4, <2>4, <2>5, <2>6, <2>7, <2>8 DEF Place, Queued, Running, Reading
<1>5. CASE Coming(i)
  <2>1. PICK n \in 1 .. Len(toServer) : toServer[n].id = i /\ Unbroken(n)
    BY <1>5 DEF Coming
  <2>2. f.type # "broken"
    BY <1>2, <2>1 DEF Unbroken
  <2>3. i \in pending /\ left[i] > 0 /\ left' = left
    BY <1>1, <1>5 DEF Coming
  <2>4. CASE f.id = i
    <3>1. reader' = f
      BY <1>3, <2>2, <2>3, <2>4
    <3>2. f \in Frames
      BY <1>1 DEF TypeOK
    <3>. QED  BY <2>3, <2>4, <3>1, <3>2, NilAssumption DEF Place, InHand
  <2>5. CASE f.id # i
    <3>1. n # 1
      BY <1>2, <2>1, <2>5
    <3>2. PICK k \in Nat : k + 1 = n /\ k \in 1 .. Len(Tail(toServer))
      BY <1>2, <3>1
    <3>3. Tail(toServer)[k] = toServer[n]
      BY <1>2, <3>2
    <3>4. \A m \in 1 .. k : Tail(toServer)[m].type # "broken"
      <4>1. \A m \in 1 .. k : m \in 1 .. Len(Tail(toServer)) /\ m + 1 \in 1 .. n
        BY <1>2, <3>2
      <4>. QED  BY <1>2, <2>1, <4>1 DEF Unbroken
    <3>5. toServer' = Tail(toServer) /\ i \in pending'
      BY <1>3, <2>2, <2>3, <2>5
    <3>. HIDE DEF f
    <3>. QED  BY <2>1, <2>3, <3>2, <3>3, <3>4, <3>5 DEF Place, Coming, Unbroken
  <2>. QED  BY <2>4, <2>5
<1>6. CASE InHand(i)
  BY <1>1, <1>6 DEF Place, InHand
<1>. QED  BY <1>4, <1>5, <1>6 DEF Place

\* Nor do the other steps of the server lose it.
LEMMA PlaceServer ==
  ASSUME TypeOK, IdInv, AnswerInv, SilenceInv, NEW i \in Id, Owed(i), Place(i),
         Send \/ TooSilent
  PROVE  Place(i)'
<1>1. CASE Send
  <2>1. /\ UNCHANGED <<link, silent, toAgent, toServer, asked, left, pending, job, finished>>
        /\ reader # Nil /\ reader' = Nil /\ reader.id \in Id
        /\ ch' = [ch EXCEPT ![reader.id] = reader]
    BY <1>1 DEF Send, agent, AnswerInv, TypeOK
  <2>2. reader.id = i => ch'[i] # Nil
    BY <2>1 DEF TypeOK
  <2>3. ch[i] # Nil => ch'[i] # Nil
    BY <2>1 DEF TypeOK
  <2>4. Wait(asked[i])' = Wait(asked[i])
    BY <2>1
  <2>5. CASE InHand(i)
    BY <2>1, <2>2, <2>3, <2>5 DEF Place, InHand
  <2>6. CASE Queued(i) \/ Running(i)
    BY <2>1, <2>4, <2>6 DEF Place, Queued, Running, Reading, Unbroken
  <2>7. CASE Coming(i)
    BY <2>1, <2>7 DEF Place, Coming, Unbroken
  <2>. QED  BY <2>5, <2>6, <2>7 DEF Place
<1>2. CASE TooSilent
  <2>1. link = "up" /\ silent = ReadDeadline /\ toServer = <<>> /\ UNCHANGED <<left, ch>>
    BY <1>2 DEF TooSilent, calls
  <2>2. ~Queued(i)
    BY <2>1, Constants DEF Queued
  <2>3. ~Running(i)
    <3>. SUFFICES ASSUME Running(i) PROVE FALSE
      OBVIOUS
    <3>1. Reading /\ job.cmd = asked[i] /\ job.cmd.type \in Programs /\ asked[i] \in Commands
      BY NilAssumption DEF Running, IdInv, Owed, Reading
    <3>2. silent + 1 <= Interval + asked[i].limit
      BY <2>1, <3>1, SilenceBound
    <3>. QED  BY <2>1, <3>1, <3>2, OwedWait, Constants
  <2>4. ~Coming(i)
    BY <2>1 DEF Coming
  <2>5. reader = Nil
    BY <2>1, Constants DEF SilenceInv
  <2>. QED  BY <2>1, <2>2, <2>3, <2>4, <2>5 DEF Place, InHand
<1>. QED  BY <1>1, <1>2

\* The agent handles a queued command at once or runs it as a program.
LEMMA PlaceHandled ==
  ASSUME TypeOK, IdInv, NEW i \in Id, Owed(i), Place(i), handle_command
  PROVE  Place(i)'
<1>1. /\ job = Nil /\ toAgent # <<>>
      /\ UNCHANGED <<link, reader, pc, asked, left, pending, ch>>
  BY DEF handle_command, calls
<1>2. PICK j \in Id : j = Head(toAgent) /\ asked[j] \in Commands
  BY <1>1, NextCommand
<1>3. Wait(asked[i])' = Wait(asked[i])
  BY <1>1
<1>4. CASE Queued(i)
  <2>1. j = i /\ i \in pending /\ i \notin finished /\ Unbroken(Len(toServer)) /\ link = "up"
        /\ left[i] = Wait(asked[i])
    BY <1>2, <1>4 DEF Queued
  <2>2. left[i] > 0 /\ left[i] \in Nat
    BY <1>2, <2>1, WaitPositive
  <2>3. asked[i].type # "silent"
    BY DEF Owed, InTime, Programs
  <2>4. CASE Operation(i)
    BY <1>1, <2>1, <2>2, <2>4, ComingNow DEF Operation, Sent, Place
  <2>5. CASE StartProgram(i)
    <3>1. job' = [id |-> i, cmd |-> asked[i], at |-> "read", ran |-> 0] /\ finished' = finished
      BY <2>5 DEF StartProgram
    <3>2. job' \in Jobs
      BY <1>2, <2>1, <3>1, CommandsAssumption DEF Jobs
    <3>3. Reading' /\ job'.id = i /\ job'.ran = 0
      BY <3>1, <3>2, NilAssumption DEF Reading
    <3>4. Unbroken(Len(toServer))'
      <4>1. CASE toServer' = toServer
        BY <2>1, <4>1 DEF Unbroken
      <4>2. CASE toServer' = Append(toServer, Note)
        BY <2>1, <4>2, UnbrokenNote
      <4>. QED  BY <2>5, <4>1, <4>2 DEF StartProgram, Sent
    <3>5. left'[i] + job'.ran = Wait(asked[i])'
      BY <1>1, <1>3, <2>1, <2>2, <3>3
    <3>. QED  BY <1>1, <2>1, <3>1, <3>3, <3>4, <3>5 DEF Place, Running
  <2>. QED  BY <1>2, <2>1, <2>3, <2>4, <2>5, CommandCases
<1>5. CASE Running(i)
  BY <1>1, <1>5 DEF Running, Reading
<1>6. CASE Coming(i)
  <2>1. toServer' = toServer \/ \E f : toServer' = Append(toServer, f)
    BY CommandCases DEF Operation, NoAnswer, StartProgram, Sent
  <2>2. CASE toServer' = toServer
    BY <1>1, <1>6, <2>2 DEF Place, Coming, Unbroken
  <2>. QED  BY <1>1, <1>6, <2>1, <2>2, ComingAppend DEF Place
<1>7. CASE InHand(i)
  BY <1>1, <1>7 DEF Place, InHand
<1>. QED  BY <1>4, <1>5, <1>6, <1>7 DEF Place

\* A program that ends in time, or is killed in time, is answered in time.
LEMMA PlaceFinished ==
  ASSUME TypeOK, IdInv, NEW i \in Id, Owed(i), Place(i), job # Nil, job.id \in Id, Finish
  PROVE  Place(i)'
<1>1. UNCHANGED <<link, reader, pc, asked, left, pending, ch>>
  BY DEF Finish, calls
<1>2. CASE Queued(i)
  BY <1>2, NilAssumption DEF Queued
<1>3. CASE Running(i)
  <2>1. link = "up" /\ job.id = i /\ job.cmd = asked[i] /\ i \in pending
        /\ Unbroken(Len(toServer)) /\ left[i] + job.ran = Wait(asked[i])
    BY <1>3, NilAssumption DEF Running, IdInv
  <2>2. AnswerType(job.cmd) = "answer"
    BY <2>1 DEF Owed, InTime, AnswerType
  <2>3. toServer' = Append(toServer, Frame("answer", i))
    BY <2>1, <2>2 DEF Finish, Sent
  <2>4. left[i] > 0
    <3>1. job.cmd.type \in Programs /\ job.ran \in Nat /\ job.cmd.limit \in Nat
          /\ job.ran <= job.cmd.limit /\ left[i] \in Nat
      BY <1>3, JobFields DEF IdInv, TypeOK, Running
    <3>2. Wait(asked[i]) \in Nat /\ Wait(asked[i]) > job.cmd.limit
      BY <2>1, <3>1, OwedWait DEF Owed, IdInv
    <3>. QED  BY <2>1, <3>1, <3>2
  <2>. QED  BY <1>1, <2>1, <2>3, <2>4, ComingNow DEF Place
<1>4. CASE Coming(i)
  <2>1. toServer' = toServer \/ \E f : toServer' = Append(toServer, f)
    BY DEF Finish, Sent
  <2>2. CASE toServer' = toServer
    BY <1>1, <1>4, <2>2 DEF Place, Coming, Unbroken
  <2>. QED  BY <1>1, <1>4, <2>1, <2>2, ComingAppend DEF Place
<1>5. CASE InHand(i)
  BY <1>1, <1>5 DEF Place, InHand
<1>. QED  BY <1>2, <1>3, <1>4, <1>5 DEF Place

\* The rest of the agent's steps.
LEMMA PlaceAgent ==
  ASSUME TypeOK, IdInv, NEW i \in Id, Owed(i), Place(i),
         Heartbeat \/ Reconnect \/ Escapes \/ Unblocks \/ AnomalyCheck
  PROVE  Place(i)'
<1>1. /\ UNCHANGED <<reader, pc, asked, left, pending, ch, finished>>
      /\ ~Reconnect => UNCHANGED <<silent, toAgent>>
  BY DEF Heartbeat, Reconnect, Escapes, Unblocks, AnomalyCheck, calls, server
<1>2. Wait(asked[i])' = Wait(asked[i])
  BY <1>1
<1>3. CASE InHand(i)
  BY <1>1, <1>3 DEF Place, InHand
<1>4. CASE Coming(i)
  <2>1. toServer' = toServer \/ \E f : toServer' = Append(toServer, f)
    BY DEF Heartbeat, Reconnect, Escapes, Unblocks, AnomalyCheck, server
  <2>2. CASE toServer' = toServer
    BY <1>1, <1>4, <2>2 DEF Place, Coming, Unbroken
  <2>. QED  BY <1>1, <1>4, <2>1, <2>2, ComingAppend DEF Place
<1>5. CASE Heartbeat /\ (Queued(i) \/ Running(i))
  <2>1. Queued(i) /\ toServer' = Append(toServer, Note) /\ UNCHANGED <<link, silent, toAgent, job>>
    BY <1>5 DEF Heartbeat, InLoop, Running, Reading
  <2>2. Unbroken(Len(toServer))'
    BY <2>1, UnbrokenNote DEF Queued
  <2>. QED  BY <1>1, <1>2, <2>1, <2>2 DEF Place, Queued
<1>6. CASE Reconnect /\ (Queued(i) \/ Running(i))
  BY <1>6 DEF Reconnect, Queued, Running
<1>7. CASE Escapes /\ Queued(i)
  BY <1>7, NilAssumption DEF Escapes, Queued, Reading, IdInv
<1>8. CASE Escapes /\ Running(i)
  <2>1. job.cmd = asked[i] /\ job.cmd.does = "escapes" /\ job.cmd.type \in Programs
    BY <1>8, NilAssumption DEF Escapes, Running, Reading, IdInv
  <2>. QED  BY <2>1 DEF Owed, InTime, Programs
<1>9. CASE (Unblocks \/ AnomalyCheck) /\ Running(i)
  BY <1>9 DEF Unblocks, AnomalyCheck, InLoop, Waiting, Running, Reading
<1>10. CASE (Unblocks \/ AnomalyCheck) /\ Queued(i)
  <2>1. UNCHANGED <<link, silent, toAgent, toServer>>
    BY <1>10 DEF Unblocks, AnomalyCheck, server
  <2>2. job' # Nil => job'.id = Nil
    BY <1>10, AnomalyJob DEF Unblocks, AnomalyCheck
  <2>. QED  BY <1>1, <1>2, <1>10, <2>1, <2>2 DEF Place, Queued, Unbroken
<1>. QED  BY <1>3, <1>4, <1>5, <1>6, <1>7, <1>8, <1>9, <1>10 DEF Place

\* Time passes only while the program runs, and it runs no longer than the
\* request waits.
LEMMA PlaceTick ==
  ASSUME TypeOK, NEW i \in Id, Owed(i), Place(i), Tick, Owed(i)'
  PROVE  Place(i)'
<1>1. /\ reader = Nil /\ toServer = <<>> /\ pc[i] = "wait" /\ ch[i] = Nil /\ left[i] # 0
      /\ ~(InLoop /\ toAgent # <<>>)
  BY DEF Tick, Due, Owed
<1>2. Running(i)
  <2>1. ~Coming(i) /\ ~InHand(i)
    BY <1>1 DEF Coming, InHand
  <2>2. ~Queued(i)
    <3>1. ~(job # Nil /\ job.id = Nil)
      BY <1>1 DEF Tick, Owed
    <3>. QED  BY <1>1, <3>1 DEF Queued, InLoop
  <2>. QED  BY <2>1, <2>2 DEF Place
<1>3. job' = [job EXCEPT !.ran = job.ran + 1] /\ job \in Jobs
  BY <1>2, JobFields DEF Tick, Running, Reading
<1>4. job' \in Jobs /\ job'.ran = job.ran + 1 /\ job.ran \in Nat /\ job'.id = job.id
      /\ job'.at = job.at
  BY <1>3 DEF Jobs
<1>5. left'[i] = left[i] - 1 /\ left[i] \in Nat
  BY <1>1 DEF Tick, TypeOK
<1>6. left'[i] + job'.ran = left[i] + job.ran
  BY <1>4, <1>5
<1>7. UNCHANGED <<link, toServer, pending, finished, asked>>
  BY DEF Tick
<1>8. Wait(asked[i])' = Wait(asked[i])
  BY <1>7
<1>. QED  BY <1>2, <1>4, <1>6, <1>7, <1>8, NilAssumption DEF Place, Running, Reading, Unbroken

\* Wherever a step moves a request that is owed an answer, it has time left.
LEMMA OwedStep ==
  ASSUME TypeOK, IdInv, AnswerInv, SilenceInv, OwedInv, [Next]_vars
  PROVE  OwedInv'
<1>. SUFFICES ASSUME NEW i \in Id, Owed(i)' PROVE Place(i)'
  BY DEF OwedInv
<1>1. CASE \E c \in Commands : Request(i, c)
  BY <1>1, PlaceRequested DEF Place
<1>2. CASE ~\E c \in Commands : Request(i, c)
  <2>1. Owed(i) /\ asked'[i] = asked[i]
    BY <1>2, OwedBefore
  <2>2. Place(i)
    BY <2>1 DEF OwedInv
  <2>3. CASE \E j \in Id, c \in Commands : Request(j, c)
    BY <1>2, <2>2, <2>3, PlaceCalls
  <2>4. CASE \E j \in Id : Answered(j) \/ TimedOut(j)
    <3>1. PICK j \in Id : Answered(j) \/ TimedOut(j)
      BY <2>4
    <3>2. j # i
      BY <3>1 DEF Answered, TimedOut, Return, Owed, TypeOK
    <3>. QED  BY <2>2, <3>1, <3>2, PlaceCalls
  <2>5. CASE Server
    BY <2>1, <2>2, <2>5, PlaceDispatch, PlaceServer DEF Server
  <2>6. CASE Agent \/ AnomalyCheck \/ Child
    BY <2>1, <2>2, <2>6, Ending, PlaceHandled, PlaceFinished, PlaceAgent DEF Agent, Child
  <2>7. CASE Tick
    BY <2>1, <2>2, <2>7, PlaceTick
  <2>8. CASE UNCHANGED vars
    BY <2>2, <2>8 DEF vars, Place, Queued, Running, Coming, InHand, Reading, Unbroken, Wait
  <2>. QED  BY <2>3, <2>4, <2>5, <2>6, <2>7, <2>8 DEF Next
<1>. QED  BY <1>1, <1>2

\* A request that has time left does not give up.
LEMMA SlackStep ==
  ASSUME TypeOK, IdInv, AnswerInv, OwedInv, SlackIsEnough, [Next]_vars
  PROVE  SlackIsEnough'
<1>1. CASE \E i \in Id, c \in Commands : Request(i, c)
  <2>1. PICK i \in Id, c \in Commands : Request(i, c)
    BY <1>1
  <2>2. \A j \in Id : j # i => got'[j] = got[j] /\ asked'[j] = asked[j]
                               /\ (j \in alone' => j \in alone)
    BY <2>1 DEF Request, TypeOK
  <2>3. ~Got(i, "timeout")'
    <3>1. got[i] = Nil /\ (got' = got \/ got' = [got EXCEPT ![i] = Frame("error", Nil)])
      BY <2>1 DEF Request, IdInv
    <3>. QED  BY <3>1 DEF Got, Frame, TypeOK
  <2>. QED  BY <2>2, <2>3 DEF SlackIsEnough, Got, InTime, Short
<1>2. CASE \E i \in Id : Answered(i) \/ TimedOut(i)
  <2>1. PICK i \in Id : Answered(i) \/ TimedOut(i)
    BY <1>2
  <2>2. \A j \in Id : j # i => got'[j] = got[j]
    BY <2>1 DEF Answered, TimedOut, Return, TypeOK
  <2>3. UNCHANGED <<asked, alone>>
    BY <2>1 DEF Answered, TimedOut, Return
  <2>4. Got(i, "timeout")' => ~Owed(i)
    <3>1. CASE Answered(i)
      BY <3>1 DEF Answered, Return, Got, AnswerInv, TypeOK
    <3>2. CASE TimedOut(i)
      <4>1. left[i] = 0 /\ pc[i] = "wait"
        BY <3>2 DEF TimedOut
      <4>2. ~Coming(i) /\ ~InHand(i)
        BY <4>1 DEF Coming, InHand
      <4>3. ASSUME Owed(i) PROVE ~Queued(i)
        <5>1. asked[i] \in Commands
          BY <4>1 DEF IdInv
        <5>. QED  BY <4>1, <5>1, WaitPositive DEF Queued
      <4>4. ASSUME Owed(i), Running(i) PROVE FALSE
        <5>1. /\ job # Nil /\ job.cmd = asked[i] /\ job.cmd.type \in Programs
              /\ asked[i] \in Commands /\ left[i] + job.ran = Wait(asked[i])
          BY <4>1, <4>4, NilAssumption DEF Running, Reading, IdInv
        <5>2. job.ran \in Nat /\ job.ran <= asked[i].limit
          BY <5>1, JobFields
        <5>. QED  BY <4>1, <4>4, <5>1, <5>2, OwedWait
      <4>. QED  BY <4>2, <4>3, <4>4 DEF OwedInv, Place
    <3>. QED  BY <2>1, <3>1, <3>2
  <2>5. pc[i] = "wait"
    BY <2>1 DEF Answered, TimedOut
  <2>. QED  BY <2>2, <2>3, <2>4, <2>5 DEF SlackIsEnough, Got, Owed, InTime, Short
<1>3. CASE Server \/ Agent \/ AnomalyCheck \/ Child \/ Tick \/ UNCHANGED vars
  <2>1. UNCHANGED <<got, asked>> /\ alone' \subseteq alone
    BY <1>3 DEF Server, dispatch, Send, TooSilent, Agent, Heartbeat, handle_command, Reconnect,
       Kill, Child, Ends, Escapes, waitpid, Finish, Unblocks, AnomalyCheck, Tick, vars, calls
  <2>. QED  BY <2>1 DEF SlackIsEnough, Got, InTime, Short
<1>. QED  BY <1>1, <1>2, <1>3 DEF Next

-----------------------------------------------------------------------------
(* Theorems.                                                                *)

\* The invariant of the commands is inductive.
THEOREM Invariance == Spec => []IndInv
<1>1. Init => IndInv
  <2>. SUFFICES ASSUME Init PROVE IndInv
    OBVIOUS
  <2>1. TypeOK
    <3>1. /\ link \in {"up", "cut"} /\ silent \in 0 .. ReadDeadline
          /\ toAgent \in Seq(Id) /\ toServer \in Seq(Frames) /\ hb \in 0 .. Interval
      BY Constants DEF Init
    <3>2. checked \in BOOLEAN /\ held \in BOOLEAN
      BY DEF Init
    <3>. QED  BY <3>1, <3>2 DEF Init, TypeOK
  <2>2. IdInv /\ AnswerInv /\ OwedInv /\ OwnAnswer /\ SlackIsEnough
    BY DEF Init, IdInv, AnswerInv, OwedInv, Owed, OwnAnswer, SlackIsEnough, Got, Reading
  <2>3. SilenceInv /\ SilentOnlyWhenStuck
    BY Constants DEF Init, SilenceInv, SilentOnlyWhenStuck, Reading
  <2>. QED  BY <2>1, <2>2, <2>3 DEF IndInv
<1>2. IndInv /\ [Next]_vars => IndInv'
  BY TypeStep, IdStep, AnswerStep, SilenceStep, StuckStep, OwedStep, OwnAnswerStep, SlackStep
  DEF IndInv
<1>. QED  BY <1>1, <1>2, PTL DEF Spec

\* Every variable of server and agent keeps its type: the time Request has
\* left, the silence of the agent and the running time of a program stay
\* within their limits.
THEOREM TypeCorrect == Spec => []TypeOK
<1>1. IndInv => TypeOK
  BY DEF IndInv
<1>. QED  BY Invariance, <1>1, PTL

\* Request returns only the answer to its own command, and only when the agent
\* has finished it (dispatch, ac.pending).
THEOREM AnswerSafety == Spec => []OwnAnswer
<1>1. IndInv => OwnAnswer
  BY DEF IndInv
<1>. QED  BY Invariance, <1>1, PTL

\* With heartbeats more often than the read deadline of the server, the deadline
\* passes only when the thread of the agent's loop was in a call without a limit,
\* or ran a program with a limit as long as the deadline.
THEOREM SilenceSafety == Spec => []SilentOnlyWhenStuck
<1>1. IndInv => SilentOnlyWhenStuck
  BY DEF IndInv
<1>. QED  BY Invariance, <1>1, PTL

\* A command that ends or is killed within its limit, and for which the handler
\* waits longer than that limit, is answered before Request gives up when it is
\* sent to an agent with nothing else to do.
THEOREM SlackSafety == Spec => []SlackIsEnough
<1>1. IndInv => SlackIsEnough
  BY DEF IndInv
<1>. QED  BY Invariance, <1>1, PTL

=============================================================================
