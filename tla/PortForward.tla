----------------------------- MODULE PortForward -----------------------------
(***************************************************************************)
(* Port forwarding over the control connection of one agent: the Manager   *)
(* of portfwd.go on the server, the forwarding contexts and the reader     *)
(* threads of portforward.c on the agent.                                  *)
(*                                                                         *)
(* A user's connection to the server's listener gets a connection id; the  *)
(* agent opens a connection to the local target for it, in a slot of the   *)
(* forward's context, and starts a reader thread.  The agent's main thread *)
(* changes slots under g_pf_mu; the readers use them without it.           *)
(*                                                                         *)
(* A socket to the target is named by the connection it was opened for.    *)
(* Payloads are not modelled: a message carries the socket its data came   *)
(* from.                                                                   *)
(***************************************************************************)
EXTENDS Naturals, Sequences, FiniteSets, SequencesExt

CONSTANTS Fwd,        \* forward ids; Manager.Create runs once for each
          Cid,        \* connection ids, one for each user connection
          Ctx,        \* g_pf
          ConnSlot,   \* conns of a context
          Users,      \* forward -> the connections that may come to its listener
          MaxData,    \* bound on the chunks a target sends
          NoId

ASSUME PFAssumption ==
  MaxData \in Nat /\ NoId \notin Fwd \cup Cid /\ Users \in [Fwd -> SUBSET Cid]

VARIABLES
  \* the server
  create,     \* where Create is, for each forward
  forwards,   \* Manager.forwards
  listener,   \* the forwards whose listener is open
  conns,      \* activeForward.conns: forward -> connection ids
  fwdOf,      \* the forward a user connected to
  user,       \* the server's end of the user's connection
  handler,    \* where handleConn is, for each connection
  \* the control connection
  link,       \* "up", "lost", or "ended" (the OnOffline callback has run)
  toAgent, toServer,
  \* the agent
  ctx,        \* context -> the forward it is used for
  slot,       \* its connection slots
  reader,     \* the thread started for a connection
  target,     \* the target's end of a connection
  sent        \* chunks sent by targets

server == <<create, forwards, listener, conns, fwdOf, user, handler>>
agent  == <<ctx, slot, reader, target, sent>>
forwardVars == <<create, forwards, listener, conns, fwdOf, user, handler, link, toAgent,
                 toServer, ctx, slot, reader, target, sent>>

FreeSlot == [cid |-> NoId, fd |-> NoId, active |-> FALSE]
NoReader == [pc |-> "none", ctx |-> NoId, slot |-> NoId, fd |-> NoId]
Message  == [type : {"pf_open", "pf_close"}, fid : Fwd]
              \cup [type : {"pf_accept", "pf_data", "closed"}, fid : Fwd, cid : Cid]

ForwardTypeOK ==
  /\ create \in [Fwd -> {"none", "requested", "acked", "done", "failed"}]
  /\ forwards \subseteq Fwd /\ listener \subseteq Fwd
  /\ conns \in [Fwd -> SUBSET Cid]
  /\ fwdOf \in [Cid -> Fwd \cup {NoId}]
  /\ user \in [Cid -> {"none", "open", "closed"}]
  /\ handler \in [Cid -> {"none", "start", "accept", "read", "notify", "done"}]
  /\ link \in {"up", "lost", "ended"}
  /\ \A i \in 1 .. Len(toAgent) : toAgent[i] \in Message
  /\ ctx \in [Ctx -> Fwd \cup {NoId}]
  /\ slot \in [Ctx -> [ConnSlot -> [cid : Cid \cup {NoId}, fd : Cid \cup {NoId}, active : BOOLEAN]]]
  /\ \A c \in Cid : reader[c].pc \in {"none", "check", "read", "send", "close", "exit", "gone"}
  /\ target \in [Cid -> {"none", "open", "eof", "shut"}]
  /\ sent \in 0 .. MaxData
  \* every connected socket of a slot is that of the connection the slot is for
  /\ \A x \in Ctx, j \in ConnSlot : slot[x][j].fd \in {NoId, slot[x][j].cid}

ForwardInit ==
  /\ create = [f \in Fwd |-> "none"]
  /\ forwards = {} /\ listener = {}
  /\ conns = [f \in Fwd |-> {}]
  /\ fwdOf = [c \in Cid |-> NoId]
  /\ user = [c \in Cid |-> "none"]
  /\ handler = [c \in Cid |-> "none"]
  /\ link = "up" /\ toAgent = <<>> /\ toServer = <<>>
  /\ ctx = [x \in Ctx |-> NoId]
  /\ slot = [x \in Ctx |-> [j \in ConnSlot |-> FreeSlot]]
  /\ reader = [c \in Cid |-> NoReader]
  /\ target = [c \in Cid |-> "none"]
  /\ sent = 0

\* SendNoWait: on a connection that is lost, before the server notices, the
\* message goes nowhere; once it has been closed, the write fails.
Send(m) == toAgent' = IF link = "up" THEN Append(toAgent, m) ELSE toAgent

ToServer(m) == toServer' = IF link = "up" THEN Append(toServer, m) ELSE toServer

-----------------------------------------------------------------------------
(* The server: Manager.Create, in three steps.                              *)

CreateRequest(f) ==
  /\ create[f] = "none" /\ link # "ended"
  /\ Send([type |-> "pf_open", fid |-> f])
  /\ create' = [create EXCEPT ![f] = "requested"]
  /\ UNCHANGED <<forwards, listener, conns, fwdOf, user, handler, link, toServer, agent>>

\* Request gets no answer in 15 seconds, or fails.
CreateTimeout(f) ==
  /\ create[f] = "requested"
  /\ create' = [create EXCEPT ![f] = "failed"]
  /\ UNCHANGED <<forwards, listener, conns, fwdOf, user, handler, link, toAgent, toServer, agent>>

\* The listener opens and the forward is registered, or the address is taken and
\* the agent is told to close.
CreateListen(f) ==
  /\ create[f] = "acked"
  /\ \/ /\ listener' = listener \cup {f}
        /\ forwards' = forwards \cup {f}
        /\ create' = [create EXCEPT ![f] = "done"]
        /\ UNCHANGED toAgent
     \/ /\ Send([type |-> "pf_close", fid |-> f])
        /\ create' = [create EXCEPT ![f] = "failed"]
        /\ UNCHANGED <<listener, forwards>>
  /\ UNCHANGED <<conns, fwdOf, user, handler, link, toServer, agent>>

Shut(C) == user' = [c \in Cid |-> IF c \in C THEN "closed" ELSE user[c]]

\* Manager.Close, after the forward has left the map.
CloseForwards(F) ==
  /\ forwards' = forwards \ F
  /\ listener' = listener \ F
  /\ Shut(UNION {conns[f] : f \in F})
  /\ conns' = [f \in Fwd |-> IF f \in F THEN {} ELSE conns[f]]

Close(f) ==
  /\ f \in forwards
  /\ CloseForwards({f})
  /\ Send([type |-> "pf_close", fid |-> f])
  /\ UNCHANGED <<create, fwdOf, handler, link, toServer, agent>>

\* The server notices that the connection is lost: OnOffline, CloseByAgent.
Offline ==
  /\ link = "lost"
  /\ link' = "ended"
  /\ CloseForwards(forwards)
  /\ UNCHANGED <<create, fwdOf, handler, toAgent, toServer, agent>>

-----------------------------------------------------------------------------
(* The server: one goroutine for each user connection.                      *)

Accept(f, c) ==
  /\ f \in listener /\ c \in Users[f] /\ user[c] = "none"
  /\ fwdOf' = [fwdOf EXCEPT ![c] = f]
  /\ user' = [user EXCEPT ![c] = "open"]
  /\ handler' = [handler EXCEPT ![c] = "start"]
  /\ UNCHANGED <<create, forwards, listener, conns, link, toAgent, toServer, agent>>

HandleStart(c) ==
  /\ handler[c] = "start"
  /\ conns' = [conns EXCEPT ![fwdOf[c]] = @ \cup {c}]
  /\ handler' = [handler EXCEPT ![c] = "accept"]
  /\ UNCHANGED <<create, forwards, listener, fwdOf, user, link, toAgent, toServer, agent>>

CloseConn(f, c) ==
  /\ conns' = [conns EXCEPT ![f] = @ \ {c}]
  /\ IF c \in conns[f] THEN Shut({c}) ELSE UNCHANGED user

HandleAccept(c) ==
  /\ handler[c] = "accept"
  /\ \/ /\ link # "ended"
        /\ Send([type |-> "pf_accept", fid |-> fwdOf[c], cid |-> c])
        /\ handler' = [handler EXCEPT ![c] = "read"]
        /\ UNCHANGED <<conns, user>>
     \/ /\ link = "ended"
        /\ CloseConn(fwdOf[c], c)
        /\ handler' = [handler EXCEPT ![c] = "done"]
        /\ UNCHANGED toAgent
  /\ UNCHANGED <<create, forwards, listener, fwdOf, link, toServer, agent>>

\* The user closes the connection, or somebody closed the server's end.
HandleEOF(c) ==
  /\ handler[c] = "read"
  /\ CloseConn(fwdOf[c], c)
  /\ handler' = [handler EXCEPT ![c] = "notify"]
  /\ UNCHANGED <<create, forwards, listener, fwdOf, link, toAgent, toServer, agent>>

HandleNotify(c) ==
  /\ handler[c] = "notify"
  /\ Send([type |-> "closed", fid |-> fwdOf[c], cid |-> c])
  /\ handler' = [handler EXCEPT ![c] = "done"]
  /\ UNCHANGED <<create, forwards, listener, conns, fwdOf, user, link, toServer, agent>>

\* A message of the agent: the answer to pf_open, or OnData.
ServerReceive ==
  /\ toServer # <<>>
  /\ LET m == Head(toServer)
     IN  \/ /\ m.type = "ack"
            /\ create' = [create EXCEPT ![m.fid] = IF @ = "requested" THEN "acked" ELSE @]
            /\ UNCHANGED <<conns, user>>
         \/ /\ m.type = "error"
            /\ create' = [create EXCEPT ![m.fid] = IF @ = "requested" THEN "failed" ELSE @]
            /\ UNCHANGED <<conns, user>>
         \/ /\ m.type = "closed" /\ m.fid \in forwards
            /\ CloseConn(m.fid, m.cid)
            /\ UNCHANGED create
         \/ /\ m.type = "data" \/ (m.type = "closed" /\ m.fid \notin forwards)
            /\ UNCHANGED <<create, conns, user>>
  /\ toServer' = Tail(toServer)
  /\ UNCHANGED <<forwards, listener, fwdOf, handler, link, toAgent, agent>>

-----------------------------------------------------------------------------
(* The agent's main thread: handle_command.                                 *)

CtxOf(f) == {x \in Ctx : ctx[x] = f}

Receive(type) == toAgent # <<>> /\ Head(toAgent).type = type /\ toAgent' = Tail(toAgent)

\* Mutant: pf_open answers ok even when no context is free.
AgentOpenAlwaysAcks ==
  /\ Receive("pf_open")
  /\ \/ \E x \in CtxOf(NoId) :
          /\ ctx' = [ctx EXCEPT ![x] = Head(toAgent).fid]
          /\ slot' = [slot EXCEPT ![x] = [j \in ConnSlot |-> FreeSlot]]
     \/ CtxOf(NoId) = {} /\ UNCHANGED <<ctx, slot>>
  /\ toServer' = Append(toServer, [type |-> "ack", fid |-> Head(toAgent).fid])
  /\ UNCHANGED <<server, link, reader, target, sent>>

\* ctc_pf_open clears the whole context, whatever its old readers are doing.
AgentOpen ==
  /\ Receive("pf_open")
  /\ \/ \E x \in CtxOf(NoId) :
          /\ ctx' = [ctx EXCEPT ![x] = Head(toAgent).fid]
          /\ slot' = [slot EXCEPT ![x] = [j \in ConnSlot |-> FreeSlot]]
          /\ toServer' = Append(toServer, [type |-> "ack", fid |-> Head(toAgent).fid])
     \/ /\ CtxOf(NoId) = {}
        /\ toServer' = Append(toServer, [type |-> "error", fid |-> Head(toAgent).fid])
        /\ UNCHANGED <<ctx, slot>>
  /\ UNCHANGED <<server, link, reader, target, sent>>

\* What closing a slot's socket leaves: the slot is inactive, its id stays.
Emptied(s) == IF s.active THEN [s EXCEPT !.active = FALSE, !.fd = NoId] ELSE s

\* ctc_pf_close shuts every connection down, so that its reader wakes up.
AgentClose ==
  /\ Receive("pf_close")
  /\ LET X == CtxOf(Head(toAgent).fid)
         C == {slot[x][j].fd : x \in X, j \in ConnSlot}
     IN  /\ ctx' = [x \in Ctx |-> IF x \in X THEN NoId ELSE ctx[x]]
         /\ slot' = [x \in Ctx |-> IF x \in X THEN [j \in ConnSlot |-> Emptied(slot[x][j])] ELSE slot[x]]
         /\ target' = [c \in Cid |-> IF c \in C THEN "shut" ELSE target[c]]
  /\ UNCHANGED <<server, link, toServer, reader, sent>>

\* ctc_pf_accept_conn: a connection to the target and a reader thread.  If the
\* forward is unknown, its slots are used up or the target refuses, nothing is
\* reported.
AgentAccept ==
  /\ Receive("pf_accept")
  /\ LET c == Head(toAgent).cid
     IN  \/ \E x \in CtxOf(Head(toAgent).fid), j \in ConnSlot :
              /\ ~slot[x][j].active /\ slot[x][j].fd = NoId
              /\ slot' = [slot EXCEPT ![x][j] = [cid |-> c, fd |-> c, active |-> TRUE]]
              /\ reader' = [reader EXCEPT ![c] = [pc |-> "check", ctx |-> x, slot |-> j, fd |-> NoId]]
              /\ target' = [target EXCEPT ![c] = "open"]
         \/ UNCHANGED <<slot, reader, target>>
  /\ UNCHANGED <<server, link, toServer, ctx, sent>>

\* ctc_pf_conn_close closes the socket; a reader blocked in read() stays there.
AgentConnClose ==
  /\ Receive("closed")
  /\ LET m == Head(toAgent)
     IN  slot' = [x \in Ctx |-> [j \in ConnSlot |->
           IF ctx[x] = m.fid /\ slot[x][j].cid = m.cid THEN Emptied(slot[x][j]) ELSE slot[x][j]]]
  /\ UNCHANGED <<server, link, toServer, ctx, reader, target, sent>>

\* The connection is lost: ctc_pf_close_all.
LoseLink ==
  /\ link = "up"
  /\ link' = "lost"
  /\ toAgent' = <<>> /\ toServer' = <<>>
  /\ slot' = [x \in Ctx |-> [j \in ConnSlot |->
                IF ctx[x] # NoId THEN Emptied(slot[x][j]) ELSE slot[x][j]]]
  /\ ctx' = [x \in Ctx |-> NoId]
  /\ UNCHANGED <<server, reader, target, sent>>

-----------------------------------------------------------------------------
(* The agent's reader threads, which look at their slot without the lock.   *)

SlotOf(c) == slot[reader[c].ctx][reader[c].slot]
GotoR(c, p) == reader' = [reader EXCEPT ![c].pc = p]

ReaderCheck(c) ==
  /\ reader[c].pc = "check"
  /\ \/ SlotOf(c).active /\ reader' = [reader EXCEPT ![c].pc = "read", ![c].fd = SlotOf(c).fd]
     \/ ~SlotOf(c).active /\ GotoR(c, "close")
  /\ UNCHANGED <<server, link, toAgent, toServer, ctx, slot, target, sent>>

\* read() returns data of the target the thread reads from ...
ReaderData(c) ==
  /\ reader[c].pc = "read" /\ reader[c].fd # NoId
  /\ target[reader[c].fd] = "open" /\ sent < MaxData
  /\ sent' = sent + 1
  /\ GotoR(c, "send")
  /\ UNCHANGED <<server, link, toAgent, toServer, ctx, slot, target>>

\* ... or fails: the target closed, the socket was shut down, or there is none.
ReaderEnd(c) ==
  /\ reader[c].pc = "read"
  /\ reader[c].fd = NoId \/ target[reader[c].fd] \in {"eof", "shut"}
  /\ GotoR(c, "close")
  /\ UNCHANGED <<server, link, toAgent, toServer, ctx, slot, target, sent>>

\* ctc_pf_send_data and ctc_pf_send_close, with the ids the context and the slot
\* have now.  For a context that is out of use, or a slot that was cleared, they
\* name no forward or connection of the server.
Report(c, type) ==
  IF ctx[reader[c].ctx] # NoId /\ SlotOf(c).cid # NoId
    THEN ToServer([type |-> type, fid |-> ctx[reader[c].ctx], cid |-> SlotOf(c).cid,
                   src |-> reader[c].fd])
    ELSE UNCHANGED toServer

ReaderSend(c) ==
  /\ reader[c].pc = "send"
  /\ Report(c, "data")
  /\ GotoR(c, "check")
  /\ UNCHANGED <<server, link, toAgent, ctx, slot, target, sent>>

\* Mutant: the server is not told that the target closed.
ReaderCloseQuietly(c) ==
  /\ reader[c].pc = "close"
  /\ GotoR(c, "exit")
  /\ UNCHANGED <<server, link, toAgent, toServer, ctx, slot, target, sent>>

ReaderClose(c) ==
  /\ reader[c].pc = "close"
  /\ Report(c, "closed")
  /\ GotoR(c, "exit")
  /\ UNCHANGED <<server, link, toAgent, ctx, slot, target, sent>>

ReaderExit(c) ==
  /\ reader[c].pc = "exit"
  /\ slot' = [slot EXCEPT ![reader[c].ctx][reader[c].slot].active = FALSE,
                          ![reader[c].ctx][reader[c].slot].fd = NoId]
  /\ reader' = [reader EXCEPT ![c] = [NoReader EXCEPT !.pc = "gone"]]
  /\ UNCHANGED <<server, link, toAgent, toServer, ctx, target, sent>>

TargetCloses(c) ==
  /\ target[c] = "open"
  /\ target' = [target EXCEPT ![c] = "eof"]
  /\ UNCHANGED <<server, link, toAgent, toServer, ctx, slot, reader, sent>>

-----------------------------------------------------------------------------

Main == AgentOpen \/ AgentClose \/ AgentAccept \/ AgentConnClose
Reader(c) == ReaderCheck(c) \/ ReaderData(c) \/ ReaderEnd(c) \/ ReaderSend(c) \/ ReaderClose(c) \/ ReaderExit(c)
Handler(c) == HandleStart(c) \/ HandleAccept(c) \/ HandleNotify(c)

ForwardNext ==
  \/ \E f \in Fwd : \/ CreateRequest(f) \/ CreateTimeout(f) \/ CreateListen(f) \/ Close(f)
                    \/ \E c \in Cid : Accept(f, c)
  \/ \E c \in Cid : Handler(c) \/ HandleEOF(c) \/ Reader(c) \/ TargetCloses(c)
  \/ ServerReceive \/ Main \/ LoseLink \/ Offline

ForwardSpec == ForwardInit /\ [][ForwardNext]_forwardVars

\* Threads and goroutines that are not waiting for the outside go on, and so does
\* the connection while it is up.  handleConn's read ends when the server's end of
\* the user's connection was closed.
ForwardFairSpec ==
  /\ ForwardSpec
  /\ WF_forwardVars(ServerReceive) /\ WF_forwardVars(Main) /\ WF_forwardVars(Offline)
  /\ \A c \in Cid : /\ WF_forwardVars(Handler(c))
                    /\ WF_forwardVars(ReaderCheck(c) \/ ReaderEnd(c) \/ ReaderSend(c)
                                 \/ ReaderClose(c) \/ ReaderExit(c))
                    /\ WF_forwardVars(user[c] = "closed" /\ HandleEOF(c))

-----------------------------------------------------------------------------

\* A forward that Create has listed is open on the agent as long as the two are
\* connected: an open that was refused, timed out or rolled back is never listed, and
\* Close takes a forward off the list before it tells the agent.
ListedIsOpen ==
  link = "up" => \A f \in forwards : CtxOf(f) # {}

\* A connection the agent has opened to the target does not outlive it: when the
\* target closes, the user's connection is closed, through the reader, the control
\* connection and OnData, or the forward is gone.  And when the agent is lost, the
\* users whose connections are listed (handleConn) are disconnected, whatever
\* handlers, readers and the clean-up of the connection do meanwhile.  A user whose
\* pf_accept failed is not spoken of: nobody tells the server (agent.c:439-441).
UsersAreDisconnected ==
  \A c \in Cid :
    /\ (target[c] = "eof" /\ fwdOf[c] \in forwards)
         ~> (user[c] = "closed" \/ fwdOf[c] \notin forwards)
    /\ (link = "lost" /\ \E f \in forwards : c \in conns[f]) ~> user[c] = "closed"

-----------------------------------------------------------------------------
(* What the comments of the code promise and the code does not keep.        *)

\* When the agent goes off line all its forwards are cleaned up.
NoForwardWithoutAgent == link = "ended" => forwards = {} /\ listener = {}

\* A Create that fails is rolled back on the agent.
FailedIsRolledBack ==
  \A f \in Fwd : [](create[f] = "failed" => <>(CtxOf(f) = {}))

\* One reader thread for each connection, from its target to the server: what the
\* server gets for a connection comes from that connection's target.
DataOfOwnTarget ==
  \A i \in 1 .. Len(toServer) :
    toServer[i].type = "data" => toServer[i].src = toServer[i].cid
=============================================================================
