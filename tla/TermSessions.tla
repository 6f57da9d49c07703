---------------------------- MODULE TermSessions ----------------------------
(***************************************************************************)
(* Remote terminals: the persistent sessions of httpapi/terminal.go, the   *)
(* output channels of agentconn.go and the pty slots of the agent's        *)
(* terminal.c, for one agent.                                              *)
(*                                                                         *)
(* A session object outlives the browser connection (ws) attached to it.   *)
(* Three kinds of goroutine share it: the handler and reader of each ws,   *)
(* the pump that takes the agent's output from the session's channel, and  *)
(* the REST handlers that close a session.  They find each other through a *)
(* registry keyed by session id.  What a goroutine takes out of a session  *)
(* or a map under a lock and uses after the unlock it has in hand in       *)
(* between.  The connection to the agent may be replaced.  Sessions of the *)
(* SSH gateway are not in this module.                                     *)
(***************************************************************************)
EXTENDS Naturals, Sequences, FiniteSets, FiniteSetsExt, SequencesExt

CONSTANTS Sid,         \* session ids
          Ws,          \* browser connections
          Closer,      \* the REST requests that close a session
          Slot,        \* g_terms of the agent
          MaxSession,  \* bound on the session objects created
          MaxConn,     \* bound on the connections of the agent
          MaxOut,      \* bound on the chunks of output
          MaxBuffer,   \* maxTermBuffer, in chunks
          ChanCap,     \* capacity of an output channel
          None

ASSUME TermAssumption ==
  /\ MaxSession \in Nat /\ MaxConn \in Nat \ {0} /\ MaxOut \in Nat
  /\ MaxBuffer \in Nat \ {0} /\ ChanCap \in Nat \ {0}
  /\ None \notin Sid \cup Ws

VARIABLES
  obj,       \* the session objects, in the order of their creation
  reg,       \* termReg: session id -> object, 0 if none
  chan,      \* the output channel of each object: contents, closed or not
  term,      \* ac.term: connection -> session id -> object that reads, 0 if none
  ws,        \* the browser connections and their goroutines
  rest,      \* the REST handlers: where they are and the ws in hand
  last,      \* the ws each session's pump has in hand when it ends
  hand,      \* the message each connection's reader has in hand, and its channel
  sess,      \* agentconn.sessions: the connection registered, 0 if none
  link,      \* the connection the agent really has, 0 if none
  ended,     \* connections whose deferred clean-up has run
  toAgent, toServer,   \* messages on the agent's connection
  slots,     \* the agent's terminals
  nOut       \* chunks of output produced

vars == <<obj, reg, chan, term, ws, rest, last, hand, sess, link, ended, toAgent, toServer,
          slots, nOut>>
inHand    == <<rest, last, hand>>
agentSide == <<link, slots, nOut>>
wires     == <<toAgent, toServer>>

ObjId == 1 .. Len(obj)
Conn  == 1 .. MaxConn
Chunk == 1 .. MaxOut
NoWs  == [pc |-> "idle", sid |-> None, suspend |-> FALSE, conn |-> 0, obj |-> 0,
          open |-> FALSE, backlog |-> <<>>, got |-> <<>>]

NoRest == [pc |-> "idle", obj |-> 0, ws |-> None]
Empty  == [obj |-> 0, data |-> 0, closed |-> FALSE]

\* A session object, its output channel, the goroutine of a browser connection, that
\* of a REST request, and what a reader has looked up.
Object  == [id : Sid, ac : Conn, ws : Ws \cup {None}, buffer : Seq(Chunk),
            suspended : BOOLEAN, closed : BOOLEAN]
Channel == [items : Seq(Chunk \cup {0}), closed : BOOLEAN]
Handler == [pc : {"idle", "lookup", "create", "attach", "replay", "read", "detach",
                  "remove", "end"},
            sid : Sid \cup {None}, suspend : BOOLEAN, conn : 0 .. MaxConn, obj : Nat,
            open : BOOLEAN, backlog : Seq(Chunk), got : Seq(Chunk)]
Request == [pc : {"idle", "take", "close", "remove"}, obj : Nat, ws : Ws \cup {None}]
Lookups == [obj : Nat, data : 0 .. MaxOut, closed : BOOLEAN]

TypeOK ==
  /\ obj \in Seq(Object) /\ Len(obj) <= MaxSession
  /\ chan \in Seq(Channel) /\ Len(chan) = Len(obj)
  /\ \A o \in ObjId : Len(obj[o].buffer) <= MaxBuffer /\ Len(chan[o].items) <= ChanCap
  /\ reg \in [Sid -> 0 .. Len(obj)]
  /\ term \in [Conn -> [Sid -> 0 .. Len(obj)]]
  /\ ws \in [Ws -> Handler]
  /\ \A w \in Ws :
       /\ ws[w].obj \in 0 .. Len(obj)
       /\ ws[w].pc \in {"attach", "replay", "read", "detach", "remove"} => ws[w].obj # 0
  /\ rest \in [Closer -> Request] /\ hand \in [Conn -> Lookups]
  /\ last \in [1 .. MaxSession -> Ws \cup {None}]
  /\ \A h \in Closer : rest[h].obj <= Len(obj) /\ (rest[h].pc # "idle" => rest[h].obj # 0)
  /\ \A c \in Conn : hand[c].obj <= Len(obj)
  /\ sess \in 0 .. MaxConn /\ link \in 0 .. MaxConn /\ ended \subseteq Conn
  /\ toAgent \in Seq([type : {"open", "close"}, sid : Sid])
  /\ toServer \in Seq([sid : Sid, data : 0 .. MaxOut, closed : BOOLEAN])
  /\ slots \in [Slot -> [sid : Sid \cup {None}, running : BOOLEAN]]
  /\ nOut \in 0 .. MaxOut

Init ==
  /\ obj = <<>> /\ chan = <<>>
  /\ reg = [s \in Sid |-> 0]
  /\ term = [c \in Conn |-> [s \in Sid |-> 0]]
  /\ ws = [w \in Ws |-> NoWs]
  /\ rest = [h \in Closer |-> NoRest]
  /\ last = [o \in 1 .. MaxSession |-> None]
  /\ hand = [c \in Conn |-> Empty]
  /\ sess = 1 /\ link = 1 /\ ended = {}
  /\ toAgent = <<>> /\ toServer = <<>>
  /\ slots = [i \in Slot |-> [sid |-> None, running |-> FALSE]]
  /\ nOut = 0

-----------------------------------------------------------------------------
(* What the goroutines share.                                               *)

\* A write on connection c fails once the server has closed it.
Send(c, m) == toAgent' = IF c = sess /\ c = link THEN Append(toAgent, m) ELSE toAgent

\* AgentConn.CloseTerm: the channel is dropped from the map, not closed.
CloseTerm(c, s) ==
  /\ term' = [term EXCEPT ![c][s] = 0]
  /\ Send(c, [type |-> "close", sid |-> s])

RegRemove(s) == reg' = [reg EXCEPT ![s] = 0]

Goto(w, p) == ws' = [ws EXCEPT ![w].pc = p]

\* The ws is closed and its goroutine has returned.
Gone == [NoWs EXCEPT !.pc = "end"]

-----------------------------------------------------------------------------
(* The handler of a browser connection: terminalWS and attach.              *)

Browse(w, s, suspend) ==
  /\ ws[w].pc = "idle"
  /\ ws' = [ws EXCEPT ![w] = [NoWs EXCEPT !.pc = "lookup", !.sid = s, !.suspend = suspend]]
  /\ UNCHANGED <<inHand, obj, reg, chan, term, sess, ended, agentSide, wires>>

\* The session is reused if its id is registered, else one is to be created on the
\* agent's connection, if it has one.
Lookup(w) ==
  /\ ws[w].pc = "lookup"
  /\ LET o == reg[ws[w].sid]
     IN  \/ o # 0 /\ ws' = [ws EXCEPT ![w].pc = "attach", ![w].obj = o, ![w].open = TRUE]
         \/ o = 0 /\ sess # 0 /\ ws' = [ws EXCEPT ![w].pc = "create", ![w].conn = sess, ![w].open = TRUE]
         \/ o = 0 /\ sess = 0 /\ ws' = [ws EXCEPT ![w] = Gone]
  /\ UNCHANGED <<inHand, obj, reg, chan, term, sess, ended, agentSide, wires>>

\* OpenTerm, then the new object, its registration and its pump.
Create(w) ==
  /\ ws[w].pc = "create"
  /\ LET c == ws[w].conn
         s == ws[w].sid
         o == Len(obj) + 1
     IN  \/ /\ c = sess /\ o <= MaxSession
            /\ obj' = Append(obj, [id |-> s, ac |-> c, ws |-> None, buffer |-> <<>>,
                                   suspended |-> ws[w].suspend, closed |-> FALSE])
            /\ chan' = Append(chan, [items |-> <<>>, closed |-> FALSE])
            /\ term' = [term EXCEPT ![c][s] = o]
            /\ Send(c, [type |-> "open", sid |-> s])
            /\ reg' = [reg EXCEPT ![s] = o]
            /\ ws' = [ws EXCEPT ![w].pc = "attach", ![w].obj = o]
         \/ /\ c # sess
            /\ term' = [term EXCEPT ![c][s] = 0]
            /\ ws' = [ws EXCEPT ![w] = Gone]
            /\ UNCHANGED <<obj, chan, toAgent, reg>>
  /\ UNCHANGED <<inHand, sess, ended, toServer, agentSide>>

\* Mutant: the ws that was attached before is not closed.
AttachKeepsOld(w) ==
  /\ ws[w].pc = "attach"
  /\ LET o == ws[w].obj
     IN  /\ obj' = [obj EXCEPT ![o].ws = w, ![o].suspended = ws[w].suspend]
         /\ ws' = [ws EXCEPT ![w].pc = "replay", ![w].backlog = obj[o].buffer]
  /\ UNCHANGED <<inHand, reg, chan, term, sess, ended, agentSide, wires>>

\* Under the session's lock: the old ws is closed, the new one takes its place,
\* and what is to be replayed is copied.
Attach(w) ==
  /\ ws[w].pc = "attach"
  /\ LET o == ws[w].obj
     IN  /\ obj' = [obj EXCEPT ![o].ws = w, ![o].suspended = ws[w].suspend]
         /\ ws' = [v \in Ws |->
              IF v = w THEN [ws[v] EXCEPT !.pc = "replay", !.backlog = obj[o].buffer]
              ELSE IF v = obj[o].ws THEN [ws[v] EXCEPT !.open = FALSE]
              ELSE ws[v]]
  /\ UNCHANGED <<inHand, reg, chan, term, sess, ended, agentSide, wires>>

\* The copy is written without the lock.
Replay(w) ==
  /\ ws[w].pc = "replay"
  /\ ws' = [ws EXCEPT ![w].pc = "read", ![w].backlog = <<>>,
                      ![w].got = IF ws[w].open THEN @ \o ws[w].backlog ELSE @]
  /\ UNCHANGED <<inHand, obj, reg, chan, term, sess, ended, agentSide, wires>>

\* The browser leaves, or the server closed the ws: ReadMessage fails.
BrowserLeaves(w) ==
  /\ ws[w].open
  /\ ws' = [ws EXCEPT ![w].open = FALSE]
  /\ UNCHANGED <<inHand, obj, reg, chan, term, sess, ended, agentSide, wires>>

\* Input whose send to the agent fails ends the reader too.
ReadFails(w) ==
  /\ ws[w].pc = "read"
  /\ ~ws[w].open \/ obj[ws[w].obj].ac # sess
  /\ Goto(w, "detach")
  /\ UNCHANGED <<inHand, obj, reg, chan, term, sess, ended, agentSide, wires>>

AskSuspend(w, b) ==
  /\ ws[w].pc = "read" /\ ws[w].open
  /\ obj[ws[w].obj].suspended # b
  /\ obj' = [obj EXCEPT ![ws[w].obj].suspended = b]
  /\ UNCHANGED <<inHand, reg, chan, term, ws, sess, ended, agentSide, wires>>

AskClose(w) ==
  /\ ws[w].pc = "read" /\ ws[w].open
  /\ LET o == ws[w].obj
     IN  /\ CloseTerm(obj[o].ac, obj[o].id)
         /\ RegRemove(obj[o].id)
  /\ Goto(w, "detach")
  /\ UNCHANGED <<inHand, obj, chan, sess, ended, toServer, agentSide>>

\* Mutant: a session is kept unless its shell has ended.
DetachKeepsAll(w) ==
  /\ ws[w].pc = "detach"
  /\ LET o == ws[w].obj
     IN  /\ obj' = [obj EXCEPT ![o].ws = IF @ = w THEN None ELSE @]
         /\ ws' = [ws EXCEPT ![w] = IF ~obj[o].closed THEN Gone
                                     ELSE [@ EXCEPT !.open = FALSE, !.pc = "remove"]]
  /\ UNCHANGED <<inHand, reg, chan, term, sess, ended, agentSide, wires>>

\* The deferred function of the reader: first under the session's lock ...
Detach(w) ==
  /\ ws[w].pc = "detach"
  /\ LET o == ws[w].obj
     IN  /\ obj' = [obj EXCEPT ![o].ws = IF @ = w THEN None ELSE @]
         /\ ws' = [ws EXCEPT ![w] = IF obj[o].suspended /\ ~obj[o].closed THEN Gone
                                     ELSE [@ EXCEPT !.open = FALSE, !.pc = "remove", !.got = <<>>]]
  /\ UNCHANGED <<inHand, reg, chan, term, sess, ended, agentSide, wires>>

\* Mutant: the channel is closed along with the terminal.
CleanUpClosesChannel(w) ==
  /\ ws[w].pc = "remove"
  /\ LET o == ws[w].obj
     IN  /\ CloseTerm(obj[o].ac, obj[o].id) /\ RegRemove(obj[o].id)
         /\ chan' = [chan EXCEPT ![o].closed = TRUE]
  /\ ws' = [ws EXCEPT ![w] = Gone]
  /\ UNCHANGED <<inHand, obj, sess, ended, toServer, agentSide>>

\* ... then without it, by session id.
CleanUp(w) ==
  /\ ws[w].pc = "remove"
  /\ LET o == ws[w].obj
     IN  CloseTerm(obj[o].ac, obj[o].id) /\ RegRemove(obj[o].id)
  /\ ws' = [ws EXCEPT ![w] = Gone]
  /\ UNCHANGED <<inHand, obj, chan, sess, ended, toServer, agentSide>>

\* The ws x is closed.
CloseWs(x) == ws' = [w \in Ws |-> IF w = x THEN [ws[w] EXCEPT !.open = FALSE] ELSE ws[w]]

\* POST /api/terminals/{id}/close: the session is looked up ...
HandleTerminalByID(h, s) ==
  /\ rest[h].pc = "idle" /\ reg[s] # 0
  /\ rest' = [rest EXCEPT ![h] = [pc |-> "take", obj |-> reg[s], ws |-> None]]
  /\ UNCHANGED <<obj, reg, chan, term, ws, last, hand, sess, ended, agentSide, wires>>

\* ... its ws is taken under the session's lock ...
TakeWs(h) ==
  /\ rest[h].pc = "take"
  /\ LET o == rest[h].obj
     IN  /\ obj' = [obj EXCEPT ![o].ws = None]
         /\ rest' = [rest EXCEPT ![h] = [pc |-> IF obj[o].ws = None THEN "remove" ELSE "close",
                                         obj |-> o, ws |-> obj[o].ws]]
  /\ UNCHANGED <<reg, chan, term, ws, last, hand, sess, ended, agentSide, wires>>

\* ... and closed without it, and at last the session is closed, by its id.
CloseTaken(h) ==
  /\ rest[h].pc = "close"
  /\ CloseWs(rest[h].ws)
  /\ rest' = [rest EXCEPT ![h].pc = "remove", ![h].ws = None]
  /\ UNCHANGED <<obj, reg, chan, term, last, hand, sess, ended, agentSide, wires>>

CloseSession(h) ==
  /\ rest[h].pc = "remove"
  /\ LET o == rest[h].obj
     IN  CloseTerm(obj[o].ac, obj[o].id) /\ RegRemove(obj[o].id)
  /\ rest' = [rest EXCEPT ![h] = NoRest]
  /\ UNCHANGED <<obj, chan, ws, last, hand, sess, ended, toServer, agentSide>>

-----------------------------------------------------------------------------
(* The pump of a session: from its channel to the buffer and the ws.        *)

Cut(b) == IF Len(b) > MaxBuffer THEN SubSeq(b, Len(b) - MaxBuffer + 1, Len(b)) ELSE b

\* appendOutput.  The message that reports the end of the shell carries no data.
Pump(o) ==
  /\ chan[o].items # <<>>
  /\ LET x == Head(chan[o].items)
         d == IF x = 0 THEN <<>> ELSE <<x>>
         w == obj[o].ws
     IN  /\ chan' = [chan EXCEPT ![o].items = Tail(@)]
         /\ obj' = [obj EXCEPT ![o].buffer = Cut(@ \o d),
                               ![o].ws = IF w # None /\ ~ws[w].open THEN None ELSE w]
         /\ ws' = [v \in Ws |-> IF v = w /\ ws[v].open THEN [ws[v] EXCEPT !.got = @ \o d]
                                ELSE ws[v]]
  /\ UNCHANGED <<inHand, reg, term, sess, ended, agentSide, wires>>

\* Mutant: the ws is not taken along when the agent's side ends.
PumpEndsQuietly(o) ==
  /\ chan[o].items = <<>> /\ chan[o].closed /\ ~obj[o].closed
  /\ obj' = [obj EXCEPT ![o].closed = TRUE]
  /\ UNCHANGED <<inHand, reg, chan, term, ws, sess, ended, agentSide, wires>>

\* The pump's end: the session's ws is taken under the lock and closed without it.
PumpEnds(o) ==
  /\ chan[o].items = <<>> /\ chan[o].closed /\ ~obj[o].closed
  /\ obj' = [obj EXCEPT ![o].closed = TRUE]
  /\ last' = [last EXCEPT ![o] = obj[o].ws]
  /\ UNCHANGED <<reg, chan, term, ws, rest, hand, sess, ended, agentSide, wires>>

PumpCloses(o) ==
  /\ last[o] # None
  /\ CloseWs(last[o])
  /\ last' = [last EXCEPT ![o] = None]
  /\ UNCHANGED <<obj, reg, chan, term, rest, hand, sess, ended, agentSide, wires>>

-----------------------------------------------------------------------------
(* The agent's connection: dispatch and deliverTermOutput on one side,      *)
(* handle_command and the pty slots on the other.                           *)

Offer(ch, x) == IF Len(ch.items) < ChanCap THEN [ch EXCEPT !.items = Append(@, x)] ELSE ch

\* The channel is looked up, and on the last message taken out of the map, under
\* termMu; a message whose session has no channel is dropped.
Deliver ==
  /\ toServer # <<>> /\ hand[link] = Empty
  /\ LET m == Head(toServer)
         o == term[link][m.sid]
     IN  /\ term' = IF m.closed THEN [term EXCEPT ![link][m.sid] = 0] ELSE term
         /\ hand' = [hand EXCEPT ![link] = IF o = 0 THEN Empty
                                           ELSE [obj |-> o, data |-> m.data, closed |-> m.closed]]
  /\ toServer' = Tail(toServer)
  /\ UNCHANGED <<obj, reg, chan, ws, rest, last, sess, ended, toAgent, agentSide>>

\* The message goes to the channel without it, if there is room; the last one closes
\* the channel.
Put(c) ==
  /\ hand[c] # Empty
  /\ LET o  == hand[c].obj
         ch == Offer(chan[o], hand[c].data)
     IN  chan' = [chan EXCEPT ![o] = [ch EXCEPT !.closed = @ \/ hand[c].closed]]
  /\ hand' = [hand EXCEPT ![c] = Empty]
  /\ UNCHANGED <<obj, reg, term, ws, rest, last, sess, ended, agentSide, wires>>

FreeSlot(i) == slots[i].sid = None

\* ctc_term_open takes a free slot, and reports nothing if there is none.
AgentOpen ==
  /\ toAgent # <<>> /\ Head(toAgent).type = "open"
  /\ \/ \E i \in Slot : FreeSlot(i)
           /\ slots' = [slots EXCEPT ![i] = [sid |-> Head(toAgent).sid, running |-> TRUE]]
     \/ (\A i \in Slot : ~FreeSlot(i)) /\ UNCHANGED slots
  /\ toAgent' = Tail(toAgent)
  /\ UNCHANGED <<inHand, obj, reg, chan, term, ws, sess, link, ended, toServer, nOut>>

\* ctc_term_close looks for a running terminal of the session.
AgentClose ==
  /\ toAgent # <<>> /\ Head(toAgent).type = "close"
  /\ LET S == {i \in Slot : slots[i].running /\ slots[i].sid = Head(toAgent).sid}
     IN  \/ \E i \in S : slots' = [slots EXCEPT ![i] = [sid |-> None, running |-> FALSE]]
         \/ S = {} /\ UNCHANGED slots
  /\ toAgent' = Tail(toAgent)
  /\ UNCHANGED <<inHand, obj, reg, chan, term, ws, sess, link, ended, toServer, nOut>>

ShellOutput(i) ==
  /\ slots[i].running /\ nOut < MaxOut
  /\ nOut' = nOut + 1
  /\ toServer' = Append(toServer, [sid |-> slots[i].sid, data |-> nOut + 1, closed |-> FALSE])
  /\ UNCHANGED <<inHand, obj, reg, chan, term, ws, sess, link, ended, toAgent, slots>>

\* The shell exits: the reader reports it and clears running; the slot keeps the
\* session's id.
ShellExits(i) ==
  /\ slots[i].running
  /\ slots' = [slots EXCEPT ![i].running = FALSE]
  /\ toServer' = Append(toServer, [sid |-> slots[i].sid, data |-> 0, closed |-> TRUE])
  /\ UNCHANGED <<inHand, obj, reg, chan, term, ws, sess, link, ended, toAgent, nOut>>

\* The agent loses its connection and closes its terminals.
LoseLink ==
  /\ link # 0
  /\ link' = 0
  /\ toAgent' = <<>> /\ toServer' = <<>>
  /\ slots' = [i \in Slot |-> [sid |-> None, running |-> FALSE]]
  /\ UNCHANGED <<inHand, obj, reg, chan, term, ws, sess, ended, nOut>>

\* The latest connection the agent has had.
Latest == Max({link, sess} \cup ended)

\* It connects again and registers: the server replaces the old connection.
Relink ==
  /\ link = 0 /\ Latest < MaxConn
  /\ link' = Latest + 1 /\ sess' = Latest + 1
  /\ UNCHANGED <<inHand, obj, reg, chan, term, ws, ended, wires, slots, nOut>>

\* The deferred function of a lost connection: it leaves the session table, and
\* the OnOffline callback removes the agent's sessions from the registry.
ConnEnds(c) ==
  /\ c # link /\ c <= Latest /\ c \notin ended /\ hand[c] = Empty
  /\ ended' = ended \cup {c}
  /\ sess' = IF sess = c THEN 0 ELSE sess
  /\ reg' = [s \in Sid |-> 0]
  /\ UNCHANGED <<inHand, obj, chan, term, ws, agentSide, wires>>

-----------------------------------------------------------------------------

WsStep(w) == Lookup(w) \/ Create(w) \/ Attach(w) \/ Replay(w) \/ ReadFails(w) \/ Detach(w) \/ CleanUp(w)
Browser(w) ==
  \/ \E s \in Sid, b \in BOOLEAN : Browse(w, s, b)
  \/ BrowserLeaves(w) \/ AskClose(w)
  \/ \E b \in BOOLEAN : AskSuspend(w, b)
PumpStep(o) == Pump(o) \/ PumpEnds(o) \/ PumpCloses(o)
RestStep(h) == TakeWs(h) \/ CloseTaken(h) \/ CloseSession(h)

Next ==
  \/ \E w \in Ws : WsStep(w) \/ Browser(w)
  \/ \E o \in ObjId : PumpStep(o)
  \/ \E h \in Closer : RestStep(h) \/ \E s \in Sid : HandleTerminalByID(h, s)
  \/ Deliver \/ AgentOpen \/ AgentClose \/ LoseLink \/ Relink
  \/ \E i \in Slot : ShellOutput(i) \/ ShellExits(i)
  \/ \E c \in Conn : Put(c) \/ ConnEnds(c)

Spec == Init /\ [][Next]_vars

\* Goroutines that can go on do, and messages on a connection that stays arrive.
FairSpec ==
  /\ Spec
  /\ \A w \in Ws : WF_vars(WsStep(w))
  /\ \A o \in 1 .. MaxSession : WF_vars(o \in ObjId /\ PumpStep(o))
  /\ \A h \in Closer : WF_vars(RestStep(h))
  /\ \A c \in Conn : WF_vars(Put(c))
  /\ WF_vars(Deliver) /\ WF_vars(AgentOpen \/ AgentClose)

-----------------------------------------------------------------------------

\* Attached(w, o): the reader or the handler of w works on session o.
Attached(w, o) == ws[w].obj = o /\ ws[w].pc \in {"replay", "read"}

\* A session shows in one browser at a time: attaching closes the ws that was there,
\* whatever pump and readers do in between.  Two are open on one session only while a
\* REST handler has one of them in hand and is about to close it: it took the ws out
\* of the session under the lock, so a browser that attaches then finds none to close.
OneBrowser ==
  \A v, w \in Ws, o \in ObjId :
    (v # w /\ ws[v].open /\ ws[w].open /\ Attached(v, o) /\ Attached(w, o))
      => \E h \in Closer : rest[h].pc = "close" /\ rest[h].ws \in {v, w}

\* deliverTermOutput never sends on, or closes, a channel that is closed (the server
\* would panic): what a reader looked up under termMu is still open when it uses it,
\* whoever closes terminals, opens the session again or reconnects in between.
NoSendOnClosed == \A c \in Conn : hand[c] # Empty => ~chan[hand[c].obj].closed

\* When the agent reports that the shell has ended, the browser that shows the
\* session is disconnected.
EndReachesBrowser ==
  \A w \in Ws, o \in 1 .. MaxSession :
    (o \in ObjId /\ chan[o].closed /\ ~obj[o].closed /\ obj[o].ws = w)
      ~> ~ws[w].open

\* A session whose browser left and that is not suspended does not stay registered,
\* unless another browser is at it.
DetachedIsRemoved ==
  \A w \in Ws, o \in 1 .. MaxSession :
    (o \in ObjId /\ Attached(w, o) /\ ~ws[w].open)
      ~> \/ o \notin {reg[s] : s \in Sid}
         \/ obj[o].suspended
         \/ \E v \in Ws \ {w} : ws[v].obj = o

-----------------------------------------------------------------------------
(* What the comments of the code promise and the code does not keep.        *)

\* A browser that comes back with its session id takes the session over: while it
\* is attached the session leaves the registry only because this browser closes it
\* or is disconnected by the user's close, or because the agent is gone.
ReconnectKeepsSession ==
  [][\A w \in Ws, o \in ObjId :
       (Attached(w, o) /\ ws[w].open /\ reg[obj[o].id] = o /\ ended' = ended)
         => \/ reg'[obj[o].id] = o
            \/ ~Attached(w, o)' \/ ~ws'[w].open]_vars

\* A suspended session survives its browser while its agent stays connected: it
\* leaves the registry only when its terminal is closed.
SuspendedSurvives ==
  [][\A o \in ObjId :
       (/\ reg[obj[o].id] = o /\ obj[o].suspended
        /\ obj[o].ac = link /\ link' = link
        /\ \A w \in Ws : ws[w].obj # o)
         => reg'[obj[o].id] = o \/ toAgent' # toAgent]_vars

\* A browser that comes back gets the output of the time before, then what follows.
ReplayThenLive ==
  \A w \in Ws : \A i, j \in 1 .. Len(ws[w].got) : i < j => ws[w].got[i] < ws[w].got[j]
=============================================================================
