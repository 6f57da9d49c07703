------------------------ MODULE TermSessions_proofs -------------------------
(***************************************************************************)
(* Proofs, for any number of browsers, sessions, connections and chunks,   *)
(* that the server sends no output on a closed channel and that a session  *)
(* shows in one browser at a time.                                         *)
(*                                                                         *)
(* deliverTermOutput takes the channel it closes out of one entry of the   *)
(* map.  That no other entry holds it needs the objects: an entry's object *)
(* has the entry's session id and connection (TermInv); that no other      *)
(* reader has it in hand needs that a reader's object is of the reader's   *)
(* connection (HandInv).  That a session shows once needs that the object  *)
(* knows the browser that shows it, unless a REST handler has taken it     *)
(* (ShownInv).                                                             *)
(***************************************************************************)
EXTENDS TermSessions, FiniteSetTheorems, WellFoundedInduction, TLAPS

\* The objects and their channels.
ObjType ==
  /\ obj \in Seq(Object) /\ Len(obj) <= MaxSession
  /\ chan \in Seq(Channel) /\ Len(chan) = Len(obj)
  /\ \A o \in ObjId : Len(obj[o].buffer) <= MaxBuffer /\ Len(chan[o].items) <= ChanCap

\* The registry and the maps of the connections.
MapType ==
  /\ reg \in [Sid -> 0 .. Len(obj)]
  /\ term \in [Conn -> [Sid -> 0 .. Len(obj)]]

\* The goroutines: what each has looked up by the time it needs it.
WsType ==
  /\ ws \in [Ws -> Handler]
  /\ \A w \in Ws :
       /\ ws[w].obj \in 0 .. Len(obj)
       /\ ws[w].pc \in {"attach", "replay", "read", "detach", "remove"} => ws[w].obj # 0
       /\ ws[w].pc \in {"lookup", "create"} => ws[w].sid \in Sid
       /\ ws[w].pc = "create" => ws[w].conn # 0

\* The agent's side: without a link nothing runs and nothing is on the way.
AgentType ==
  /\ sess \in 0 .. MaxConn /\ link \in 0 .. MaxConn /\ ended \subseteq Conn
  /\ toAgent \in Seq([type : {"open", "close"}, sid : Sid])
  /\ toServer \in Seq([sid : Sid, data : 0 .. MaxOut, closed : BOOLEAN])
  /\ slots \in [Slot -> [sid : Sid \cup {None}, running : BOOLEAN]]
  /\ nOut \in 0 .. MaxOut
  /\ \A i \in Slot : slots[i].running => slots[i].sid \in Sid /\ link # 0
  /\ link = 0 => toAgent = <<>> /\ toServer = <<>>

\* An entry of a connection's map is an object of that session and connection.
TermInv ==
  \A c \in Conn, s \in Sid :
    term[c][s] # 0 => obj[term[c][s]].id = s /\ obj[term[c][s]].ac = c

\* An entry's channel is open.
EntryOpen == \A c \in Conn, s \in Sid : term[c][s] # 0 => ~chan[term[c][s]].closed

\* What a reader has looked up: a channel of its connection that is open, and that has
\* left the map if the reader is going to close it.
HandInv ==
  /\ hand \in [Conn -> Lookups]
  /\ \A c \in Conn :
       \/ hand[c] = Empty
       \/ /\ hand[c].obj \in ObjId
          /\ obj[hand[c].obj].ac = c /\ ~chan[hand[c].obj].closed
          /\ hand[c].closed => \A d \in Conn, s \in Sid : term[d][s] # hand[c].obj

\* The REST handlers, and the pumps that end.
RestType ==
  /\ rest \in [Closer -> Request]
  /\ last \in [1 .. MaxSession -> Ws \cup {None}]
  /\ \A h \in Closer : rest[h].obj <= Len(obj) /\ (rest[h].pc # "idle" => rest[h].obj # 0)

\* A REST handler has taken browser w out of its session and is about to close it.
Taken(w) == \E h \in Closer : rest[h].pc = "close" /\ rest[h].ws = w

\* A browser that shows a session is the one the session knows, if it is not taken.
ShownInv ==
  \A w \in Ws :
    (ws[w].open /\ ws[w].pc \in {"replay", "read"}) => Taken(w) \/ obj[ws[w].obj].ws = w

\* What a step has to show for it, where no REST handler takes or closes a browser.
StillShown ==
  \A w \in Ws :
    (ws'[w].open /\ ws'[w].pc \in {"replay", "read"}) => Taken(w) \/ obj'[ws'[w].obj].ws = w

IndInv == /\ ObjType /\ MapType /\ WsType /\ AgentType /\ RestType
          /\ TermInv /\ ShownInv /\ EntryOpen /\ HandInv

-----------------------------------------------------------------------------
(* Natural numbers.                                                         *)

\* A set of natural numbers that is not empty has a least element.
LEMMA LeastElement ==
  ASSUME NEW T \in SUBSET Nat, T # {}
  PROVE  \E x \in T : \A y \in T : x <= y
<1>. DEFINE Q == {1 .. n : n \in T}
<1>1. Q \subseteq FiniteSubsetsOf(Nat) /\ Q # {}
  <2>1. \A n \in T : IsFiniteSet(1 .. n) /\ 1 .. n \in SUBSET Nat
    BY FS_Interval
  <2>. QED  BY <2>1 DEF FiniteSubsetsOf
<1>2. \E m \in Q : \A q \in Q : ~ (<<q, m>> \in StrictSubsetOrdering(Nat))
  <2>. HIDE DEF Q
  <2>1. IsWellFoundedOn(StrictSubsetOrdering(Nat), FiniteSubsetsOf(Nat))
    BY FS_StrictSubsetOrderingWellFounded
  <2>. QED  BY <1>1, <2>1, WFMin
<1>3. PICK x \in T : \A y \in T : ~ (<<1 .. y, 1 .. x>> \in StrictSubsetOrdering(Nat))
  BY <1>2
<1>4. ASSUME NEW y \in T, y < x PROVE FALSE
  <2>. DEFINE A == 1 .. y
              B == 1 .. x
  <2>1. A \subseteq B /\ A # B /\ A \in SUBSET Nat /\ B \in SUBSET Nat
    <3>1. x \in B /\ x \notin A
      BY <1>4
    <3>. QED  BY <3>1, <1>4
  <2>2. <<A, B>> \in StrictSubsetOrdering(Nat)
    <3>. HIDE DEF A, B
    <3>. QED  BY <2>1 DEF StrictSubsetOrdering
  <2>. QED  BY <2>2, <1>3
<1>. QED  BY <1>4

\* A set of natural numbers that is bounded and not empty has a largest element.
LEMMA LargestElement ==
  ASSUME NEW n \in Nat, NEW S \in SUBSET (0 .. n), S # {}
  PROVE  \E x \in S : \A y \in S : x >= y
<1>. DEFINE T == {k \in Nat : \A y \in S : y <= k}
<1>1. T \in SUBSET Nat /\ n \in T
  OBVIOUS
<1>2. PICK k \in T : \A j \in T : k <= j
  <2>. HIDE DEF T
  <2>. QED  BY <1>1, LeastElement
<1>3. k \in Nat /\ \A y \in S : y \in Nat /\ y <= k
  BY <1>2
<1>4. CASE k \in S
  BY <1>3, <1>4
<1>5. CASE k \notin S
  <2>1. \A y \in S : y <= k - 1
    BY <1>3, <1>5
  <2>2. k - 1 \in Nat
    <3>1. PICK y \in S : TRUE
      OBVIOUS
    <3>2. y \in Nat /\ y <= k - 1
      BY <1>3, <2>1, <3>1
    <3>. QED  BY <1>3, <3>2
  <2>3. k - 1 \in T
    BY <2>1, <2>2
  <2>. QED  BY <1>2, <1>3, <2>3
<1>. QED  BY <1>4, <1>5

-----------------------------------------------------------------------------
(* Frames: what each part of the invariant depends on.                      *)

\* The objects are as many as before or more, and keep their id and connection.
ObjKeep ==
  /\ Len(obj) <= Len(obj')
  /\ \A o \in ObjId : obj'[o].id = obj[o].id /\ obj'[o].ac = obj[o].ac

\* No channel is closed by the step.
ChanKeep == \A o \in ObjId : chan'[o].closed = chan[o].closed

\* Readers' channels stay what they are when the maps only lose entries.
LEMMA HandStays ==
  ASSUME IndInv, ObjType', ObjKeep, ChanKeep, UNCHANGED hand,
         \A c \in Conn, s \in Sid : term'[c][s] = term[c][s] \/ term'[c][s] = 0
  PROVE  HandInv'
<1>1. HandInv /\ Len(obj) \in Nat /\ Len(obj') \in Nat /\ Len(obj) <= Len(obj')
  BY DEF IndInv, ObjType, ObjKeep
<1>2. ASSUME NEW c \in Conn, hand[c] # Empty
      PROVE  /\ hand[c].obj \in ObjId'
             /\ obj'[hand[c].obj].ac = c /\ ~chan'[hand[c].obj].closed
             /\ hand[c].closed => \A d \in Conn, s \in Sid : term'[d][s] # hand[c].obj
  <2>1. /\ hand[c].obj \in ObjId
        /\ obj[hand[c].obj].ac = c /\ ~chan[hand[c].obj].closed
        /\ hand[c].closed => \A d \in Conn, s \in Sid : term[d][s] # hand[c].obj
    BY <1>1, <1>2 DEF HandInv
  <2>2. hand[c].obj \in ObjId' /\ hand[c].obj # 0
    BY <1>1, <2>1 DEF ObjId
  <2>3. obj'[hand[c].obj].ac = c /\ ~chan'[hand[c].obj].closed
    BY <2>1 DEF ObjKeep, ChanKeep
  <2>. QED  BY <2>1, <2>2, <2>3
<1>. QED  BY <1>1, <1>2 DEF HandInv

\* REST handlers and ending pumps that do nothing.
LEMMA RestStays ==
  ASSUME IndInv, ObjType', ObjKeep, UNCHANGED <<rest, last>>
  PROVE  RestType' /\ \A w : Taken(w)' <=> Taken(w)
<1>1. RestType /\ Len(obj) \in Nat /\ Len(obj') \in Nat /\ Len(obj) <= Len(obj')
  BY DEF IndInv, ObjType, ObjKeep
<1>2. \A h \in Closer : rest[h].obj \in Nat
  BY <1>1 DEF RestType, Request
<1>3. RestType'
  BY <1>1, <1>2 DEF RestType
<1>. QED  BY <1>3 DEF Taken

\* A step that leaves registry, maps and channels alone keeps what is said of them.
LEMMA MapsStay ==
  ASSUME IndInv, ObjType', UNCHANGED <<reg, term, hand>>, ObjKeep, ChanKeep
  PROVE  MapType' /\ TermInv' /\ EntryOpen' /\ HandInv'
<1>1. ObjType /\ MapType /\ TermInv /\ EntryOpen
  BY DEF IndInv
<1>2. Len(obj) \in Nat /\ Len(obj') \in Nat
  BY <1>1 DEF ObjType
<1>3. MapType'
  BY <1>1, <1>2 DEF MapType, ObjKeep
<1>4. \A c \in Conn, s \in Sid : term[c][s] # 0 => term[c][s] \in ObjId
  BY <1>1, <1>2 DEF MapType, ObjId
<1>5. TermInv'
  BY <1>1, <1>4 DEF TermInv, ObjKeep
<1>6. EntryOpen'
  BY <1>1, <1>4 DEF EntryOpen, ChanKeep
<1>. QED  BY <1>3, <1>5, <1>6, HandStays

\* A step that takes entries out of the maps keeps what is said of the others.
LEMMA MapsShrink ==
  ASSUME IndInv, ObjType', ObjKeep, ChanKeep,
         NEW c \in Conn, NEW s \in Sid,
         term' = [term EXCEPT ![c][s] = 0],
         reg' \in [Sid -> 0 .. Len(obj)]
  PROVE  MapType' /\ TermInv' /\ EntryOpen' /\ (UNCHANGED hand => HandInv')
<1>1. ObjType /\ MapType /\ TermInv /\ EntryOpen
  BY DEF IndInv
<1>2. Len(obj) \in Nat /\ Len(obj') \in Nat /\ Len(obj) <= Len(obj')
  BY <1>1 DEF ObjType, ObjKeep
<1>3. term' \in [Conn -> [Sid -> 0 .. Len(obj)]]
  BY <1>1, <1>2 DEF MapType
<1>4. MapType'
  BY <1>2, <1>3 DEF MapType
<1>5. \A d \in Conn, t \in Sid : term'[d][t] = term[d][t] \/ term'[d][t] = 0
  BY <1>1 DEF MapType
<1>6. \A d \in Conn, t \in Sid : term'[d][t] # 0 => term'[d][t] = term[d][t] /\ term[d][t] \in ObjId
  BY <1>1, <1>2, <1>5 DEF MapType, ObjId
<1>7. TermInv'
  BY <1>1, <1>6 DEF TermInv, ObjKeep
<1>8. EntryOpen'
  BY <1>1, <1>6 DEF EntryOpen, ChanKeep
<1>. QED  BY <1>4, <1>5, <1>7, <1>8, HandStays

\* An object is changed, but not its id or its connection.
LEMMA ObjChange ==
  ASSUME ObjType, NEW o \in ObjId, NEW r \in Object,
         r.id = obj[o].id, r.ac = obj[o].ac, Len(r.buffer) <= MaxBuffer,
         obj' = [obj EXCEPT ![o] = r]
  PROVE  /\ obj' \in Seq(Object) /\ Len(obj') = Len(obj)
         /\ \A p \in ObjId : obj'[p] = IF p = o THEN r ELSE obj[p]
         /\ \A p \in ObjId : Len(obj'[p].buffer) <= MaxBuffer
         /\ ObjKeep
<1>1. obj \in Seq(Object) /\ Len(obj) \in Nat
  BY DEF ObjType
<1>2. obj' \in Seq(Object) /\ Len(obj') = Len(obj)
  BY <1>1 DEF ObjId
<1>3. \A p \in ObjId : obj'[p] = IF p = o THEN r ELSE obj[p]
  BY <1>1 DEF ObjId
<1>4. \A p \in ObjId : Len(obj'[p].buffer) <= MaxBuffer
  BY <1>3 DEF ObjType
<1>5. ObjKeep
  BY <1>1, <1>2, <1>3 DEF ObjKeep
<1>. QED  BY <1>2, <1>3, <1>4, <1>5
-----------------------------------------------------------------------------
(* The handler of a browser connection.                                     *)

\* Only the goroutines change, and what they show was shown before.
LEMMA WsOnly ==
  ASSUME IndInv, WsType', UNCHANGED <<inHand, obj, reg, chan, term, sess, ended, agentSide, wires>>,
         StillShown
  PROVE  IndInv'
<1>1. ObjType' /\ AgentType'
  BY DEF IndInv, ObjType, AgentType, agentSide, wires, ObjId
<1>2. ObjKeep /\ ChanKeep
  BY DEF IndInv, ObjType, ObjKeep, ChanKeep
<1>3. MapType' /\ TermInv' /\ EntryOpen' /\ HandInv'
  BY <1>1, <1>2, MapsStay DEF inHand
<1>4. RestType' /\ \A w : Taken(w)' <=> Taken(w)
  BY <1>1, <1>2, RestStays DEF inHand
<1>5. ShownInv'
  BY <1>4 DEF ShownInv, StillShown
<1>. QED  BY <1>1, <1>3, <1>4, <1>5 DEF IndInv

\* The goroutine that has nothing to do yet, and the one that has ended.
LEMMA NoWsType ==
  NoWs \in Handler /\ Gone \in Handler
<1>1. <<>> \in Seq(Chunk)
  OBVIOUS
<1>2. MaxConn \in Nat
  BY TermAssumption
<1>3. NoWs \in Handler
  BY <1>1, <1>2 DEF NoWs, Handler
<1>. QED  BY <1>3 DEF Gone, Handler

\* A browser asks for a session.
LEMMA BrowseStep ==
  ASSUME IndInv, NEW w \in Ws, NEW s \in Sid, NEW b \in BOOLEAN, Browse(w, s, b)
  PROVE  IndInv'
<1>1. WsType /\ ShownInv /\ ObjType
  BY DEF IndInv
<1>2. PICK h : h = [NoWs EXCEPT !.pc = "lookup", !.sid = s, !.suspend = b]
  OBVIOUS
<1>3. h \in Handler /\ h.obj = 0 /\ h.pc = "lookup" /\ h.sid = s
  BY <1>2, NoWsType DEF NoWs, Handler
<1>4. ws' = [ws EXCEPT ![w] = h] /\ obj' = obj
  BY <1>2 DEF Browse
<1>5. WsType'
  BY <1>1, <1>3, <1>4 DEF WsType, ObjType
<1>6. StillShown
  BY <1>1, <1>3, <1>4 DEF WsType, ShownInv, StillShown
<1>. QED  BY <1>5, <1>6, WsOnly DEF Browse

\* The registry has the session, or the agent's connection will be asked.
LEMMA LookupStep ==
  ASSUME IndInv, NEW w \in Ws, Lookup(w)
  PROVE  IndInv'
<1>1. WsType /\ ShownInv /\ ObjType /\ MapType /\ AgentType
  BY DEF IndInv
<1>2. ws[w].pc = "lookup" /\ ws[w].sid \in Sid /\ ws[w] \in Handler
  BY <1>1 DEF Lookup, WsType
<1>3. reg[ws[w].sid] \in 0 .. Len(obj) /\ Len(obj) \in Nat /\ sess \in 0 .. MaxConn
  BY <1>1, <1>2 DEF MapType, ObjType, AgentType
<1>4. PICK h : /\ ws' = [ws EXCEPT ![w] = h] /\ h \in Handler
               /\ h.pc \in {"attach", "create", "end"} /\ h.obj \in 0 .. Len(obj)
               /\ h.pc = "attach" => h.obj # 0
               /\ h.pc = "create" => h.conn # 0 /\ h.sid \in Sid
  <2>1. CASE reg[ws[w].sid] # 0
    <3>1. PICK h : h = [ws[w] EXCEPT !.pc = "attach", !.obj = reg[ws[w].sid], !.open = TRUE]
      OBVIOUS
    <3>2. ws' = [ws EXCEPT ![w] = h]
      BY <1>1, <2>1, <3>1 DEF Lookup, WsType
    <3>0. reg[ws[w].sid] \in Nat
      BY <1>3
    <3>3. h \in Handler /\ h.pc = "attach" /\ h.obj = reg[ws[w].sid]
      BY <1>2, <3>0, <3>1 DEF Handler
    <3>. QED  BY <1>3, <2>1, <3>2, <3>3
  <2>2. CASE reg[ws[w].sid] = 0 /\ sess # 0
    <3>1. PICK h : h = [ws[w] EXCEPT !.pc = "create", !.conn = sess, !.open = TRUE]
      OBVIOUS
    <3>2. ws' = [ws EXCEPT ![w] = h]
      BY <1>1, <2>2, <3>1 DEF Lookup, WsType
    <3>3. h \in Handler /\ h.pc = "create" /\ h.conn = sess /\ h.sid \in Sid /\ h.obj = ws[w].obj
      BY <1>2, <1>3, <3>1 DEF Handler
    <3>4. h.obj \in 0 .. Len(obj)
      BY <1>1, <3>3 DEF WsType
    <3>. QED  BY <2>2, <3>2, <3>3, <3>4
  <2>3. CASE reg[ws[w].sid] = 0 /\ sess = 0
    <3>0. PICK h : h = Gone
      OBVIOUS
    <3>1. ws' = [ws EXCEPT ![w] = h]
      BY <2>3, <3>0 DEF Lookup
    <3>2. h \in Handler /\ h.pc = "end" /\ h.obj = 0
      BY <3>0, NoWsType DEF Gone, NoWs
    <3>3. /\ h.obj \in 0 .. Len(obj) /\ h.pc \in {"attach", "create", "end"}
          /\ h.pc # "attach" /\ h.pc # "create"
      BY <1>3, <3>2
    <3>. QED  BY <3>1, <3>2, <3>3
  <2>. QED  BY <2>1, <2>2, <2>3
<1>5. obj' = obj
  BY DEF Lookup
<1>6. WsType'
  BY <1>1, <1>4, <1>5 DEF WsType
<1>7. StillShown
  BY <1>1, <1>4, <1>5 DEF WsType, ShownInv, StillShown
<1>. QED  BY <1>6, <1>7, WsOnly DEF Lookup

\* What is replayed are chunks of the buffer.
LEMMA ReplayStep ==
  ASSUME IndInv, NEW w \in Ws, Replay(w)
  PROVE  IndInv'
<1>1. WsType /\ ShownInv
  BY DEF IndInv
<1>2. PICK h : h = [ws[w] EXCEPT !.pc = "read", !.backlog = <<>>,
                       !.got = IF ws[w].open THEN @ \o ws[w].backlog ELSE @]
  OBVIOUS
<1>3. ws[w] \in Handler /\ ws[w].pc = "replay" /\ obj' = obj
  BY <1>1 DEF WsType, Replay
<1>4. ws' = [ws EXCEPT ![w] = h]
  BY <1>1, <1>2 DEF Replay, WsType
<1>5. <<>> \in Seq(Chunk) /\ (IF ws[w].open THEN ws[w].got \o ws[w].backlog ELSE ws[w].got) \in Seq(Chunk)
  BY <1>3 DEF Handler
<1>6. h \in Handler /\ h.pc = "read" /\ h.obj = ws[w].obj /\ h.open = ws[w].open
  BY <1>2, <1>3, <1>5 DEF Handler
<1>7. WsType'
  BY <1>1, <1>3, <1>4, <1>6 DEF WsType
<1>8. StillShown
  BY <1>1, <1>3, <1>4, <1>6 DEF WsType, ShownInv, StillShown
<1>. QED  BY <1>7, <1>8, WsOnly DEF Replay

\* The connection breaks, or the reader finds that it has.
LEMMA LeaveStep ==
  ASSUME IndInv, NEW w \in Ws, BrowserLeaves(w) \/ ReadFails(w)
  PROVE  IndInv'
<1>1. WsType /\ ShownInv /\ ws[w] \in Handler
  BY DEF IndInv, WsType
<1>2. PICK h : /\ ws' = [ws EXCEPT ![w] = h] /\ h \in Handler
               /\ h.obj = ws[w].obj /\ h.sid = ws[w].sid /\ h.conn = ws[w].conn
               /\ h.pc = ws[w].pc \/ (ws[w].pc = "read" /\ h.pc = "detach")
               /\ h.open = FALSE \/ h.pc = "detach"
  <2>1. CASE BrowserLeaves(w)
    <3>1. PICK h : h = [ws[w] EXCEPT !.open = FALSE]
      OBVIOUS
    <3>2. ws' = [ws EXCEPT ![w] = h]
      BY <1>1, <2>1, <3>1 DEF BrowserLeaves, WsType
    <3>3. h \in Handler /\ h.open = FALSE /\ h.pc = ws[w].pc /\ h.obj = ws[w].obj
          /\ h.sid = ws[w].sid /\ h.conn = ws[w].conn
      BY <1>1, <3>1 DEF Handler
    <3>. QED  BY <3>2, <3>3
  <2>2. CASE ReadFails(w)
    <3>1. PICK h : h = [ws[w] EXCEPT !.pc = "detach"]
      OBVIOUS
    <3>2. ws' = [ws EXCEPT ![w] = h] /\ ws[w].pc = "read"
      BY <1>1, <2>2, <3>1 DEF ReadFails, WsType, Goto
    <3>3. h \in Handler /\ h.pc = "detach" /\ h.obj = ws[w].obj
          /\ h.sid = ws[w].sid /\ h.conn = ws[w].conn
      BY <1>1, <3>1 DEF Handler
    <3>. QED  BY <3>2, <3>3
  <2>. QED  BY <2>1, <2>2
<1>3. UNCHANGED <<inHand, obj, reg, chan, term, sess, ended, agentSide, wires>>
  BY DEF BrowserLeaves, ReadFails
<1>4. WsType'
  BY <1>1, <1>2, <1>3 DEF WsType
<1>5. StillShown
  BY <1>1, <1>2, <1>3 DEF WsType, ShownInv, StillShown
<1>. QED  BY <1>3, <1>4, <1>5, WsOnly

\* What a write on a connection puts on the wire.
LEMMA SendType ==
  ASSUME AgentType, NEW c \in Conn, NEW m \in [type : {"open", "close"}, sid : Sid], Send(c, m)
  PROVE  /\ toAgent' \in Seq([type : {"open", "close"}, sid : Sid])
         /\ link = 0 => toAgent' = <<>>
<1>1. c # 0 /\ toAgent \in Seq([type : {"open", "close"}, sid : Sid]) /\ (link = 0 => toAgent = <<>>)
  BY TermAssumption DEF AgentType, Conn
<1>2. PICK M : M = [type : {"open", "close"}, sid : Sid]
  OBVIOUS
<1>3. toAgent \in Seq(M) /\ m \in M
  BY <1>1, <1>2
<1>4. toAgent' \in Seq(M)
  BY <1>3 DEF Send
<1>. QED  BY <1>1, <1>2, <1>4 DEF Send

\* The agent's side, where only a message to it is new.
LEMMA AgentSends ==
  ASSUME AgentType, UNCHANGED <<sess, ended, toServer, agentSide>>,
         toAgent' \in Seq([type : {"open", "close"}, sid : Sid]),
         link = 0 => toAgent' = <<>>
  PROVE  AgentType'
BY DEF AgentType, agentSide

\* A session is opened on the agent's connection, or the connection was replaced.
LEMMA CreateStep ==
  ASSUME IndInv, NEW w \in Ws, Create(w)
  PROVE  IndInv'
<1>1. /\ ObjType /\ MapType /\ WsType /\ AgentType /\ TermInv /\ ShownInv /\ EntryOpen
      /\ ws[w] \in Handler
  BY DEF IndInv, WsType
<1>2. PICK c, s : c = ws[w].conn /\ s = ws[w].sid
  OBVIOUS
<1>3. ws[w].pc = "create" /\ c \in Conn /\ s \in Sid
  BY <1>1, <1>2 DEF Create, WsType, Handler, Conn
<1>4. UNCHANGED <<inHand, sess, ended, toServer, agentSide>>
  BY DEF Create
<1>5. CASE c # sess
  <2>1. term' = [term EXCEPT ![c][s] = 0] /\ ws' = [ws EXCEPT ![w] = Gone]
        /\ UNCHANGED <<obj, chan, toAgent, reg>>
    BY <1>2, <1>5 DEF Create
  <2>2. ObjType' /\ ObjKeep /\ ChanKeep /\ Len(obj) \in Nat
    BY <1>1, <2>1 DEF ObjType, ObjKeep, ChanKeep, ObjId
  <2>3. reg' \in [Sid -> 0 .. Len(obj)]
    BY <1>1, <2>1 DEF MapType
  <2>4. MapType' /\ TermInv' /\ EntryOpen' /\ HandInv'
    BY <1>3, <1>4, <2>1, <2>2, <2>3, MapsShrink DEF inHand
  <2>5. AgentType'
    BY <1>1, <1>4, <2>1 DEF AgentType, agentSide
  <2>6. Gone \in Handler /\ Gone.pc = "end" /\ Gone.obj = 0
    BY NoWsType DEF Gone, NoWs
  <2>8. RestType' /\ \A v : Taken(v)' <=> Taken(v)
    BY <1>4, <2>2, RestStays DEF inHand
  <2>7. WsType' /\ ShownInv'
    BY <1>1, <2>1, <2>2, <2>6, <2>8 DEF WsType, ShownInv
  <2>. QED  BY <2>2, <2>4, <2>5, <2>7, <2>8 DEF IndInv
<1>6. CASE c = sess
  <2>1. PICK o : o = Len(obj) + 1
    OBVIOUS
  <2>2. PICK r : r = [id |-> s, ac |-> c, ws |-> None, buffer |-> <<>>,
                      suspended |-> ws[w].suspend, closed |-> FALSE]
    OBVIOUS
  <2>3. PICK ch : ch = [items |-> <<>>, closed |-> FALSE]
    OBVIOUS
  <2>4. /\ o <= MaxSession /\ obj' = Append(obj, r) /\ chan' = Append(chan, ch)
        /\ term' = [term EXCEPT ![c][s] = o]
        /\ Send(c, [type |-> "open", sid |-> s])
        /\ reg' = [reg EXCEPT ![s] = o]
        /\ ws' = [ws EXCEPT ![w].pc = "attach", ![w].obj = o]
    BY <1>2, <1>6, <2>1, <2>2, <2>3 DEF Create
  <2>5. r \in Object /\ r.id = s /\ r.ac = c /\ r.buffer = <<>> /\ Len(r.buffer) = 0
    <3>1. <<>> \in Seq(Chunk) /\ ws[w].suspend \in BOOLEAN
      BY <1>1 DEF Handler
    <3>. QED  BY <1>3, <2>2, <3>1 DEF Object
  <2>6. ch \in Channel /\ ch.closed = FALSE /\ Len(ch.items) = 0
    <3>1. <<>> \in Seq(Chunk \cup {0})
      OBVIOUS
    <3>. QED  BY <2>3, <3>1 DEF Channel
  <2>7. obj \in Seq(Object) /\ chan \in Seq(Channel) /\ Len(chan) = Len(obj) /\ Len(obj) \in Nat
    BY <1>1 DEF ObjType
  <2>8. /\ obj' \in Seq(Object) /\ Len(obj') = o /\ obj'[o] = r
        /\ \A p \in ObjId : obj'[p] = obj[p]
    BY <2>1, <2>4, <2>5, <2>7 DEF ObjId
  <2>9. /\ chan' \in Seq(Channel) /\ Len(chan') = o /\ chan'[o] = ch
        /\ \A p \in ObjId : chan'[p] = chan[p]
    BY <2>1, <2>4, <2>6, <2>7 DEF ObjId
  <2>10. \A p \in ObjId' : p = o \/ p \in ObjId
    BY <2>1, <2>7, <2>8 DEF ObjId
  <2>11. MaxBuffer \in Nat /\ ChanCap \in Nat
    BY TermAssumption
  <2>12. ObjType'
    <3>1. \A p \in ObjId' : Len(obj'[p].buffer) <= MaxBuffer /\ Len(chan'[p].items) <= ChanCap
      BY <1>1, <2>5, <2>6, <2>8, <2>9, <2>10, <2>11 DEF ObjType
    <3>. QED  BY <2>4, <2>8, <2>9, <3>1 DEF ObjType
  <2>13. \A d \in Conn, t \in Sid : term'[d][t] = IF d = c /\ t = s THEN o ELSE term[d][t]
    BY <1>1, <1>3, <2>4 DEF MapType
  <2>14. term' \in [Conn -> [Sid -> 0 .. o]] /\ reg' \in [Sid -> 0 .. o]
    <3>1. o \in 0 .. o /\ \A x \in 0 .. Len(obj) : x \in 0 .. o
      BY <2>1, <2>7
    <3>2. term \in [Conn -> [Sid -> 0 .. o]] /\ reg \in [Sid -> 0 .. o]
      BY <1>1, <3>1 DEF MapType
    <3>3. [term[c] EXCEPT ![s] = o] \in [Sid -> 0 .. o]
      BY <1>3, <3>1, <3>2
    <3>. QED  BY <1>3, <2>4, <3>1, <3>2, <3>3
  <2>15. MapType'
    BY <2>8, <2>14 DEF MapType
  <2>16. \A d \in Conn, t \in Sid : term[d][t] # 0 => term[d][t] \in ObjId
    BY <1>1, <2>7 DEF MapType, ObjId
  <2>17. TermInv'
    BY <1>1, <2>5, <2>8, <2>13, <2>16 DEF TermInv
  <2>18. EntryOpen'
    BY <1>1, <2>6, <2>9, <2>13, <2>16 DEF EntryOpen
  <2>19. AgentType'
    <3>1. PICK m : m = [type |-> "open", sid |-> s]
      OBVIOUS
    <3>2. Send(c, m) /\ m \in [type : {"open", "close"}, sid : Sid]
      BY <1>3, <2>4, <3>1
    <3>. QED  BY <1>1, <1>3, <1>4, <3>2, SendType, AgentSends
  <2>20. PICK h : h = [ws[w] EXCEPT !.pc = "attach", !.obj = o]
    OBVIOUS
  <2>21. ws' = [ws EXCEPT ![w] = h]
    BY <1>1, <2>4, <2>20 DEF WsType
  <2>22. h \in Handler /\ h.pc = "attach" /\ h.obj = o /\ o \in Nat /\ o # 0
    <3>1. o \in Nat /\ o # 0
      BY <2>1, <2>7
    <3>. QED  BY <1>1, <2>20, <3>1 DEF Handler
  <2>23. WsType'
    <3>1. \A v \in Ws : ws'[v].obj \in 0 .. Len(obj')
      BY <1>1, <2>1, <2>7, <2>8, <2>21, <2>22 DEF WsType
    <3>. QED  BY <1>1, <2>21, <2>22, <3>1 DEF WsType
  <2>25. RestType' /\ \A v : Taken(v)' <=> Taken(v)
    <3>1. ObjKeep
      BY <2>1, <2>7, <2>8 DEF ObjKeep
    <3>. QED  BY <1>4, <2>12, <3>1, RestStays DEF inHand
  <2>24. ShownInv'
    <3>1. \A v \in Ws : ws[v].pc \in {"replay", "read"} => ws[v].obj \in ObjId
      BY <1>1, <2>7 DEF WsType, ObjId
    <3>. QED  BY <1>1, <2>8, <2>21, <2>22, <2>25, <3>1 DEF WsType, ShownInv
  <2>26. HandInv'
    <3>1. HandInv /\ hand' = hand /\ \A p \in ObjId : p \in ObjId' /\ p # o
      BY <1>4, <2>1, <2>7, <2>8 DEF IndInv, inHand, ObjId
    <3>2. ASSUME NEW d \in Conn, hand[d] # Empty
          PROVE  /\ hand[d].obj \in ObjId'
                 /\ obj'[hand[d].obj].ac = d /\ ~chan'[hand[d].obj].closed
                 /\ hand[d].closed => \A e \in Conn, t \in Sid : term'[e][t] # hand[d].obj
      <4>1. /\ hand[d].obj \in ObjId
            /\ obj[hand[d].obj].ac = d /\ ~chan[hand[d].obj].closed
            /\ hand[d].closed => \A e \in Conn, t \in Sid : term[e][t] # hand[d].obj
        BY <3>1, <3>2 DEF HandInv
      <4>. QED  BY <2>8, <2>9, <2>13, <3>1, <4>1
    <3>. QED  BY <3>1, <3>2 DEF HandInv
  <2>. QED  BY <2>12, <2>15, <2>17, <2>18, <2>19, <2>23, <2>24, <2>25, <2>26 DEF IndInv
<1>. QED  BY <1>5, <1>6

\* Objects, channels' contents and goroutines change, the maps do not.
LEMMA ObjStep ==
  ASSUME IndInv, ObjType', ObjKeep, ChanKeep, WsType',
         UNCHANGED <<inHand, reg, term, sess, ended, agentSide, wires>>,
         StillShown
  PROVE  IndInv'
<1>1. MapType' /\ TermInv' /\ EntryOpen' /\ HandInv'
  BY MapsStay DEF inHand
<1>2. AgentType'
  BY DEF IndInv, AgentType, agentSide, wires
<1>3. RestType' /\ \A w : Taken(w)' <=> Taken(w)
  BY RestStays DEF inHand
<1>4. ShownInv'
  BY <1>3 DEF ShownInv, StillShown
<1>. QED  BY <1>1, <1>2, <1>3, <1>4 DEF IndInv

\* An object changes and its channel does not.
LEMMA ObjOnly ==
  ASSUME ObjType, NEW o \in ObjId, NEW r \in Object,
         r.id = obj[o].id, r.ac = obj[o].ac, r.buffer = obj[o].buffer,
         obj' = [obj EXCEPT ![o] = r], chan' = chan
  PROVE  /\ ObjType' /\ ObjKeep /\ ChanKeep /\ Len(obj') = Len(obj)
         /\ \A p \in ObjId : obj'[p] = IF p = o THEN r ELSE obj[p]
<1>1. Len(r.buffer) <= MaxBuffer
  BY DEF ObjType
<1>2. /\ obj' \in Seq(Object) /\ Len(obj') = Len(obj)
      /\ \A p \in ObjId : obj'[p] = IF p = o THEN r ELSE obj[p]
      /\ \A p \in ObjId : Len(obj'[p].buffer) <= MaxBuffer
      /\ ObjKeep
  BY <1>1, ObjChange
<1>3. ObjType' /\ ChanKeep
  BY <1>2 DEF ObjType, ChanKeep, ObjId
<1>. QED  BY <1>2, <1>3

\* g is the goroutine h later on, at the same place: its connection may have been
\* closed.
SameJob(g, h) ==
  /\ g.pc = h.pc /\ g.obj = h.obj /\ g.sid = h.sid /\ g.conn = h.conn
  /\ g.open => h.open

\* Browser connections may be closed and get output; nothing else of them changes.
WsKeep ==
  /\ ws' \in [Ws -> Handler]
  /\ \A v \in Ws : SameJob(ws'[v], ws[v])

\* So the goroutines still have what they looked up.
LEMMA WsKeepType ==
  ASSUME IndInv, WsKeep, Len(obj') = Len(obj)
  PROVE  WsType'
<1>1. WsType
  BY DEF IndInv
<1>. QED  BY <1>1 DEF WsType, WsKeep, SameJob

\* Closing a connection.
LEMMA ClosedHandler ==
  ASSUME NEW h \in Handler
  PROVE  /\ [h EXCEPT !.open = FALSE] \in Handler
         /\ SameJob([h EXCEPT !.open = FALSE], h)
         /\ [h EXCEPT !.open = FALSE].open = FALSE
<1>1. PICK g : g = [h EXCEPT !.open = FALSE]
  OBVIOUS
<1>2. /\ g \in Handler /\ g.open = FALSE
      /\ g.pc = h.pc /\ g.obj = h.obj /\ g.sid = h.sid /\ g.conn = h.conn
  BY <1>1 DEF Handler
<1>. QED  BY <1>1, <1>2 DEF SameJob

\* The server closes the browser connection x, if there is one.
LEMMA Closing ==
  ASSUME IndInv, NEW x,
         ws' = [v \in Ws |-> IF v = x THEN [ws[v] EXCEPT !.open = FALSE] ELSE ws[v]]
  PROVE  WsKeep /\ \A v \in Ws : v = x => ws'[v].open = FALSE
<1>1. ASSUME NEW v \in Ws
      PROVE  ws'[v] \in Handler /\ SameJob(ws'[v], ws[v]) /\ (v = x => ws'[v].open = FALSE)
  <2>1. ws[v] \in Handler
    BY DEF IndInv, WsType
  <2>2. CASE v = x
    <3>1. ws'[v] = [ws[v] EXCEPT !.open = FALSE]
      BY <2>2
    <3>. QED  BY <2>1, <3>1, ClosedHandler
  <2>3. CASE v # x
    <3>1. ws'[v] = ws[v]
      BY <2>3
    <3>. QED  BY <2>1, <2>3, <3>1 DEF SameJob
  <2>. QED  BY <2>2, <2>3
<1>2. ws' \in [Ws -> Handler]
  BY <1>1
<1>. QED  BY <1>1, <1>2 DEF WsKeep

\* The object a goroutine works on.
LEMMA ItsObject ==
  ASSUME IndInv, NEW w \in Ws, ws[w].pc \in {"attach", "replay", "read", "detach", "remove"}
  PROVE  ws[w].obj \in ObjId /\ obj[ws[w].obj] \in Object
<1>1. ws[w].obj \in ObjId /\ obj \in Seq(Object) /\ Len(obj) \in Nat
  BY DEF IndInv, WsType, ObjType, ObjId
<1>. QED  BY <1>1 DEF ObjId

\* The new browser takes the place of the old, which is closed.
LEMMA AttachStep ==
  ASSUME IndInv, NEW w \in Ws, Attach(w)
  PROVE  IndInv'
<1>1. ObjType /\ WsType /\ ShownInv /\ ws[w] \in Handler /\ ws[w].pc = "attach"
  BY DEF IndInv, WsType, Attach
<1>2. PICK o : o = ws[w].obj
  OBVIOUS
<1>3. o \in ObjId /\ obj[o] \in Object
  BY <1>1, <1>2, ItsObject
<1>4. PICK r : r = [obj[o] EXCEPT !.ws = w, !.suspended = ws[w].suspend]
  OBVIOUS
<1>5. r \in Object /\ r.id = obj[o].id /\ r.ac = obj[o].ac /\ r.buffer = obj[o].buffer /\ r.ws = w
  <2>1. ws[w].suspend \in BOOLEAN
    BY <1>1 DEF Handler
  <2>. QED  BY <1>3, <1>4, <2>1 DEF Object
<1>6. obj' = [obj EXCEPT ![o] = r] /\ chan' = chan
  <2>1. obj' = [obj EXCEPT ![o].ws = w, ![o].suspended = ws[w].suspend] /\ chan' = chan
    BY <1>2 DEF Attach
  <2>2. obj \in Seq(Object) /\ DOMAIN obj = ObjId
    BY <1>1 DEF ObjType, ObjId
  <2>. QED  BY <1>3, <1>4, <2>1, <2>2
<1>7. /\ ObjType' /\ ObjKeep /\ ChanKeep /\ Len(obj') = Len(obj)
      /\ \A p \in ObjId : obj'[p] = IF p = o THEN r ELSE obj[p]
  BY <1>1, <1>3, <1>5, <1>6, ObjOnly
<1>8. PICK h : h = [ws[w] EXCEPT !.pc = "replay", !.backlog = obj[o].buffer]
  OBVIOUS
<1>9. h \in Handler /\ h.pc = "replay" /\ h.obj = o
  <2>1. obj[o].buffer \in Seq(Chunk)
    BY <1>3 DEF Object
  <2>. QED  BY <1>1, <1>2, <1>8, <2>1 DEF Handler
<1>10. PICK x : x = obj[o].ws
  OBVIOUS
<1>11. ws' = [v \in Ws |-> IF v = w THEN h
                          ELSE IF v = x THEN [ws[v] EXCEPT !.open = FALSE] ELSE ws[v]]
  BY <1>2, <1>8, <1>10 DEF Attach
<1>12. ASSUME NEW v \in Ws, v # w
       PROVE  ws'[v] \in Handler /\ SameJob(ws'[v], ws[v]) /\ (v = x => ws'[v].open = FALSE)
  <2>1. ws[v] \in Handler
    BY <1>1 DEF WsType
  <2>2. CASE v = x
    <3>1. ws'[v] = [ws[v] EXCEPT !.open = FALSE]
      BY <1>11, <1>12, <2>2
    <3>. QED  BY <2>1, <3>1, ClosedHandler
  <2>3. CASE v # x
    <3>1. ws'[v] = ws[v]
      BY <1>11, <1>12, <2>3
    <3>. QED  BY <2>1, <2>3, <3>1 DEF SameJob
  <2>. QED  BY <2>2, <2>3
<1>13. ws'[w] = h
  BY <1>11
<1>14. WsType'
  <2>1. ws' \in [Ws -> Handler]
    <3>1. \A v \in Ws : ws'[v] \in Handler
      BY <1>9, <1>12, <1>13
    <3>2. ws' = [v \in Ws |-> ws'[v]]
      BY <1>11
    <3>. QED  BY <3>1, <3>2
  <2>2. o \in 0 .. Len(obj') /\ o # 0
    BY <1>3, <1>7 DEF ObjId
  <2>3. \A v \in Ws : v # w => SameJob(ws'[v], ws[v])
    BY <1>12
  <2>. QED  BY <1>1, <1>7, <1>9, <1>13, <2>1, <2>2, <2>3 DEF WsType, SameJob
<1>15. StillShown
  <2>1. ASSUME NEW v \in Ws, ~Taken(v), v # w, ws'[v].open, ws'[v].pc \in {"replay", "read"}
        PROVE  obj'[ws'[v].obj].ws = v
    <3>1. ws'[v].obj = ws[v].obj /\ ws[v].open /\ ws[v].pc \in {"replay", "read"} /\ v # x
      <4>1. SameJob(ws'[v], ws[v]) /\ (v = x => ws'[v].open = FALSE)
        BY <1>12, <2>1
      <4>. QED  BY <2>1, <4>1 DEF SameJob
    <3>2. obj[ws[v].obj].ws = v
      BY <1>1, <2>1, <3>1 DEF ShownInv
    <3>3. ws[v].obj \in ObjId /\ ws[v].obj # o
      BY <1>10, <3>1, <3>2, ItsObject
    <3>. QED  BY <1>7, <3>1, <3>2, <3>3
  <2>. QED  BY <1>3, <1>5, <1>7, <1>9, <1>13, <2>1 DEF StillShown
<1>. QED  BY <1>7, <1>14, <1>15, ObjStep DEF Attach

\* The browser asks the server to keep the session, or not to.
LEMMA AskSuspendStep ==
  ASSUME IndInv, NEW w \in Ws, NEW b \in BOOLEAN, AskSuspend(w, b)
  PROVE  IndInv'
<1>1. ObjType /\ WsType /\ ShownInv /\ ws[w].pc = "read" /\ ws' = ws /\ ws \in [Ws -> Handler]
  BY DEF IndInv, WsType, AskSuspend
<1>2. PICK o : o = ws[w].obj
  OBVIOUS
<1>3. o \in ObjId /\ obj[o] \in Object
  BY <1>1, <1>2, ItsObject
<1>4. PICK r : r = [obj[o] EXCEPT !.suspended = b]
  OBVIOUS
<1>5. r \in Object /\ r.id = obj[o].id /\ r.ac = obj[o].ac /\ r.buffer = obj[o].buffer
      /\ r.ws = obj[o].ws
  BY <1>3, <1>4 DEF Object
<1>6. obj' = [obj EXCEPT ![o] = r] /\ chan' = chan
  BY <1>2, <1>4 DEF AskSuspend
<1>7. /\ ObjType' /\ ObjKeep /\ ChanKeep /\ Len(obj') = Len(obj)
      /\ \A p \in ObjId : obj'[p] = IF p = o THEN r ELSE obj[p]
  BY <1>1, <1>3, <1>5, <1>6, ObjOnly
<1>8. WsType'
  BY <1>1, <1>7, WsKeepType DEF WsKeep, SameJob
<1>9. \A v \in Ws : ws[v].pc \in {"replay", "read"} => ws[v].obj \in ObjId
  BY ItsObject
<1>10. StillShown
  BY <1>1, <1>5, <1>7, <1>9 DEF ShownInv, StillShown
<1>. QED  BY <1>7, <1>8, <1>10, ObjStep DEF AskSuspend

\* CloseTerm and the registry's remove, of one object's session.
LEMMA CloseTermStep ==
  ASSUME IndInv, NEW c \in Conn, NEW s \in Sid, CloseTerm(c, s), RegRemove(s),
         ObjType', ObjKeep, ChanKeep, WsType', RestType', ShownInv',
         UNCHANGED <<hand, sess, ended, toServer, agentSide>>
  PROVE  IndInv'
<1>1. ObjType /\ MapType /\ AgentType /\ Len(obj) \in Nat
  BY DEF IndInv, ObjType
<1>2. term' = [term EXCEPT ![c][s] = 0]
  BY DEF CloseTerm
<1>3. reg' \in [Sid -> 0 .. Len(obj)]
  BY <1>1 DEF MapType, RegRemove
<1>4. MapType' /\ TermInv' /\ EntryOpen' /\ HandInv'
  BY <1>2, <1>3, MapsShrink
<1>5. PICK m : m = [type |-> "close", sid |-> s]
  OBVIOUS
<1>6. Send(c, m) /\ m \in [type : {"open", "close"}, sid : Sid]
  BY <1>5 DEF CloseTerm
<1>7. AgentType'
  BY <1>1, <1>6, SendType, AgentSends
<1>. QED  BY <1>4, <1>7 DEF IndInv

\* The user closes the session, or its reader cleans up after itself.
LEMMA CloseStep ==
  ASSUME IndInv, NEW w \in Ws, AskClose(w) \/ CleanUp(w)
  PROVE  IndInv'
<1>1. ObjType /\ WsType /\ ShownInv /\ ws[w] \in Handler /\ ws \in [Ws -> Handler]
  BY DEF IndInv, WsType
<1>2. ws[w].pc \in {"read", "remove"} /\ UNCHANGED <<inHand, obj, chan, sess, ended, toServer, agentSide>>
  BY DEF AskClose, CleanUp
<1>3. PICK o : o = ws[w].obj
  OBVIOUS
<1>4. o \in ObjId /\ obj[o] \in Object
  BY <1>2, <1>3, ItsObject
<1>5. obj[o].ac \in Conn /\ obj[o].id \in Sid
  BY <1>4 DEF Object
<1>6. CloseTerm(obj[o].ac, obj[o].id) /\ RegRemove(obj[o].id)
  BY <1>3 DEF AskClose, CleanUp
<1>7. ObjType' /\ ObjKeep /\ ChanKeep
  BY <1>1, <1>2 DEF ObjType, ObjKeep, ChanKeep, ObjId
<1>8. PICK h : /\ ws' = [ws EXCEPT ![w] = h] /\ h \in Handler /\ h.pc \in {"detach", "end"}
               /\ h.obj \in 0 .. Len(obj) /\ (h.pc = "detach" => h.obj # 0)
  <2>1. o \in 0 .. Len(obj) /\ o # 0 /\ 0 \in 0 .. Len(obj)
    BY <1>1, <1>4 DEF ObjType, ObjId
  <2>2. CASE AskClose(w)
    <3>1. PICK h : h = [ws[w] EXCEPT !.pc = "detach"]
      OBVIOUS
    <3>2. ws' = [ws EXCEPT ![w] = h]
      BY <1>1, <2>2, <3>1 DEF AskClose, Goto
    <3>3. h \in Handler /\ h.pc = "detach" /\ h.obj = o
      BY <1>1, <1>3, <3>1 DEF Handler
    <3>. QED  BY <2>1, <3>2, <3>3
  <2>3. CASE CleanUp(w)
    <3>1. PICK h : h = Gone
      OBVIOUS
    <3>2. h \in Handler /\ h.pc = "end" /\ h.obj = 0
      BY <3>1, NoWsType DEF Gone, NoWs
    <3>3. ws' = [ws EXCEPT ![w] = h]
      BY <2>3, <3>1 DEF CleanUp
    <3>4. h.pc \in {"detach", "end"} /\ h.obj \in 0 .. Len(obj) /\ h.pc # "detach"
      BY <2>1, <3>2
    <3>. QED  BY <3>2, <3>3, <3>4
  <2>. QED  BY <2>2, <2>3
<1>9. WsType'
  BY <1>1, <1>2, <1>8 DEF WsType
<1>10. StillShown
  BY <1>1, <1>2, <1>8 DEF ShownInv, StillShown
<1>11. RestType' /\ \A v : Taken(v)' <=> Taken(v)
  BY <1>2, <1>7, RestStays DEF inHand
<1>12. ShownInv'
  BY <1>10, <1>11 DEF ShownInv, StillShown
<1>. QED  BY <1>2, <1>5, <1>6, <1>7, <1>9, <1>11, <1>12, CloseTermStep DEF inHand

\* An object that forgets a browser; the browser that goes on is another's.
LEMMA DetachStep ==
  ASSUME IndInv, NEW w \in Ws, Detach(w)
  PROVE  IndInv'
<1>1. /\ ObjType /\ WsType /\ ShownInv /\ ws[w] \in Handler /\ ws[w].pc = "detach"
      /\ ws \in [Ws -> Handler]
  BY DEF IndInv, WsType, Detach
<1>2. PICK o : o = ws[w].obj
  OBVIOUS
<1>3. o \in ObjId /\ obj[o] \in Object /\ Len(obj) \in Nat
  BY <1>1, <1>2, ItsObject DEF ObjType
<1>4. PICK r : r = [obj[o] EXCEPT !.ws = IF @ = w THEN None ELSE @]
  OBVIOUS
<1>5. r \in Object /\ r.id = obj[o].id /\ r.ac = obj[o].ac /\ r.buffer = obj[o].buffer
      /\ (obj[o].ws # w => r.ws = obj[o].ws)
  BY <1>3, <1>4 DEF Object
<1>6. obj' = [obj EXCEPT ![o] = r] /\ chan' = chan
  BY <1>2, <1>4 DEF Detach
<1>7. /\ ObjType' /\ ObjKeep /\ ChanKeep /\ Len(obj') = Len(obj)
      /\ \A p \in ObjId : obj'[p] = IF p = o THEN r ELSE obj[p]
  BY <1>1, <1>3, <1>5, <1>6, ObjOnly
<1>8. PICK h : /\ ws' = [ws EXCEPT ![w] = h] /\ h \in Handler /\ h.pc \in {"remove", "end"}
               /\ h.obj \in 0 .. Len(obj) /\ (h.pc = "remove" => h.obj # 0)
  <2>1. o \in 0 .. Len(obj) /\ o # 0 /\ 0 \in 0 .. Len(obj)
    BY <1>3 DEF ObjId
  <2>2. CASE obj[o].suspended /\ ~obj[o].closed
    <3>1. PICK h : h = Gone
      OBVIOUS
    <3>2. h \in Handler /\ h.pc = "end" /\ h.obj = 0
      BY <3>1, NoWsType DEF Gone, NoWs
    <3>3. ws' = [ws EXCEPT ![w] = h]
      BY <1>2, <2>2, <3>1 DEF Detach
    <3>4. h.pc \in {"remove", "end"} /\ h.obj \in 0 .. Len(obj) /\ h.pc # "remove"
      BY <2>1, <3>2
    <3>. QED  BY <3>2, <3>3, <3>4
  <2>3. CASE ~(obj[o].suspended /\ ~obj[o].closed)
    <3>1. PICK h : h = [ws[w] EXCEPT !.open = FALSE, !.pc = "remove", !.got = <<>>]
      OBVIOUS
    <3>2. ws' = [ws EXCEPT ![w] = h]
      BY <1>1, <1>2, <2>3, <3>1 DEF Detach
    <3>3. <<>> \in Seq(Chunk)
      OBVIOUS
    <3>4. h \in Handler /\ h.pc = "remove" /\ h.obj = o
      BY <1>1, <1>2, <3>1, <3>3 DEF Handler
    <3>. QED  BY <2>1, <3>2, <3>4
  <2>. QED  BY <2>2, <2>3
<1>9. WsType'
  BY <1>1, <1>7, <1>8 DEF WsType
<1>10. StillShown
  <2>1. ASSUME NEW v \in Ws, ~Taken(v), ws'[v].open, ws'[v].pc \in {"replay", "read"}
        PROVE  obj'[ws'[v].obj].ws = v
    <3>1. v # w /\ ws'[v] = ws[v]
      BY <1>1, <1>8, <2>1
    <3>2. ws[v].obj \in ObjId /\ obj[ws[v].obj].ws = v
      BY <1>1, <2>1, <3>1, ItsObject DEF ShownInv
    <3>. QED  BY <1>5, <1>7, <3>1, <3>2
  <2>. QED  BY <2>1 DEF StillShown
<1>. QED  BY <1>7, <1>9, <1>10, ObjStep DEF Detach

\* What the handler of a REST request has looked up.
LEMMA RestObject ==
  ASSUME IndInv, NEW h \in Closer, rest[h].pc # "idle"
  PROVE  rest[h].obj \in ObjId /\ obj[rest[h].obj] \in Object
<1>1. rest[h].obj \in ObjId /\ obj \in Seq(Object)
  <2>1. rest[h].obj \in Nat /\ rest[h].obj <= Len(obj) /\ rest[h].obj # 0
    BY DEF IndInv, RestType, Request
  <2>2. obj \in Seq(Object) /\ Len(obj) \in Nat
    BY DEF IndInv, ObjType
  <2>. QED  BY <2>1, <2>2 DEF ObjId
<1>. QED  BY <1>1 DEF ObjId

\* A REST handler goes on, and the session's objects and maps stay as they are but
\* for the browser of one object and the ends of browser connections.
LEMMA RestGoesOn ==
  ASSUME IndInv, NEW h \in Closer, NEW g \in Request,
         g.obj <= Len(obj), g.pc # "idle" => g.obj # 0,
         rest' = [rest EXCEPT ![h] = g], ObjType', ObjKeep, ChanKeep, Len(obj') = Len(obj),
         WsType', ShownInv',
         UNCHANGED <<reg, term, last, hand, sess, ended, agentSide, wires>>
  PROVE  IndInv'
<1>1. MapType' /\ TermInv' /\ EntryOpen' /\ HandInv'
  BY MapsStay
<1>2. AgentType'
  BY DEF IndInv, AgentType, agentSide, wires
<1>3. RestType'
  BY DEF IndInv, RestType
<1>. QED  BY <1>1, <1>2, <1>3 DEF IndInv

\* A REST request finds its session.
LEMMA HandleTerminalStep ==
  ASSUME IndInv, NEW h \in Closer, NEW s \in Sid, HandleTerminalByID(h, s)
  PROVE  IndInv'
<1>1. ObjType /\ WsType /\ ShownInv /\ MapType /\ RestType /\ Len(obj) \in Nat
  BY DEF IndInv, ObjType
<1>2. PICK g : g = [pc |-> "take", obj |-> reg[s], ws |-> None]
  OBVIOUS
<1>3. reg[s] \in Nat /\ reg[s] <= Len(obj) /\ reg[s] # 0
  BY <1>1 DEF MapType, HandleTerminalByID
<1>4. g \in Request /\ g.pc = "take" /\ g.obj = reg[s]
  BY <1>2, <1>3 DEF Request
<1>5. /\ rest' = [rest EXCEPT ![h] = g] /\ rest[h].pc = "idle"
      /\ UNCHANGED <<obj, reg, chan, term, ws, last, hand, sess, ended, agentSide, wires>>
  BY <1>2 DEF HandleTerminalByID
<1>6. ObjType' /\ ObjKeep /\ ChanKeep
  BY <1>1, <1>5 DEF ObjType, ObjKeep, ChanKeep, ObjId
<1>7. WsType'
  BY <1>1, <1>5 DEF WsType
<1>8. \A w : Taken(w) => Taken(w)'
  BY <1>1, <1>5 DEF Taken, RestType
<1>9. ShownInv'
  BY <1>1, <1>5, <1>8 DEF ShownInv
<1>. QED  BY <1>3, <1>4, <1>5, <1>6, <1>7, <1>9, RestGoesOn

\* It takes the browser out of the session: the object forgets it, the handler has it.
LEMMA TakeWsStep ==
  ASSUME IndInv, NEW h \in Closer, TakeWs(h)
  PROVE  IndInv'
<1>1. ObjType /\ WsType /\ ShownInv /\ RestType /\ Len(obj) \in Nat
  BY DEF IndInv, ObjType
<1>2. PICK o : o = rest[h].obj
  OBVIOUS
<1>3. o \in ObjId /\ obj[o] \in Object /\ rest[h].pc = "take"
  BY <1>2, RestObject DEF TakeWs
<1>4. PICK r : r = [obj[o] EXCEPT !.ws = None]
  OBVIOUS
<1>5. r \in Object /\ r.id = obj[o].id /\ r.ac = obj[o].ac /\ r.buffer = obj[o].buffer
  BY <1>3, <1>4 DEF Object
<1>6. obj' = [obj EXCEPT ![o] = r] /\ chan' = chan /\ ws' = ws
      /\ UNCHANGED <<reg, term, last, hand, sess, ended, agentSide, wires>>
  BY <1>2, <1>4 DEF TakeWs
<1>7. /\ ObjType' /\ ObjKeep /\ ChanKeep /\ Len(obj') = Len(obj)
      /\ \A p \in ObjId : obj'[p] = IF p = o THEN r ELSE obj[p]
  BY <1>1, <1>3, <1>5, <1>6, ObjOnly
<1>8. PICK g : g = [pc |-> IF obj[o].ws = None THEN "remove" ELSE "close",
                    obj |-> o, ws |-> obj[o].ws]
  OBVIOUS
<1>9. /\ g \in Request /\ g.obj = o /\ g.ws = obj[o].ws /\ o <= Len(obj) /\ o # 0
      /\ g.pc = IF obj[o].ws = None THEN "remove" ELSE "close"
  <2>1. obj[o].ws \in Ws \cup {None} /\ o \in Nat /\ o <= Len(obj) /\ o # 0
    BY <1>1, <1>3 DEF Object, ObjId
  <2>. QED  BY <1>8, <2>1 DEF Request
<1>10. rest' = [rest EXCEPT ![h] = g]
  BY <1>2, <1>8 DEF TakeWs
<1>11. WsType'
  BY <1>1, <1>6, <1>7 DEF WsType
<1>12. rest'[h] = g /\ \A k \in Closer : k # h => rest'[k] = rest[k]
  BY <1>1, <1>10 DEF RestType
<1>13. \A w : Taken(w) => Taken(w)'
  BY <1>3, <1>12 DEF Taken
<1>14. ShownInv'
  <2>1. ASSUME NEW v \in Ws, ws[v].open, ws[v].pc \in {"replay", "read"}
        PROVE  Taken(v)' \/ obj'[ws[v].obj].ws = v
    <3>1. CASE Taken(v)
      BY <1>13, <3>1
    <3>2. CASE ~Taken(v)
      <4>1. ws[v].obj \in ObjId /\ obj[ws[v].obj].ws = v
        BY <1>1, <2>1, <3>2, ItsObject DEF ShownInv
      <4>2. CASE ws[v].obj = o
        <5>1. rest'[h].pc = "close" /\ rest'[h].ws = v
          BY <1>9, <1>12, <4>1, <4>2, TermAssumption
        <5>. QED  BY <5>1 DEF Taken
      <4>3. CASE ws[v].obj # o
        BY <1>7, <4>1, <4>3
      <4>. QED  BY <4>2, <4>3
    <3>. QED  BY <3>1, <3>2
  <2>. QED  BY <1>6, <2>1 DEF ShownInv
<1>. QED  BY <1>6, <1>7, <1>9, <1>10, <1>11, <1>14, RestGoesOn

\* It closes the browser it has taken, which no longer shows anything.
LEMMA CloseTakenStep ==
  ASSUME IndInv, NEW h \in Closer, CloseTaken(h)
  PROVE  IndInv'
<1>1. ObjType /\ WsType /\ ShownInv /\ RestType /\ Len(obj) \in Nat
  BY DEF IndInv, ObjType
<1>2. /\ rest[h].pc = "close" /\ rest[h] \in Request /\ rest[h].obj <= Len(obj) /\ rest[h].obj # 0
      /\ UNCHANGED <<obj, reg, chan, term, last, hand, sess, ended, agentSide, wires>>
  BY <1>1 DEF CloseTaken, RestType
<1>3. PICK g : g = [rest[h] EXCEPT !.pc = "remove", !.ws = None]
  OBVIOUS
<1>4. g \in Request /\ g.obj = rest[h].obj
  BY <1>2, <1>3 DEF Request
<1>5. rest' = [rest EXCEPT ![h] = g]
  BY <1>1, <1>3 DEF CloseTaken, RestType
<1>6. PICK x : x = rest[h].ws
  OBVIOUS
<1>7. WsKeep /\ \A v \in Ws : v = x => ws'[v].open = FALSE
  <2>1. ws' = [v \in Ws |-> IF v = x THEN [ws[v] EXCEPT !.open = FALSE] ELSE ws[v]]
    BY <1>6 DEF CloseTaken, CloseWs
  <2>. QED  BY <2>1, Closing
<1>8. ObjType' /\ ObjKeep /\ ChanKeep /\ Len(obj') = Len(obj)
  BY <1>1, <1>2 DEF ObjType, ObjKeep, ChanKeep, ObjId
<1>9. WsType'
  BY <1>7, <1>8, WsKeepType
<1>10. \A w : Taken(w) /\ w # x => Taken(w)'
  <2>1. \A k \in Closer : k # h => rest'[k] = rest[k]
    BY <1>1, <1>5 DEF RestType
  <2>. QED  BY <1>6, <2>1 DEF Taken
<1>11. ShownInv'
  <2>1. ASSUME NEW v \in Ws, ws'[v].open, ws'[v].pc \in {"replay", "read"}
        PROVE  Taken(v)' \/ obj'[ws'[v].obj].ws = v
    <3>1. v # x /\ ws'[v].obj = ws[v].obj /\ ws[v].open /\ ws[v].pc \in {"replay", "read"}
      BY <1>7, <2>1 DEF WsKeep, SameJob
    <3>2. Taken(v) \/ obj[ws[v].obj].ws = v
      BY <1>1, <3>1 DEF ShownInv
    <3>. QED  BY <1>2, <1>10, <3>1, <3>2
  <2>. QED  BY <2>1 DEF ShownInv
<1>. QED  BY <1>2, <1>4, <1>5, <1>8, <1>9, <1>11, RestGoesOn

\* It closes the terminal and removes the session.
LEMMA CloseSessionStep ==
  ASSUME IndInv, NEW h \in Closer, CloseSession(h)
  PROVE  IndInv'
<1>1. ObjType /\ WsType /\ ShownInv /\ RestType /\ Len(obj) \in Nat
  BY DEF IndInv, ObjType
<1>2. PICK o : o = rest[h].obj
  OBVIOUS
<1>3. o \in ObjId /\ obj[o] \in Object /\ rest[h].pc = "remove"
  BY <1>2, RestObject DEF CloseSession
<1>4. obj[o].ac \in Conn /\ obj[o].id \in Sid
  BY <1>3 DEF Object
<1>5. /\ CloseTerm(obj[o].ac, obj[o].id) /\ RegRemove(obj[o].id)
      /\ rest' = [rest EXCEPT ![h] = NoRest]
      /\ UNCHANGED <<obj, chan, ws, last, hand, sess, ended, toServer, agentSide>>
  BY <1>2 DEF CloseSession
<1>6. NoRest \in Request /\ NoRest.pc = "idle" /\ NoRest.obj = 0
  BY DEF NoRest, Request
<1>7. ObjType' /\ ObjKeep /\ ChanKeep
  BY <1>1, <1>5 DEF ObjType, ObjKeep, ChanKeep, ObjId
<1>8. WsType'
  BY <1>1, <1>5 DEF WsType
<1>9. RestType'
  BY <1>1, <1>5, <1>6 DEF RestType
<1>10. \A w : Taken(w) => Taken(w)'
  <2>1. \A k \in Closer : k # h => rest'[k] = rest[k]
    BY <1>1, <1>5 DEF RestType
  <2>. QED  BY <1>3, <2>1 DEF Taken
<1>11. ShownInv'
  BY <1>1, <1>5, <1>10 DEF ShownInv
<1>. QED  BY <1>4, <1>5, <1>7, <1>8, <1>9, <1>11, CloseTermStep

-----------------------------------------------------------------------------
(* The pump and the agent's messages.                                       *)

\* The buffer that is replayed keeps the last chunks, within its bound.
LEMMA CutType ==
  ASSUME NEW S, NEW b \in Seq(S)
  PROVE  Cut(b) \in Seq(S) /\ Len(Cut(b)) <= MaxBuffer
<1>1. MaxBuffer \in Nat /\ MaxBuffer # 0 /\ Len(b) \in Nat
  BY TermAssumption
<1>2. CASE Len(b) <= MaxBuffer
  BY <1>1, <1>2 DEF Cut
<1>3. CASE Len(b) > MaxBuffer
  <2>1. PICK k : k = Len(b) - MaxBuffer + 1
    OBVIOUS
  <2>2. k \in 1 .. Len(b) /\ Len(b) - k + 1 = MaxBuffer
    BY <1>1, <1>3, <2>1
  <2>3. Cut(b) = SubSeq(b, k, Len(b))
    BY <1>1, <1>3, <2>1 DEF Cut
  <2>4. SubSeq(b, k, Len(b)) \in Seq(S) /\ Len(SubSeq(b, k, Len(b))) = Len(b) - k + 1
    BY <1>1, <2>2
  <2>. QED  BY <1>1, <2>2, <2>3, <2>4
<1>. QED  BY <1>1, <1>2, <1>3

\* A channel is changed; the others are as before.
LEMMA ChanChange ==
  ASSUME ObjType, NEW o \in ObjId, NEW ch \in Channel, Len(ch.items) <= ChanCap,
         chan' = [chan EXCEPT ![o] = ch]
  PROVE  /\ chan' \in Seq(Channel) /\ Len(chan') = Len(obj)
         /\ \A p \in ObjId : chan'[p] = IF p = o THEN ch ELSE chan[p]
         /\ \A p \in ObjId : Len(chan'[p].items) <= ChanCap
<1>1. chan \in Seq(Channel) /\ Len(chan) = Len(obj) /\ Len(obj) \in Nat
  BY DEF ObjType
<1>2. chan' \in Seq(Channel) /\ Len(chan') = Len(obj)
  BY <1>1 DEF ObjId
<1>3. \A p \in ObjId : chan'[p] = IF p = o THEN ch ELSE chan[p]
  BY <1>1 DEF ObjId
<1>4. \A p \in ObjId : Len(chan'[p].items) <= ChanCap
  BY <1>3 DEF ObjType
<1>. QED  BY <1>2, <1>3, <1>4

\* Output goes to the buffer and to the browser the object knows.
LEMMA PumpStepGood ==
  ASSUME IndInv, NEW o \in ObjId, Pump(o)
  PROVE  IndInv'
<1>1. ObjType /\ WsType /\ ShownInv
  BY DEF IndInv
<1>2. obj[o] \in Object /\ chan[o] \in Channel /\ Len(obj) \in Nat /\ chan[o].items # <<>>
  <2>1. obj \in Seq(Object) /\ chan \in Seq(Channel) /\ Len(obj) \in Nat /\ Len(chan) = Len(obj)
    BY <1>1 DEF ObjType
  <2>. QED  BY <2>1 DEF ObjId, Pump
<1>3. PICK d : d = IF Head(chan[o].items) = 0 THEN <<>> ELSE <<Head(chan[o].items)>>
  OBVIOUS
<1>4. PICK x : x = obj[o].ws
  OBVIOUS
<1>5. /\ chan' = [chan EXCEPT ![o].items = Tail(@)]
      /\ obj' = [obj EXCEPT ![o].buffer = Cut(@ \o d),
                            ![o].ws = IF x # None /\ ~ws[x].open THEN None ELSE x]
      /\ ws' = [v \in Ws |-> IF v = x /\ ws[v].open THEN [ws[v] EXCEPT !.got = @ \o d]
                             ELSE ws[v]]
  BY <1>3, <1>4 DEF Pump
<1>6. PICK its : its = chan[o].items
  OBVIOUS
<1>7. /\ its \in Seq(Chunk \cup {0}) /\ its # <<>> /\ Len(its) <= ChanCap
      /\ Tail(its) \in Seq(Chunk \cup {0}) /\ Len(Tail(its)) <= ChanCap
      /\ Head(its) \in Chunk \cup {0}
  <2>1. its \in Seq(Chunk \cup {0}) /\ its # <<>> /\ Len(its) <= ChanCap /\ ChanCap \in Nat
    BY <1>1, <1>2, <1>6, TermAssumption DEF Channel, ObjType
  <2>2. PICK C : C = Chunk \cup {0}
    OBVIOUS
  <2>3. its \in Seq(C)
    BY <2>1, <2>2
  <2>4. Tail(its) \in Seq(C) /\ Len(Tail(its)) = Len(its) - 1 /\ Head(its) \in C /\ Len(its) \in Nat
    BY <2>1, <2>3
  <2>. QED  BY <2>1, <2>2, <2>4
<1>8. d \in Seq(Chunk)
  <2>1. CASE Head(its) = 0
    BY <1>3, <1>6, <2>1
  <2>2. CASE Head(its) # 0
    <3>1. PICK y : y = Head(its)
      OBVIOUS
    <3>2. y \in Chunk /\ d = <<y>>
      BY <1>3, <1>6, <1>7, <2>2, <3>1
    <3>3. PICK C : C = Chunk
      OBVIOUS
    <3>4. <<y>> \in Seq(C)
      BY <3>2, <3>3
    <3>. QED  BY <3>2, <3>3, <3>4
  <2>. QED  BY <2>1, <2>2
<1>9. PICK ch : ch = [chan[o] EXCEPT !.items = Tail(@)]
  OBVIOUS
<1>10. ch \in Channel /\ ch.items = Tail(its) /\ ch.closed = chan[o].closed
  BY <1>2, <1>6, <1>7, <1>9 DEF Channel
<1>11. chan' = [chan EXCEPT ![o] = ch]
  BY <1>5, <1>9
<1>12. /\ chan' \in Seq(Channel) /\ Len(chan') = Len(obj)
       /\ \A p \in ObjId : chan'[p] = IF p = o THEN ch ELSE chan[p]
       /\ \A p \in ObjId : Len(chan'[p].items) <= ChanCap
  BY <1>1, <1>7, <1>10, <1>11, ChanChange
<1>13. PICK buf, y : /\ buf = Cut(obj[o].buffer \o d)
                     /\ y = IF x # None /\ ~ws[x].open THEN None ELSE x
  OBVIOUS
<1>14. buf \in Seq(Chunk) /\ Len(buf) <= MaxBuffer
  <2>1. PICK C : C = Chunk
    OBVIOUS
  <2>2. obj[o].buffer \in Seq(C) /\ d \in Seq(C)
    BY <1>2, <1>8, <2>1 DEF Object
  <2>3. obj[o].buffer \o d \in Seq(C)
    BY <2>2
  <2>. QED  BY <1>13, <2>1, <2>3, CutType
<1>15. PICK r : r = [obj[o] EXCEPT !.buffer = buf, !.ws = y]
  OBVIOUS
<1>16. r \in Object /\ r.id = obj[o].id /\ r.ac = obj[o].ac /\ r.buffer = buf /\ r.ws = y
  <2>1. y \in Ws \cup {None}
    BY <1>2, <1>4, <1>13 DEF Object
  <2>. QED  BY <1>2, <1>14, <1>15, <2>1 DEF Object
<1>17. obj' = [obj EXCEPT ![o] = r]
  <2>1. DOMAIN obj = ObjId
    BY <1>1 DEF ObjType, ObjId
  <2>2. obj' = [obj EXCEPT ![o].buffer = buf, ![o].ws = y]
    BY <1>5, <1>13, <2>1
  <2>. QED  BY <1>2, <1>15, <2>1, <2>2
<1>18. /\ obj' \in Seq(Object) /\ Len(obj') = Len(obj)
       /\ \A p \in ObjId : obj'[p] = IF p = o THEN r ELSE obj[p]
       /\ \A p \in ObjId : Len(obj'[p].buffer) <= MaxBuffer
       /\ ObjKeep
  BY <1>1, <1>14, <1>16, <1>17, ObjChange
<1>19. ObjType' /\ ChanKeep
  BY <1>1, <1>10, <1>12, <1>18 DEF ObjType, ChanKeep, ObjId
<1>20. WsKeep
  <2>1. ASSUME NEW v \in Ws
        PROVE  ws'[v] \in Handler /\ SameJob(ws'[v], ws[v])
    <3>1. ws[v] \in Handler
      BY <1>1 DEF WsType
    <3>2. CASE v = x /\ ws[v].open
      <4>1. PICK g : g = [ws[v] EXCEPT !.got = @ \o d]
        OBVIOUS
      <4>2. ws'[v] = g
        BY <1>5, <3>2, <4>1
      <4>3. ws[v].got \o d \in Seq(Chunk)
        BY <1>8, <3>1 DEF Handler
      <4>4. /\ g \in Handler /\ g.pc = ws[v].pc /\ g.obj = ws[v].obj /\ g.sid = ws[v].sid
            /\ g.conn = ws[v].conn /\ g.open = ws[v].open
        BY <3>1, <4>1, <4>3 DEF Handler
      <4>. QED  BY <4>2, <4>4 DEF SameJob
    <3>3. CASE ~(v = x /\ ws[v].open)
      <4>1. ws'[v] = ws[v]
        BY <1>5, <3>3
      <4>. QED  BY <3>1, <4>1 DEF SameJob
    <3>. QED  BY <3>2, <3>3
  <2>2. ws' \in [Ws -> Handler]
    BY <1>5, <2>1
  <2>. QED  BY <2>1, <2>2 DEF WsKeep
<1>21. WsType'
  BY <1>18, <1>20, WsKeepType
<1>22. StillShown
  <2>1. ASSUME NEW v \in Ws, ~Taken(v), ws'[v].open, ws'[v].pc \in {"replay", "read"}
        PROVE  obj'[ws'[v].obj].ws = v
    <3>1. ws'[v].obj = ws[v].obj /\ ws[v].open /\ ws[v].pc \in {"replay", "read"}
      BY <1>20, <2>1 DEF WsKeep, SameJob
    <3>2. ws[v].obj \in ObjId /\ obj[ws[v].obj].ws = v
      BY <1>1, <2>1, <3>1, ItsObject DEF ShownInv
    <3>3. CASE ws[v].obj = o
      <4>1. x = v /\ y = v
        BY <1>4, <1>13, <3>1, <3>2, <3>3
      <4>. QED  BY <1>16, <1>18, <3>1, <3>3, <4>1
    <3>4. CASE ws[v].obj # o
      BY <1>18, <3>1, <3>2, <3>4
    <3>. QED  BY <3>3, <3>4
  <2>. QED  BY <2>1 DEF StillShown
<1>. QED  BY <1>18, <1>19, <1>21, <1>22, ObjStep DEF Pump

\* The channel is closed and empty: the object is closed, its browser will be.
LEMMA PumpEndsStep ==
  ASSUME IndInv, NEW o \in ObjId, PumpEnds(o)
  PROVE  IndInv'
<1>1. ObjType /\ WsType /\ ShownInv /\ RestType /\ Len(obj) \in Nat
  BY DEF IndInv, ObjType
<1>2. obj[o] \in Object
  BY <1>1 DEF ObjType, ObjId
<1>3. PICK r : r = [obj[o] EXCEPT !.closed = TRUE]
  OBVIOUS
<1>4. r \in Object /\ r.id = obj[o].id /\ r.ac = obj[o].ac /\ r.buffer = obj[o].buffer
      /\ r.ws = obj[o].ws
  BY <1>2, <1>3 DEF Object
<1>5. /\ obj' = [obj EXCEPT ![o] = r] /\ chan' = chan
      /\ last' = [last EXCEPT ![o] = obj[o].ws]
      /\ UNCHANGED <<reg, chan, term, ws, rest, hand, sess, ended, agentSide, wires>>
  BY <1>3 DEF PumpEnds
<1>6. /\ ObjType' /\ ObjKeep /\ ChanKeep /\ Len(obj') = Len(obj)
      /\ \A p \in ObjId : obj'[p] = IF p = o THEN r ELSE obj[p]
  BY <1>1, <1>2, <1>4, <1>5, ObjOnly
<1>7. WsType'
  BY <1>1, <1>5, <1>6 DEF WsType
<1>8. RestType'
  <2>1. obj[o].ws \in Ws \cup {None}
    BY <1>2 DEF Object
  <2>2. last' \in [1 .. MaxSession -> Ws \cup {None}]
    BY <1>1, <1>5, <2>1 DEF RestType
  <2>. QED  BY <1>1, <1>5, <1>6, <2>2 DEF RestType
<1>9. ShownInv'
  <2>1. \A v : Taken(v)' <=> Taken(v)
    BY <1>5 DEF Taken
  <2>2. \A v \in Ws : ws[v].pc \in {"replay", "read"} => ws[v].obj \in ObjId
    BY ItsObject
  <2>. QED  BY <1>1, <1>4, <1>5, <1>6, <2>1, <2>2 DEF ShownInv
<1>10. MapType' /\ TermInv' /\ EntryOpen' /\ HandInv'
  BY <1>5, <1>6, MapsStay
<1>11. AgentType'
  BY <1>5 DEF IndInv, AgentType, agentSide, wires
<1>. QED  BY <1>6, <1>7, <1>8, <1>9, <1>10, <1>11 DEF IndInv

\* The pump closes the browser it found.
LEMMA PumpClosesStep ==
  ASSUME IndInv, NEW o \in ObjId, PumpCloses(o)
  PROVE  IndInv'
<1>1. ObjType /\ WsType /\ ShownInv /\ RestType
  BY DEF IndInv
<1>2. /\ UNCHANGED <<obj, reg, chan, term, rest, hand, sess, ended, agentSide, wires>>
      /\ last' = [last EXCEPT ![o] = None]
  BY DEF PumpCloses
<1>3. PICK x : x = last[o]
  OBVIOUS
<1>4. WsKeep
  <2>1. ws' = [v \in Ws |-> IF v = x THEN [ws[v] EXCEPT !.open = FALSE] ELSE ws[v]]
    BY <1>3 DEF PumpCloses, CloseWs
  <2>. QED  BY <2>1, Closing
<1>5. ObjType' /\ ObjKeep /\ ChanKeep /\ Len(obj') = Len(obj)
  BY <1>1, <1>2 DEF ObjType, ObjKeep, ChanKeep, ObjId
<1>6. WsType'
  BY <1>4, <1>5, WsKeepType
<1>7. RestType' /\ \A v : Taken(v)' <=> Taken(v)
  BY <1>1, <1>2 DEF RestType, Taken
<1>8. ShownInv'
  BY <1>1, <1>2, <1>4, <1>7 DEF ShownInv, WsKeep, SameJob
<1>9. MapType' /\ TermInv' /\ EntryOpen' /\ HandInv'
  BY <1>2, <1>5, MapsStay
<1>10. AgentType'
  BY <1>2 DEF IndInv, AgentType, agentSide, wires
<1>. QED  BY <1>5, <1>6, <1>7, <1>8, <1>9, <1>10 DEF IndInv

\* What a message of the agent puts on a channel that has room.
LEMMA OfferType ==
  ASSUME NEW ch \in Channel, Len(ch.items) <= ChanCap, NEW x \in Chunk \cup {0}
  PROVE  Offer(ch, x) \in Channel /\ Len(Offer(ch, x).items) <= ChanCap
         /\ Offer(ch, x).closed = ch.closed
<1>1. CASE Len(ch.items) < ChanCap
  <2>1. PICK C : C = Chunk \cup {0}
    OBVIOUS
  <2>2. ch.items \in Seq(C) /\ x \in C /\ ChanCap \in Nat
    BY <2>1, TermAssumption DEF Channel
  <2>3. PICK its : its = Append(ch.items, x)
    OBVIOUS
  <2>4. its \in Seq(C) /\ Len(its) <= ChanCap
    BY <1>1, <2>2, <2>3
  <2>5. Offer(ch, x) = [ch EXCEPT !.items = its]
    BY <1>1, <2>3 DEF Offer
  <2>6. its \in Seq(Chunk \cup {0})
    BY <2>1, <2>4
  <2>. QED  BY <2>4, <2>5, <2>6 DEF Channel
<1>2. CASE ~(Len(ch.items) < ChanCap)
  BY <1>2 DEF Offer
<1>. QED  BY <1>1, <1>2

\* A reader looks up the channel of a message; on the last one the entry goes, which
\* was the only one with that channel.
LEMMA DeliverStep ==
  ASSUME IndInv, Deliver
  PROVE  IndInv'
<1>1. ObjType /\ MapType /\ WsType /\ AgentType /\ TermInv /\ ShownInv /\ EntryOpen /\ HandInv
  BY DEF IndInv
<1>2. PICK M : M = [sid : Sid, data : 0 .. MaxOut, closed : BOOLEAN]
  OBVIOUS
<1>3. /\ toServer \in Seq(M) /\ toServer # <<>> /\ link \in 0 .. MaxConn /\ link # 0
      /\ toServer' = Tail(toServer)
      /\ UNCHANGED <<obj, reg, chan, ws, rest, last, sess, ended, toAgent, agentSide>>
  BY <1>1, <1>2 DEF AgentType, Deliver
<1>4. Head(toServer) \in M /\ Tail(toServer) \in Seq(M)
  BY <1>3
<1>5. PICK m : m = Head(toServer)
  OBVIOUS
<1>6. m.sid \in Sid /\ m.data \in 0 .. MaxOut /\ m.closed \in BOOLEAN /\ link \in Conn
  BY <1>2, <1>3, <1>4, <1>5, TermAssumption DEF Conn
<1>7. PICK o : o = term[link][m.sid]
  OBVIOUS
<1>8. PICK g : g = IF o = 0 THEN Empty ELSE [obj |-> o, data |-> m.data, closed |-> m.closed]
  OBVIOUS
<1>9. /\ term' = IF m.closed THEN [term EXCEPT ![link][m.sid] = 0] ELSE term
      /\ hand' = [hand EXCEPT ![link] = g]
  BY <1>5, <1>7, <1>8 DEF Deliver
<1>10. Len(obj) \in Nat /\ o \in 0 .. Len(obj) /\ o \in Nat
  BY <1>1, <1>6, <1>7 DEF ObjType, MapType
<1>11. g \in Lookups /\ (o # 0 => g.obj = o /\ g.closed = m.closed)
  <2>1. CASE o = 0
    BY <1>8, <2>1, TermAssumption DEF Lookups, Empty
  <2>2. CASE o # 0
    <3>1. g = [obj |-> o, data |-> m.data, closed |-> m.closed]
      BY <1>8, <2>2
    <3>. QED  BY <1>6, <1>10, <3>1 DEF Lookups
  <2>. QED  BY <2>1, <2>2
<1>12. AgentType'
  <2>1. toServer' \in Seq([sid : Sid, data : 0 .. MaxOut, closed : BOOLEAN])
    BY <1>2, <1>3, <1>4
  <2>. QED  BY <1>1, <1>3, <2>1 DEF AgentType, agentSide
<1>13. ObjType' /\ ObjKeep /\ ChanKeep
  BY <1>1, <1>3 DEF ObjType, ObjKeep, ChanKeep, ObjId
<1>14. RestType' /\ \A w : Taken(w)' <=> Taken(w)
  BY <1>3, <1>13, RestStays
<1>15. WsType' /\ ShownInv'
  BY <1>1, <1>3, <1>14 DEF WsType, ShownInv
<1>16. /\ MapType' /\ TermInv' /\ EntryOpen'
       /\ \A d \in Conn, t \in Sid : term'[d][t] =
            IF m.closed /\ d = link /\ t = m.sid THEN 0 ELSE term[d][t]
  <2>1. CASE m.closed
    <3>1. term' = [term EXCEPT ![link][m.sid] = 0]
      BY <1>9, <2>1
    <3>2. reg' \in [Sid -> 0 .. Len(obj)]
      BY <1>1, <1>3 DEF MapType
    <3>3. MapType' /\ TermInv' /\ EntryOpen'
      BY <1>6, <1>13, <3>1, <3>2, MapsShrink
    <3>. QED  BY <1>1, <1>6, <2>1, <3>1, <3>3 DEF MapType
  <2>2. CASE ~m.closed
    BY <1>1, <1>3, <1>9, <2>2 DEF MapType, TermInv, EntryOpen, ObjId
  <2>. QED  BY <1>6, <2>1, <2>2
<1>17. HandInv'
  <2>1. hand' \in [Conn -> Lookups] /\ hand'[link] = g /\ \A c \in Conn : c # link => hand'[c] = hand[c]
    BY <1>1, <1>6, <1>9, <1>11 DEF HandInv
  <2>2. ASSUME NEW c \in Conn, c # link, hand[c] # Empty
        PROVE  /\ hand[c].obj \in ObjId'
               /\ obj'[hand[c].obj].ac = c /\ ~chan'[hand[c].obj].closed
               /\ hand[c].closed => \A d \in Conn, t \in Sid : term'[d][t] # hand[c].obj
    <3>1. /\ hand[c].obj \in ObjId
          /\ obj[hand[c].obj].ac = c /\ ~chan[hand[c].obj].closed
          /\ hand[c].closed => \A d \in Conn, t \in Sid : term[d][t] # hand[c].obj
      BY <1>1, <2>2 DEF HandInv
    <3>2. hand[c].obj # 0
      BY <1>10, <3>1 DEF ObjId
    <3>. QED  BY <1>3, <1>16, <3>1, <3>2 DEF ObjId
  <2>3. ASSUME g # Empty
        PROVE  /\ g.obj \in ObjId'
               /\ obj'[g.obj].ac = link /\ ~chan'[g.obj].closed
               /\ g.closed => \A d \in Conn, t \in Sid : term'[d][t] # g.obj
    <3>1. o # 0 /\ g.obj = o /\ g.closed = m.closed
      BY <1>8, <1>11, <2>3
    <3>2. o \in ObjId /\ obj[o].id = m.sid /\ obj[o].ac = link /\ ~chan[o].closed
      BY <1>1, <1>6, <1>7, <1>10, <3>1 DEF TermInv, EntryOpen, ObjId
    <3>3. ASSUME m.closed, NEW d \in Conn, NEW t \in Sid PROVE term'[d][t] # o
      <4>1. CASE d = link /\ t = m.sid
        BY <1>16, <3>1, <3>3, <4>1
      <4>2. CASE ~(d = link /\ t = m.sid)
        <5>1. term'[d][t] = term[d][t]
          BY <1>16, <4>2
        <5>2. term[d][t] # 0 => obj[term[d][t]].id = t /\ obj[term[d][t]].ac = d
          BY <1>1 DEF TermInv
        <5>. QED  BY <3>1, <3>2, <4>2, <5>1, <5>2
      <4>. QED  BY <4>1, <4>2
    <3>. QED  BY <1>3, <3>1, <3>2, <3>3 DEF ObjId
  <2>4. ASSUME NEW c \in Conn, hand'[c] # Empty
        PROVE  /\ hand'[c].obj \in ObjId'
               /\ obj'[hand'[c].obj].ac = c /\ ~chan'[hand'[c].obj].closed
               /\ hand'[c].closed => \A d \in Conn, t \in Sid : term'[d][t] # hand'[c].obj
    <3>1. CASE c = link
      BY <2>1, <2>3, <2>4, <3>1
    <3>2. CASE c # link
      <4>1. hand'[c] = hand[c] /\ hand[c] # Empty
        BY <2>1, <2>4, <3>2
      <4>. QED  BY <2>2, <3>2, <4>1
    <3>. QED  BY <3>1, <3>2
  <2>. QED  BY <2>1, <2>4 DEF HandInv
<1>. QED  BY <1>12, <1>13, <1>14, <1>15, <1>16, <1>17 DEF IndInv

\* The reader uses the channel: nobody else has one of its connection in hand, and a
\* channel that is closed has left the map.
LEMMA PutStep ==
  ASSUME IndInv, NEW c \in Conn, Put(c)
  PROVE  IndInv'
<1>1. ObjType /\ MapType /\ WsType /\ AgentType /\ TermInv /\ ShownInv /\ EntryOpen /\ HandInv
  BY DEF IndInv
<1>2. PICK o : o = hand[c].obj
  OBVIOUS
<1>3. /\ hand[c] # Empty /\ hand[c] \in Lookups /\ o \in ObjId
      /\ obj[o].ac = c /\ ~chan[o].closed
      /\ hand[c].closed => \A d \in Conn, s \in Sid : term[d][s] # o
  BY <1>1, <1>2 DEF Put, HandInv
<1>4. /\ hand' = [hand EXCEPT ![c] = Empty]
      /\ UNCHANGED <<obj, reg, term, ws, rest, last, sess, ended, agentSide, wires>>
  BY DEF Put
<1>5. /\ Len(obj) \in Nat /\ chan[o] \in Channel /\ Len(chan[o].items) <= ChanCap
      /\ hand[c].data \in Chunk \cup {0} /\ hand[c].closed \in BOOLEAN
  <2>1. Len(obj) \in Nat /\ chan[o] \in Channel /\ Len(chan[o].items) <= ChanCap
    BY <1>1, <1>3 DEF ObjType, ObjId
  <2>2. hand[c].data \in 0 .. MaxOut /\ hand[c].closed \in BOOLEAN /\ MaxOut \in Nat
    BY <1>3, TermAssumption DEF Lookups
  <2>. QED  BY <2>1, <2>2 DEF Chunk
<1>6. PICK e : e = Offer(chan[o], hand[c].data)
  OBVIOUS
<1>7. e \in Channel /\ Len(e.items) <= ChanCap /\ e.closed = chan[o].closed
  BY <1>5, <1>6, OfferType
<1>8. PICK ch : ch = [e EXCEPT !.closed = @ \/ hand[c].closed]
  OBVIOUS
<1>9. ch \in Channel /\ Len(ch.items) <= ChanCap /\ (ch.closed => hand[c].closed)
  <2>1. e.closed = FALSE
    BY <1>3, <1>7 DEF Channel
  <2>2. PICK b : b = (e.closed \/ hand[c].closed)
    OBVIOUS
  <2>3. b \in BOOLEAN /\ (b => hand[c].closed)
    BY <2>1, <2>2
  <2>4. ch = [e EXCEPT !.closed = b]
    BY <1>8, <2>2
  <2>5. ch.closed = b /\ ch.items = e.items /\ ch \in Channel
    BY <1>7, <2>3, <2>4 DEF Channel
  <2>. QED  BY <1>7, <2>3, <2>5
<1>10. chan' = [chan EXCEPT ![o] = ch]
  BY <1>2, <1>6, <1>8 DEF Put
<1>11. /\ chan' \in Seq(Channel) /\ Len(chan') = Len(obj)
       /\ \A p \in ObjId : chan'[p] = IF p = o THEN ch ELSE chan[p]
       /\ \A p \in ObjId : Len(chan'[p].items) <= ChanCap
  BY <1>1, <1>3, <1>9, <1>10, ChanChange
<1>12. ObjType' /\ ObjKeep
  BY <1>1, <1>4, <1>5, <1>11 DEF ObjType, ObjKeep, ObjId
<1>13. MapType' /\ TermInv' /\ WsType' /\ AgentType'
  BY <1>1, <1>4 DEF MapType, TermInv, WsType, AgentType, agentSide, wires
<1>14. RestType' /\ \A w : Taken(w)' <=> Taken(w)
  BY <1>4, <1>12, RestStays
<1>15. ShownInv'
  BY <1>1, <1>4, <1>14 DEF ShownInv
<1>16. EntryOpen'
  <2>1. ASSUME NEW d \in Conn, NEW s \in Sid, term[d][s] # 0 PROVE ~chan'[term[d][s]].closed
    <3>1. term[d][s] \in ObjId /\ ~chan[term[d][s]].closed
      BY <1>1, <1>5, <2>1 DEF MapType, ObjId, EntryOpen
    <3>. QED  BY <1>3, <1>9, <1>11, <3>1
  <2>. QED  BY <1>4, <2>1 DEF EntryOpen
<1>17. HandInv'
  <2>1. hand'[c] = Empty /\ \A d \in Conn : d # c => hand'[d] = hand[d]
    BY <1>1, <1>4 DEF HandInv
  <2>2. hand' \in [Conn -> Lookups]
    <3>1. Empty \in Lookups
      BY TermAssumption DEF Empty, Lookups
    <3>. QED  BY <1>1, <1>4, <3>1 DEF HandInv
  <2>3. ASSUME NEW d \in Conn, hand'[d] # Empty
        PROVE  /\ hand'[d].obj \in ObjId'
               /\ obj'[hand'[d].obj].ac = d /\ ~chan'[hand'[d].obj].closed
               /\ hand'[d].closed => \A b \in Conn, s \in Sid : term'[b][s] # hand'[d].obj
    <3>1. d # c /\ hand'[d] = hand[d] /\ hand[d] # Empty
      BY <2>1, <2>3
    <3>2. /\ hand[d].obj \in ObjId
          /\ obj[hand[d].obj].ac = d /\ ~chan[hand[d].obj].closed
          /\ hand[d].closed => \A b \in Conn, s \in Sid : term[b][s] # hand[d].obj
      BY <1>1, <3>1 DEF HandInv
    <3>3. hand[d].obj # o
      BY <1>3, <3>1, <3>2
    <3>. QED  BY <1>4, <1>11, <3>1, <3>2, <3>3 DEF ObjId
  <2>. QED  BY <2>2, <2>3 DEF HandInv
<1>. QED  BY <1>12, <1>13, <1>14, <1>15, <1>16, <1>17 DEF IndInv

-----------------------------------------------------------------------------
(* The agent's side and the connection.                                     *)

\* A step on the agent's side leaves the server's sessions alone.
LEMMA AgentOnly ==
  ASSUME IndInv, AgentType', UNCHANGED <<inHand, obj, chan, term, ws>>,
         reg' \in [Sid -> 0 .. Len(obj)]
  PROVE  IndInv'
<1>1. ObjType' /\ MapType' /\ WsType' /\ TermInv' /\ EntryOpen'
  BY DEF IndInv, ObjType, MapType, WsType, TermInv, EntryOpen, ObjId
<1>2. ShownInv' /\ RestType' /\ HandInv'
  BY DEF IndInv, ShownInv, Taken, RestType, HandInv, inHand, ObjId
<1>. QED  BY <1>1, <1>2 DEF IndInv

\* The agent takes a message off its queue and opens or closes a terminal.
LEMMA AgentTakes ==
  ASSUME IndInv, AgentOpen \/ AgentClose
  PROVE  IndInv'
<1>1. AgentType /\ MapType
  BY DEF IndInv
<1>2. PICK M : M = [type : {"open", "close"}, sid : Sid]
  OBVIOUS
<1>3. /\ toAgent \in Seq(M) /\ toAgent # <<>> /\ toAgent' = Tail(toAgent)
      /\ UNCHANGED <<inHand, obj, reg, chan, term, ws, sess, link, ended, toServer, nOut>>
  BY <1>1, <1>2 DEF AgentType, AgentOpen, AgentClose
<1>4. Head(toAgent) \in M /\ Tail(toAgent) \in Seq(M)
  BY <1>3
<1>5. Head(toAgent).sid \in Sid /\ link # 0
  BY <1>1, <1>2, <1>3, <1>4 DEF AgentType
<1>6. toAgent' \in Seq([type : {"open", "close"}, sid : Sid])
  BY <1>2, <1>3, <1>4
<1>7. /\ slots' \in [Slot -> [sid : Sid \cup {None}, running : BOOLEAN]]
      /\ \A i \in Slot : slots'[i].running => slots'[i].sid \in Sid
  <2>1. /\ slots \in [Slot -> [sid : Sid \cup {None}, running : BOOLEAN]]
        /\ \A i \in Slot : slots[i].running => slots[i].sid \in Sid
    BY <1>1 DEF AgentType
  <2>2. CASE slots' = slots
    BY <2>1, <2>2
  <2>3. ASSUME NEW i \in Slot, NEW r \in [sid : Sid \cup {None}, running : BOOLEAN],
               r.running => r.sid \in Sid, slots' = [slots EXCEPT ![i] = r]
        PROVE  /\ slots' \in [Slot -> [sid : Sid \cup {None}, running : BOOLEAN]]
               /\ \A j \in Slot : slots'[j].running => slots'[j].sid \in Sid
    <3>1. slots' \in [Slot -> [sid : Sid \cup {None}, running : BOOLEAN]]
      BY <2>1, <2>3
    <3>2. \A j \in Slot : slots'[j] = IF j = i THEN r ELSE slots[j]
      BY <2>1, <2>3
    <3>. QED  BY <2>1, <2>3, <3>1, <3>2
  <2>4. \/ slots' = slots
        \/ \E i \in Slot :
             \/ slots' = [slots EXCEPT ![i] = [sid |-> Head(toAgent).sid, running |-> TRUE]]
             \/ slots' = [slots EXCEPT ![i] = [sid |-> None, running |-> FALSE]]
    BY DEF AgentOpen, AgentClose
  <2>5. PICK r, q : /\ r = [sid |-> Head(toAgent).sid, running |-> TRUE]
                    /\ q = [sid |-> None, running |-> FALSE]
    OBVIOUS
  <2>6. /\ r \in [sid : Sid \cup {None}, running : BOOLEAN] /\ r.sid \in Sid
        /\ q \in [sid : Sid \cup {None}, running : BOOLEAN] /\ q.running = FALSE
    BY <1>5, <2>5
  <2>7. \/ slots' = slots
        \/ \E i \in Slot : slots' = [slots EXCEPT ![i] = r] \/ slots' = [slots EXCEPT ![i] = q]
    BY <2>4, <2>5
  <2>. QED  BY <2>2, <2>3, <2>6, <2>7
<1>8. AgentType'
  BY <1>1, <1>3, <1>5, <1>6, <1>7 DEF AgentType
<1>. QED  BY <1>1, <1>3, <1>8, AgentOnly DEF MapType

\* A shell writes or ends.
LEMMA ShellStep ==
  ASSUME IndInv, NEW i \in Slot, ShellOutput(i) \/ ShellExits(i)
  PROVE  IndInv'
<1>1. AgentType /\ MapType
  BY DEF IndInv
<1>2. PICK M : M = [sid : Sid, data : 0 .. MaxOut, closed : BOOLEAN]
  OBVIOUS
<1>3. /\ slots[i].running /\ slots[i].sid \in Sid /\ link # 0 /\ toServer \in Seq(M)
      /\ UNCHANGED <<inHand, obj, reg, chan, term, ws, sess, link, ended, toAgent>>
      /\ nOut \in 0 .. MaxOut /\ MaxOut \in Nat
      /\ slots \in [Slot -> [sid : Sid \cup {None}, running : BOOLEAN]]
  BY <1>1, <1>2, TermAssumption DEF AgentType, ShellOutput, ShellExits
<1>4. CASE ShellOutput(i)
  <2>1. PICK m : m = [sid |-> slots[i].sid, data |-> nOut + 1, closed |-> FALSE]
    OBVIOUS
  <2>2. nOut' = nOut + 1 /\ nOut + 1 \in 0 .. MaxOut /\ slots' = slots /\ toServer' = Append(toServer, m)
    BY <1>3, <1>4, <2>1 DEF ShellOutput
  <2>3. m \in M
    BY <1>2, <1>3, <2>1, <2>2
  <2>4. toServer' \in Seq(M)
    BY <1>3, <2>2, <2>3
  <2>5. AgentType'
    BY <1>1, <1>2, <1>3, <2>2, <2>4 DEF AgentType
  <2>. QED  BY <1>1, <1>3, <2>5, AgentOnly DEF MapType
<1>5. CASE ShellExits(i)
  <2>1. PICK m : m = [sid |-> slots[i].sid, data |-> 0, closed |-> TRUE]
    OBVIOUS
  <2>2. /\ nOut' = nOut /\ toServer' = Append(toServer, m)
        /\ slots' = [slots EXCEPT ![i].running = FALSE]
    BY <1>5, <2>1 DEF ShellExits
  <2>3. m \in M
    BY <1>2, <1>3, <2>1
  <2>4. toServer' \in Seq(M)
    BY <1>3, <2>2, <2>3
  <2>5. /\ slots' \in [Slot -> [sid : Sid \cup {None}, running : BOOLEAN]]
        /\ \A j \in Slot : slots'[j].running => slots[j].running /\ slots'[j].sid = slots[j].sid
    BY <1>3, <2>2
  <2>6. AgentType'
    BY <1>1, <1>2, <1>3, <2>2, <2>4, <2>5 DEF AgentType
  <2>. QED  BY <1>1, <1>3, <2>6, AgentOnly DEF MapType
<1>. QED  BY <1>4, <1>5

\* The link goes down, comes up, or the server's side of an old one ends.
LEMMA LinkStep ==
  ASSUME IndInv, LoseLink \/ Relink \/ \E c \in Conn : ConnEnds(c)
  PROVE  IndInv'
<1>1. AgentType /\ MapType /\ ObjType /\ Len(obj) \in Nat
  BY DEF IndInv, ObjType
<1>2. CASE LoseLink
  <2>1. UNCHANGED <<inHand, obj, reg, chan, term, ws>> /\ reg' \in [Sid -> 0 .. Len(obj)]
    BY <1>1, <1>2 DEF LoseLink, MapType
  <2>2. /\ toAgent' = <<>> /\ toServer' = <<>> /\ link' = 0
        /\ slots' = [i \in Slot |-> [sid |-> None, running |-> FALSE]]
        /\ UNCHANGED <<sess, ended, nOut>>
    BY <1>2 DEF LoseLink
  <2>3. /\ slots' \in [Slot -> [sid : Sid \cup {None}, running : BOOLEAN]]
        /\ \A i \in Slot : slots'[i].running = FALSE
    BY <2>2
  <2>4. 0 \in 0 .. MaxConn
    BY TermAssumption
  <2>5. AgentType'
    BY <1>1, <2>2, <2>3, <2>4 DEF AgentType
  <2>. QED  BY <2>1, <2>5, AgentOnly
<1>3. CASE Relink
  <2>1. UNCHANGED <<inHand, obj, reg, chan, term, ws>> /\ reg' \in [Sid -> 0 .. Len(obj)]
    BY <1>1, <1>3 DEF Relink, MapType
  <2>2. /\ link = 0 /\ Latest < MaxConn /\ link' = Latest + 1 /\ sess' = Latest + 1
        /\ UNCHANGED <<ended, toAgent, toServer, slots, nOut>>
    BY <1>3 DEF Relink, wires
  <2>3. Latest \in 0 .. MaxConn
    <3>1. PICK S : S = {link, sess} \cup ended
      OBVIOUS
    <3>2. S \subseteq 0 .. MaxConn /\ S # {} /\ MaxConn \in Nat
      BY <1>1, <3>1, TermAssumption DEF AgentType, Conn
    <3>3. Latest \in S
      <4>1. \E x \in S : \A y \in S : x >= y
        BY <3>2, LargestElement
      <4>. QED  BY <3>1, <4>1 DEF Latest, Max
    <3>. QED  BY <3>2, <3>3
  <2>4. Latest + 1 \in 0 .. MaxConn /\ Latest + 1 # 0
    BY <2>2, <2>3, TermAssumption
  <2>5. AgentType'
    BY <1>1, <2>2, <2>4 DEF AgentType
  <2>. QED  BY <2>1, <2>5, AgentOnly
<1>4. ASSUME NEW c \in Conn, ConnEnds(c) PROVE IndInv'
  <2>1. /\ UNCHANGED <<inHand, obj, chan, term, ws>> /\ reg' = [s \in Sid |-> 0]
        /\ ended' = ended \cup {c} /\ sess' = (IF sess = c THEN 0 ELSE sess)
        /\ UNCHANGED <<agentSide, wires>>
    BY <1>4 DEF ConnEnds
  <2>2. reg' \in [Sid -> 0 .. Len(obj)]
    BY <1>1, <2>1
  <2>3. AgentType'
    BY <1>1, <1>4, <2>1, TermAssumption DEF AgentType, agentSide, wires
  <2>. QED  BY <2>1, <2>2, <2>3, AgentOnly
<1>. QED  BY <1>2, <1>3, <1>4

-----------------------------------------------------------------------------
(* The theorems.                                                            *)

\* At the start there is a connection and nothing else.
LEMMA InitIndInv ==
  ASSUME Init
  PROVE  IndInv
<1>1. MaxSession \in Nat /\ MaxConn \in Nat /\ MaxConn # 0 /\ MaxOut \in Nat
  BY TermAssumption
<1>2. obj = <<>> /\ chan = <<>> /\ Len(obj) = 0 /\ Len(chan) = 0
  BY DEF Init
<1>3. ObjType
  BY <1>1, <1>2 DEF ObjType, ObjId
<1>4. MapType /\ TermInv /\ EntryOpen
  BY <1>2 DEF Init, MapType, TermInv, EntryOpen
<1>5. \A w \in Ws : ws[w] = NoWs
  BY DEF Init
<1>6. NoWs \in Handler /\ NoWs.pc = "idle" /\ NoWs.obj = 0
  BY NoWsType DEF NoWs
<1>7. ws \in [Ws -> Handler]
  BY <1>6 DEF Init
<1>8. WsType /\ ShownInv
  BY <1>2, <1>5, <1>6, <1>7 DEF WsType, ShownInv
<1>9. /\ slots \in [Slot -> [sid : Sid \cup {None}, running : BOOLEAN]]
      /\ \A i \in Slot : slots[i].running = FALSE
  BY DEF Init
<1>10. AgentType
  BY <1>1, <1>9 DEF Init, AgentType
<1>11. RestType /\ HandInv
  <2>1. NoRest \in Request /\ NoRest.obj = 0 /\ NoRest.pc = "idle" /\ Empty \in Lookups
    BY <1>1 DEF NoRest, Request, Empty, Lookups
  <2>. QED  BY <1>2, <2>1 DEF Init, RestType, HandInv
<1>. QED  BY <1>3, <1>4, <1>8, <1>10, <1>11 DEF IndInv

\* Every step keeps the inductive invariant.
LEMMA NextIndInv ==
  ASSUME IndInv, Next
  PROVE  IndInv'
<1>1. ASSUME NEW w \in Ws, WsStep(w) PROVE IndInv'
  BY <1>1, LookupStep, CreateStep, AttachStep, ReplayStep, LeaveStep, DetachStep, CloseStep
     DEF WsStep
<1>2. ASSUME NEW w \in Ws, Browser(w) PROVE IndInv'
  BY <1>2, BrowseStep, LeaveStep, CloseStep, AskSuspendStep DEF Browser
<1>3. ASSUME NEW o \in ObjId, PumpStep(o) PROVE IndInv'
  BY <1>3, PumpStepGood, PumpEndsStep, PumpClosesStep DEF PumpStep
<1>4. ASSUME NEW h \in Closer, RestStep(h) PROVE IndInv'
  BY <1>4, TakeWsStep, CloseTakenStep, CloseSessionStep DEF RestStep
<1>. QED  BY <1>1, <1>2, <1>3, <1>4, HandleTerminalStep, DeliverStep, PutStep, AgentTakes,
             ShellStep, LinkStep
          DEF Next

\* The inductive invariant holds in every state of the terminals.
THEOREM Invariance == Spec => []IndInv
<1>1. Init => IndInv
  BY InitIndInv
<1>2. IndInv /\ [Next]_vars => IndInv'
  <2>1. IndInv /\ Next => IndInv'
    BY NextIndInv
  <2>2. IndInv /\ UNCHANGED vars => IndInv'
    BY DEF IndInv, vars, ObjType, MapType, WsType, AgentType, RestType, TermInv, ShownInv, Taken,
           EntryOpen, HandInv, ObjId
  <2>. QED  BY <2>1, <2>2
<1>. QED  BY <1>1, <1>2, PTL DEF Spec

\* Type correctness: an output channel and the buffer that is replayed stay within
\* their bounds, and a goroutine has a session object whenever it uses one.
THEOREM TypeCorrect == Spec => []TypeOK
<1>1. IndInv => TypeOK
  <2>1. IndInv => \A c \in Conn : hand[c].obj <= Len(obj)
    <3>1. SUFFICES ASSUME IndInv, NEW c \in Conn PROVE hand[c].obj <= Len(obj)
      OBVIOUS
    <3>2. Len(obj) \in Nat /\ HandInv
      BY <3>1 DEF IndInv, ObjType
    <3>3. CASE hand[c] = Empty
      BY <3>2, <3>3 DEF Empty
    <3>4. CASE hand[c] # Empty
      BY <3>2, <3>4 DEF HandInv, ObjId
    <3>. QED  BY <3>3, <3>4
  <2>. QED  BY <2>1 DEF IndInv, TypeOK, ObjType, MapType, WsType, AgentType, RestType, HandInv
<1>. QED  BY <1>1, Invariance, PTL

\* deliverTermOutput never sends on a closed channel, which would end the server:
\* for any number of sessions, browsers and connections of the agent.
THEOREM ChannelSafety == Spec => []NoSendOnClosed
<1>1. IndInv => NoSendOnClosed
  BY DEF IndInv, HandInv, NoSendOnClosed
<1>. QED  BY <1>1, Invariance, PTL

\* A session shows in one browser at a time, whatever the pump and the readers do,
\* and shows in a second one only until the REST handler that took it closes it.
THEOREM BrowserSafety == Spec => []OneBrowser
<1>1. IndInv => OneBrowser
  <2>1. SUFFICES ASSUME IndInv, NEW v \in Ws, NEW w \in Ws, NEW o \in ObjId,
                        v # w, ws[v].open, ws[w].open, Attached(v, o), Attached(w, o)
                 PROVE  \E h \in Closer : rest[h].pc = "close" /\ rest[h].ws \in {v, w}
    BY DEF OneBrowser
  <2>2. (Taken(v) \/ obj[o].ws = v) /\ (Taken(w) \/ obj[o].ws = w)
    BY <2>1 DEF IndInv, ShownInv, Attached
  <2>3. Taken(v) \/ Taken(w)
    BY <2>1, <2>2
  <2>. QED  BY <2>3 DEF Taken
<1>. QED  BY <1>1, Invariance, PTL

=============================================================================
