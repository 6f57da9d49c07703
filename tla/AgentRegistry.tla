---------------------------- MODULE AgentRegistry ----------------------------
(***************************************************************************)
(* How an agent becomes known, approved, connected, offline and removed:   *)
(* agentconn.go (one goroutine per TCP connection), the store it shares    *)
(* with the admin HTTP handlers, the LAN discovery loop and the goroutines *)
(* that remove an agent after an uninstall.                                *)
(*                                                                         *)
(* One step is one critical section (agentsMu, tombMu, reqMu, s.mu): the   *)
(* interleavings are those of the locks.  A handler goroutine is a program *)
(* counter per connection slot; a slot is reused when its goroutine ends.  *)
(* Hellos the code refuses without touching shared state (bad token, bad   *)
(* payload, no agent id, register of an agent that is not approved, an     *)
(* uninstall request that was rejected) are stuttering steps.              *)
(***************************************************************************)
EXTENDS Store

CONSTANTS Agent,      \* agent ids
          Conn,       \* connection slots of the agent listener
          Remover,    \* RemoveAgent calls that can be in flight
          None        \* no connection, no agent

ASSUME NoneAssumption == None \notin Conn /\ None \notin Agent

VARIABLES
  agents,      \* store.agents
  tombstones,  \* store.tombstones
  sessions,    \* agentconn.Server.sessions
  serverID,    \* agentconn.Server.serverID, empty until main calls SetIdentity
  pc, who,     \* handler goroutine of a connection: where it is, its agent
  seen,        \* approval a handshake handler has read
  open,        \* the connection can still deliver a message
  rpc, rwho,   \* RemoveAgent calls: where they are, their agent
  disc,        \* agent a Discover call has found not tombstoned
  unreq,       \* store.uninstallReq: none, waiting, approved, rejected
  everApproved,\* history: agents an administrator approved
  uninstallOK, \* history: agents whose uninstall an administrator ordered
  byeCounted   \* history: the connection's goodbye was counted as an offline event

connVars == <<pc, who, seen, open, byeCounted>>
vars == <<agents, tombstones, sessions, serverID, pc, who, seen, open, rpc,
          rwho, disc, unreq, everApproved, uninstallOK, byeCounted>>

RegisterPC == {"r_tomb", "r_store", "r_install"}
ServingPC  == {"serving", "dispatch_hb", "dispatch_bye"}
CleanupPC  == {"c_session", "c_online", "c_offline"}
ShakePC    == {"h_get", "h_tomb", "h_store", "h_pending"}
PC == {"idle", "u_add"} \cup RegisterPC \cup ServingPC \cup CleanupPC \cup ShakePC
RemovePC == {"idle", "due_delete", "due_uninstall", "tomb"}
Decisions == {"none", "waiting", "approved", "rejected"}

TypeOK ==
  /\ agents \in [Agent -> AgentRecord]
  /\ tombstones \subseteq Agent
  /\ sessions \in [Agent -> Conn \cup {None}]
  /\ serverID \in {MyID, NoServer}
  /\ pc \in [Conn -> PC]
  /\ who \in [Conn -> Agent \cup {None}]
  /\ seen \in [Conn -> Approvals]
  /\ open \in [Conn -> BOOLEAN]
  /\ rpc \in [Remover -> RemovePC]
  /\ rwho \in [Remover -> Agent \cup {None}]
  /\ disc \in Agent \cup {None}
  /\ unreq \in [Agent -> Decisions]
  /\ everApproved \subseteq Agent
  /\ uninstallOK \subseteq Agent
  /\ byeCounted \in [Conn -> BOOLEAN]

-----------------------------------------------------------------------------
(* Start-up: what Persister.Load, LoadUninstall and loadTombstones leave in *)
(* the store.  A binding to another id comes from a data directory whose    *)
(* server_id file was replaced.                                             *)

LoadedRecord ==
  {NoAgent} \cup
  {r \in AgentRecord : /\ Known(r) /\ ~r.online /\ ~r.discovered
                       /\ r.approval # "unset"
                       /\ r.approval = "approved" => r.bound # NoServer}

Init ==
  /\ tombstones \in SUBSET Agent
  /\ agents \in {f \in [Agent -> LoadedRecord] :
                   \A a \in tombstones : f[a] = NoAgent}
  /\ sessions = [a \in Agent |-> None]
  /\ serverID = NoServer
  /\ pc = [c \in Conn |-> "idle"]
  /\ who = [c \in Conn |-> None]
  /\ seen = [c \in Conn |-> "unset"]
  /\ open = [c \in Conn |-> FALSE]
  /\ rpc = [r \in Remover |-> "idle"]
  /\ rwho = [r \in Remover |-> None]
  /\ disc = None
  /\ unreq \in [Agent -> Decisions]
  /\ everApproved = {a \in Agent : agents[a].approval = "approved"}
  /\ uninstallOK = {a \in Agent : unreq[a] = "approved"}
  /\ byeCounted = [c \in Conn |-> FALSE]

\* main.go: the agent listener is accepting before SetIdentity runs; the HTTP
\* API and the discovery loop start only after it.
SetIdentity ==
  /\ serverID = NoServer
  /\ serverID' = MyID
  /\ UNCHANGED <<agents, tombstones, sessions, connVars, rpc, rwho, disc,
                 unreq, everApproved, uninstallOK>>

Started == serverID = MyID

-----------------------------------------------------------------------------
(* The handler goroutine of a connection.  Goto moves it within one handler *)
(* and End finishes it, freeing the slot.                                   *)

Goto(c, p) == pc' = [pc EXCEPT ![c] = p]

End(c) ==
  /\ pc' = [pc EXCEPT ![c] = "idle"]
  /\ who' = [who EXCEPT ![c] = None]
  /\ seen' = [seen EXCEPT ![c] = "unset"]
  /\ open' = [open EXCEPT ![c] = FALSE]
  /\ byeCounted' = [byeCounted EXCEPT ![c] = FALSE]

\* A new connection whose first message is for agent a and whose handler
\* continues at p having read approval s.
Begin(c, a, p, s) ==
  /\ pc[c] = "idle"
  /\ Goto(c, p)
  /\ who' = [who EXCEPT ![c] = a]
  /\ seen' = [seen EXCEPT ![c] = s]
  /\ open' = [open EXCEPT ![c] = TRUE]
  /\ UNCHANGED byeCounted

storeVars == <<agents, tombstones, unreq, everApproved, uninstallOK>>
removeVars == <<rpc, rwho>>

(* ---- Handle: a register message ---- *)

\* Mutant: a register message is accepted whatever ApprovalOf answers.
RegisterHelloUnchecked(c, a) ==
  /\ Begin(c, a, "r_tomb", "approved")
  /\ UNCHANGED <<storeVars, sessions, serverID, removeVars, disc>>

\* ApprovalOf is read; anything but "approved" is refused.
RegisterHello(c, a) ==
  /\ ApprovalOf(agents[a]) = "approved"
  /\ Begin(c, a, "r_tomb", "approved")
  /\ UNCHANGED <<storeVars, sessions, serverID, removeVars, disc>>

\* store.Register checks the tombstones under their own lock.  A tombstoned
\* agent is not stored, but its handler goes on and is given a session.
RegisterTomb(c) ==
  /\ pc[c] = "r_tomb"
  /\ Goto(c, IF who[c] \in tombstones THEN "r_install" ELSE "r_store")
  /\ UNCHANGED <<storeVars, sessions, serverID, who, seen, open, byeCounted,
                 removeVars, disc>>

RegisterStore(c) ==
  /\ pc[c] = "r_store"
  /\ agents' = [agents EXCEPT ![who[c]] = RegisterRec(@, "unset", NoServer)]
  /\ Goto(c, "r_install")
  /\ UNCHANGED <<tombstones, unreq, everApproved, uninstallOK, sessions,
                 serverID, who, seen, open, byeCounted, removeVars, disc>>

\* The new connection takes the session and closes the one it replaces.
Install(c) ==
  /\ pc[c] = "r_install"
  /\ sessions' = [sessions EXCEPT ![who[c]] = c]
  /\ open' = [d \in Conn |-> IF d = sessions[who[c]] THEN FALSE ELSE open[d]]
  /\ Goto(c, "serving")
  /\ UNCHANGED <<storeVars, serverID, who, seen, byeCounted, removeVars, disc>>

\* The read loop decodes one message; a goodbye is the agent's last one.
Receive(c) ==
  /\ pc[c] = "serving" /\ open[c]
  /\ \/ Goto(c, "dispatch_hb") /\ UNCHANGED open
     \/ Goto(c, "dispatch_bye") /\ open' = [open EXCEPT ![c] = FALSE]
  /\ UNCHANGED <<storeVars, sessions, serverID, who, seen, byeCounted,
                 removeVars, disc>>

\* dispatch: heartbeat and metrics mark the agent online.
DispatchHeartbeat(c) ==
  /\ pc[c] = "dispatch_hb"
  /\ agents' = [agents EXCEPT ![who[c]] = SetOnlineRec(@, TRUE)]
  /\ Goto(c, "serving")
  /\ UNCHANGED <<tombstones, unreq, everApproved, uninstallOK, sessions,
                 serverID, who, seen, open, byeCounted, removeVars, disc>>

\* dispatch: a goodbye records an offline event.
DispatchOffline(c) ==
  /\ pc[c] = "dispatch_bye"
  /\ agents' = [agents EXCEPT ![who[c]] = AddOfflineRec(@)]
  /\ byeCounted' = [byeCounted EXCEPT ![c] = Known(agents[who[c]])]
  /\ Goto(c, "serving")
  /\ UNCHANGED <<tombstones, unreq, everApproved, uninstallOK, sessions,
                 serverID, who, seen, open, removeVars, disc>>

\* The peer is gone, or sends nothing for 90 seconds.
PeerDrop(c) ==
  /\ pc[c] \in RegisterPC \cup {"serving", "dispatch_hb"} /\ open[c]
  /\ open' = [open EXCEPT ![c] = FALSE]
  /\ UNCHANGED <<storeVars, sessions, serverID, pc, who, seen, byeCounted,
                 removeVars, disc>>

\* Decode fails on a connection that cannot deliver any more: the deferred
\* cleanup runs.
ReadFails(c) ==
  /\ pc[c] = "serving" /\ ~open[c]
  /\ Goto(c, "c_session")
  /\ UNCHANGED <<storeVars, sessions, serverID, who, seen, open, byeCounted,
                 removeVars, disc>>

\* Mutant: the cleanup deletes the agent's session whoever holds it.
CleanupAnySession(c) ==
  /\ pc[c] = "c_session"
  /\ sessions' = [sessions EXCEPT ![who[c]] = None]
  /\ Goto(c, "c_online")
  /\ UNCHANGED <<storeVars, serverID, who, seen, open, byeCounted, removeVars, disc>>

\* Mutant: the cleanup forgets the session.
CleanupNoSession(c) ==
  /\ pc[c] = "c_session"
  /\ Goto(c, "c_online")
  /\ UNCHANGED <<storeVars, sessions, serverID, who, seen, open, byeCounted,
                 removeVars, disc>>

\* The session is deleted only if this connection still holds it.
CleanupSession(c) ==
  /\ pc[c] = "c_session"
  /\ sessions' = [sessions EXCEPT ![who[c]] = IF @ = c THEN None ELSE @]
  /\ Goto(c, "c_online")
  /\ UNCHANGED <<storeVars, serverID, who, seen, open, byeCounted, removeVars, disc>>

CleanupOnline(c) ==
  /\ pc[c] = "c_online"
  /\ agents' = [agents EXCEPT ![who[c]] = SetOnlineRec(@, FALSE)]
  /\ Goto(c, "c_offline")
  /\ UNCHANGED <<tombstones, unreq, everApproved, uninstallOK, sessions,
                 serverID, who, seen, open, byeCounted, removeVars, disc>>

\* OnOffline (main.go): one more offline event; its port forwards and terminal
\* sessions are outside this module.
CleanupOffline(c) ==
  /\ pc[c] = "c_offline"
  /\ agents' = [agents EXCEPT ![who[c]] = AddOfflineRec(@)]
  /\ End(c)
  /\ UNCHANGED <<tombstones, unreq, everApproved, uninstallOK, sessions,
                 serverID, removeVars, disc>>

(* ---- handleHandshake ---- *)

\* ApprovalOf is read first ...
HandshakeHello(c, a) ==
  /\ Begin(c, a, "h_get", ApprovalOf(agents[a]))
  /\ UNCHANGED <<storeVars, sessions, serverID, removeVars, disc>>

\* ... GetAgent second: an agent bound to another server is refused.
HandshakeGet(c) ==
  LET existing == agents[who[c]] IN
  /\ pc[c] = "h_get"
  /\ IF Known(existing) /\ existing.bound \notin {NoServer, serverID}
       THEN End(c)
       ELSE Goto(c, "h_tomb") /\ UNCHANGED <<who, seen, open, byeCounted>>
  /\ UNCHANGED <<storeVars, sessions, serverID, removeVars, disc>>

\* Where the handler goes after Register: an agent that is neither approved nor
\* rejected gets its SetApproval("pending").
AfterHandshakeRegister(c) ==
  IF seen[c] \in {"approved", "rejected"}
    THEN End(c)
    ELSE Goto(c, "h_pending") /\ UNCHANGED <<who, seen, open, byeCounted>>

HandshakeTomb(c) ==
  /\ pc[c] = "h_tomb"
  /\ IF who[c] \in tombstones
       THEN AfterHandshakeRegister(c)
       ELSE Goto(c, "h_store") /\ UNCHANGED <<who, seen, open, byeCounted>>
  /\ UNCHANGED <<storeVars, sessions, serverID, removeVars, disc>>

\* Register with the approval read before; only an approved agent brings a
\* binding.
HandshakeStore(c) ==
  /\ pc[c] = "h_store"
  /\ agents' = [agents EXCEPT ![who[c]] =
                  RegisterRec(@, IF seen[c] = "unset" THEN "pending" ELSE seen[c],
                              IF seen[c] = "approved" THEN serverID ELSE NoServer)]
  /\ AfterHandshakeRegister(c)
  /\ UNCHANGED <<tombstones, unreq, everApproved, uninstallOK, sessions,
                 serverID, removeVars, disc>>

HandshakePending(c) ==
  /\ pc[c] = "h_pending"
  /\ agents' = [agents EXCEPT ![who[c]] = SetApprovalRec(@, "pending", NoServer)]
  /\ End(c)
  /\ UNCHANGED <<tombstones, unreq, everApproved, uninstallOK, sessions,
                 serverID, removeVars, disc>>

(* ---- handleUninstallReq ---- *)

\* A RemoveAgent call for agent a is scheduled (a goroutine that sleeps first,
\* or the rest of the DELETE handler).
Schedule(a, p) ==
  \E r \in Remover :
    /\ rpc[r] = "idle"
    /\ rpc' = [rpc EXCEPT ![r] = p]
    /\ rwho' = [rwho EXCEPT ![r] = a]

\* Mutant: the agent is removed before anyone has decided.
UninstallHelloUndecided(c, a) ==
  /\ \/ /\ unreq[a] = "none"
        /\ Begin(c, a, "u_add", "unset")
        /\ UNCHANGED removeVars
     \/ /\ unreq[a] \in {"waiting", "approved"}
        /\ pc[c] = "idle"
        /\ Schedule(a, "due_uninstall")
        /\ UNCHANGED connVars
  /\ UNCHANGED <<storeVars, sessions, serverID, disc>>

\* GetUninstallRequest: an undecided request is stored (again), an approved one
\* is answered and the agent's record removed two seconds later.
UninstallHello(c, a) ==
  /\ \/ /\ unreq[a] \in {"none", "waiting"}
        /\ Begin(c, a, "u_add", "unset")
        /\ UNCHANGED removeVars
     \/ /\ unreq[a] = "approved"
        /\ pc[c] = "idle"
        /\ Schedule(a, "due_uninstall")
        /\ UNCHANGED connVars
  /\ UNCHANGED <<storeVars, sessions, serverID, disc>>

\* AddUninstallRequest overwrites whatever is there.
UninstallAdd(c) ==
  /\ pc[c] = "u_add"
  /\ unreq' = [unreq EXCEPT ![who[c]] = "waiting"]
  /\ End(c)
  /\ UNCHANGED <<agents, tombstones, everApproved, uninstallOK, sessions,
                 serverID, removeVars, disc>>

-----------------------------------------------------------------------------
(* The administrator's HTTP handlers (served only after start-up).          *)

\* handleApprovalAction: GetAgent finds the record and SetApproval writes it.
\* Atomic here: if the record goes in between, SetApproval does nothing.
Approve(a) ==
  /\ Started /\ Known(agents[a])
  /\ agents' = [agents EXCEPT ![a] = SetApprovalRec(@, "approved", MyID)]
  /\ everApproved' = everApproved \cup {a}
  /\ UNCHANGED <<tombstones, unreq, uninstallOK, sessions, serverID, connVars,
                 removeVars, disc>>

Reject(a) ==
  /\ Started /\ Known(agents[a])
  /\ agents' = [agents EXCEPT ![a] = SetApprovalRec(@, "rejected", NoServer)]
  /\ UNCHANGED <<tombstones, unreq, everApproved, uninstallOK, sessions,
                 serverID, connVars, removeVars, disc>>

\* DELETE /api/agents/{id}: allowed for a record that GetAgent shows offline.
DeleteAgent(a) ==
  /\ Started /\ Known(agents[a]) /\ ~agents[a].online
  /\ Schedule(a, "due_delete")
  /\ UNCHANGED <<storeVars, sessions, serverID, connVars, disc>>

\* DecideUninstall changes an existing request only.
Decide(a, decision) ==
  unreq' = [unreq EXCEPT ![a] = IF @ = "none" THEN @ ELSE decision]

\* handleUninstallDecide.
DecideUninstall(a, decision) ==
  /\ Started /\ unreq[a] # "none"
  /\ Decide(a, decision)
  /\ uninstallOK' = IF decision = "approved" THEN uninstallOK \cup {a}
                                             ELSE uninstallOK
  /\ UNCHANGED <<agents, tombstones, everApproved, sessions, serverID,
                 connVars, removeVars, disc>>

\* handleRemoteUninstall: for an agent that has a session.
RemoteUninstall(a) ==
  /\ Started /\ sessions[a] # None
  /\ Decide(a, "approved")
  /\ Schedule(a, "due_uninstall")
  /\ uninstallOK' = uninstallOK \cup {a}
  /\ UNCHANGED <<agents, tombstones, everApproved, sessions, serverID,
                 connVars, disc>>

(* RemoveAgent: the record goes first, the tombstone is set second.  The    *)
(* sleep of two seconds before a removal outlasts start-up, which only      *)
(* opens a UDP socket between Listen and SetIdentity.                       *)

RemoveRecord(r) ==
  /\ Started /\ rpc[r] \in {"due_delete", "due_uninstall"}
  /\ agents' = [agents EXCEPT ![rwho[r]] = NoAgent]
  /\ rpc' = [rpc EXCEPT ![r] = "tomb"]
  /\ UNCHANGED <<tombstones, unreq, everApproved, uninstallOK, sessions,
                 serverID, connVars, rwho, disc>>

AddTombstone(r) ==
  /\ rpc[r] = "tomb"
  /\ tombstones' = tombstones \cup {rwho[r]}
  /\ rpc' = [rpc EXCEPT ![r] = "idle"]
  /\ rwho' = [rwho EXCEPT ![r] = None]
  /\ UNCHANGED <<agents, unreq, everApproved, uninstallOK, sessions, serverID,
                 connVars, disc>>

-----------------------------------------------------------------------------
(* LAN discovery: one loop receives the broadcasts, a ticker prunes.        *)

DiscoverTomb(a) ==
  /\ Started /\ disc = None /\ a \notin tombstones
  /\ disc' = a
  /\ UNCHANGED <<storeVars, sessions, serverID, connVars, removeVars>>

DiscoverStore ==
  /\ disc # None
  /\ agents' = [agents EXCEPT ![disc] = DiscoverRec(@)]
  /\ disc' = None
  /\ UNCHANGED <<tombstones, unreq, everApproved, uninstallOK, sessions,
                 serverID, connVars, removeVars>>

\* PruneDiscovered drops every discovered record not seen for three minutes;
\* time is not modelled, so any nonempty set of discovered records may be stale.
PruneDiscovered ==
  \E stale \in SUBSET {a \in Agent : Known(agents[a]) /\ agents[a].discovered} :
    /\ Started /\ stale # {}
    /\ agents' = [a \in Agent |-> IF a \in stale THEN NoAgent ELSE agents[a]]
    /\ UNCHANGED <<tombstones, unreq, everApproved, uninstallOK, sessions,
                   serverID, connVars, removeVars, disc>>

-----------------------------------------------------------------------------
\* The steps a handler goroutine takes without waiting for its peer.
HandlerStep(c) ==
  \/ RegisterTomb(c) \/ RegisterStore(c) \/ Install(c)
  \/ DispatchHeartbeat(c) \/ DispatchOffline(c) \/ ReadFails(c)
  \/ CleanupSession(c) \/ CleanupOnline(c) \/ CleanupOffline(c)
  \/ HandshakeGet(c) \/ HandshakeTomb(c) \/ HandshakeStore(c)
  \/ HandshakePending(c) \/ UninstallAdd(c)

PeerStep(c) ==
  \/ \E a \in Agent : RegisterHello(c, a) \/ HandshakeHello(c, a)
                        \/ UninstallHello(c, a)
  \/ Receive(c) \/ PeerDrop(c)

AdminStep ==
  \E a \in Agent :
    \/ Approve(a) \/ Reject(a) \/ DeleteAgent(a) \/ RemoteUninstall(a)
    \/ \E decision \in {"approved", "rejected"} : DecideUninstall(a, decision)

RemoveStep(r) == RemoveRecord(r) \/ AddTombstone(r)

DiscoveryStep ==
  (\E a \in Agent : DiscoverTomb(a)) \/ DiscoverStore \/ PruneDiscovered

Next ==
  \/ SetIdentity
  \/ \E c \in Conn : HandlerStep(c) \/ PeerStep(c)
  \/ AdminStep
  \/ \E r \in Remover : RemoveStep(r)
  \/ DiscoveryStep

Spec == Init /\ [][Next]_vars

-----------------------------------------------------------------------------
(* Safety.                                                                  *)

\* A handler goroutine works for an agent exactly while it runs.
Running(c) == pc[c] # "idle"

\* The connection whose read loop is running and can still deliver messages is
\* the one requests are sent to: no cleanup of an older connection and no other
\* registration takes its place in the session map while it stays open
\* (agentconn.go Handle: "防止旧连接覆盖新连接").
SessionIsNewest ==
  \A c \in Conn : pc[c] \in ServingPC /\ open[c] => sessions[who[c]] = c

\* The session map never keeps a connection whose handler has ended or works for
\* another agent: a request is never sent on a recycled connection.
SessionAlive ==
  \A a \in Agent : sessions[a] # None =>
    /\ pc[sessions[a]] \in ServingPC \cup {"c_session"}
    /\ who[sessions[a]] = a

\* An agent is approved, holds a session or is told "approved" by a handshake
\* only if an administrator approved it at some time ("等待管理员批准"); every
\* value read before a lock was dropped is covered.
OnlyAdminApproves ==
  /\ \A a \in Agent : agents[a].approval = "approved" \/ sessions[a] # None
                        => a \in everApproved
  /\ \A c \in Conn : seen[c] = "approved" => who[c] \in everApproved

\* An approved record is bound to a server ("一旦批准即绑定 server_id"), even
\* when it is written by a handshake that outlived the record it read, or one
\* served before the server knew its own id.
ApprovedIsBound ==
  \A a \in Agent : agents[a].approval = "approved" => agents[a].bound # NoServer

\* A record is taken away as uninstalled only with an administrator's consent
\* ("仅当管理员已在控制台批准时返回 approved=true").
UninstallNeedsConsent ==
  \A r \in Remover : rpc[r] = "due_uninstall" => rwho[r] \in uninstallOK

-----------------------------------------------------------------------------
(* What the comments of the code promise and the code does not keep.        *)

\* A deleted agent does not come back ("加入黑名单：该主机重新连接/被发现时拒绝
\* 注册，防止删除后重出现"): RemoveAgent deletes the record before it adds the
\* tombstone, and Register checks the tombstone before it takes the lock.
DeletedStaysDeleted ==
  \A a \in tombstones : ~Known(agents[a])

\* A handshake of an agent waiting for approval leaves it offline (the handler
\* says "不采集任何数据" and sets a.Online = false): an agent with no connection at
\* all is not online for ever.
PendingIsOffline ==
  \A a \in Agent : agents[a].approval = "pending" /\ agents[a].online
    => \E c \in Conn : who[c] = a /\ Running(c)

\* The cleanup of an old connection does not touch the record of the new one
\* ("避免旧连接的清理逻辑误删新记录").
OldSparesNew ==
  [][\A c \in Conn, a \in Agent :
       /\ pc[c] = "c_online" /\ pc'[c] = "c_offline" /\ who[c] = a
       /\ sessions[a] \notin {None, c}
       => agents'[a].online = agents[a].online]_vars

\* A handshake registers as pending an UNKNOWN agent ("未知 agent → 注册为 pending"):
\* it does not take back an approval an administrator gave meanwhile.
HandshakeKeepsApproval ==
  [][\A c \in Conn : pc[c] = "h_pending" /\ pc'[c] = "idle"
       => agents[who[c]].approval # "approved"]_vars

\* The offline count is the number of times the agent went offline
\* ("查询某 agent 的离线次数"): one connection adds one.
OfflineCountedOnce ==
  [][\A c \in Conn : /\ pc[c] = "c_offline" /\ pc'[c] = "idle"
                     /\ Known(agents[who[c]])
       => ~byeCounted[c]]_vars

\* The DELETE handler removes offline agents only ("仅允许删除离线主机").
DeletesOfflineOnly ==
  [][\A r \in Remover : rpc[r] = "due_delete" /\ rpc'[r] = "tomb"
       => ~agents[rwho[r]].online]_vars

\* A request is stored as waiting only while it is undecided ("首次请求或尚未审批：
\* 落库为待审批"): an administrator's decision is not overwritten.
DecisionKept ==
  [][\A a \in Agent : unreq[a] \in {"approved", "rejected"}
       => unreq'[a] # "waiting"]_vars
=============================================================================
