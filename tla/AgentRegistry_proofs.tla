------------------------- MODULE AgentRegistry_proofs -------------------------
(***************************************************************************)
(* Proofs, for every set of agents, connections and removers, of the       *)
(* safety invariants of AgentRegistry.  None of them is inductive alone;   *)
(* the inductive invariant IndInv adds what a handler goroutine knows      *)
(* between two of its critical sections.                                   *)
(***************************************************************************)
EXTENDS AgentRegistry, TLAPS

\* A goroutine that runs works for an agent; a slot that is free remembers
\* nothing.
WellFormed ==
  /\ \A c \in Conn : pc[c] # "idle" => who[c] \in Agent
  /\ \A c \in Conn : pc[c] = "idle" => seen[c] = "unset"
  /\ \A r \in Remover : rpc[r] # "idle" => rwho[r] \in Agent

\* What the handlers have read: a register handler has read "approved" and
\* carries it to its cleanup; only an undecided handshake writes "pending".
HandlerRead ==
  \A c \in Conn :
    /\ pc[c] \in RegisterPC \cup ServingPC \cup CleanupPC => seen[c] = "approved"
    /\ pc[c] = "h_pending" => seen[c] \notin {"approved", "rejected"}

\* Until the server knows its id nobody removes, prunes or approves, so what a
\* handshake has read is still so; hence a handshake that is past its binding
\* check with "approved" runs on a server that knows its id.
StartUp ==
  /\ serverID = NoServer =>
       /\ disc = None
       /\ \A c \in Conn : pc[c] \in ShakePC =>
            (seen[c] = "approved" <=> agents[who[c]].approval = "approved")
  /\ \A c \in Conn : pc[c] \in {"h_tomb", "h_store"} /\ seen[c] = "approved"
                       => serverID = MyID

\* An approved uninstall request was approved by an administrator.
RequestConsent == \A a \in Agent : unreq[a] = "approved" => a \in uninstallOK

IndInv ==
  /\ TypeOK /\ WellFormed /\ HandlerRead
  /\ SessionIsNewest /\ SessionAlive
  /\ OnlyAdminApproves
  /\ StartUp /\ ApprovedIsBound
  /\ RequestConsent /\ UninstallNeedsConsent

-----------------------------------------------------------------------------
(* The record operations of the store keep the record type.                 *)

\* Register always yields a complete record.
LEMMA RegisterRecType ==
  ASSUME NEW old \in AgentRecord, NEW ap \in Approvals,
         NEW b \in Server \cup {NoServer}
  PROVE  RegisterRec(old, ap, b) \in AgentRecord
  BY DEF RegisterRec, AgentRecord, Known

\* Discover yields a complete record, whether the host was known or not.
LEMMA DiscoverRecType ==
  ASSUME NEW old \in AgentRecord
  PROVE  DiscoverRec(old) \in AgentRecord
  BY DEF DiscoverRec, AgentRecord, NoAgent, Approvals, Known

\* SetOnline and AddOfflineEvent write one flag.
LEMMA SetOnlineRecType ==
  ASSUME NEW old \in AgentRecord, NEW b \in BOOLEAN
  PROVE  SetOnlineRec(old, b) \in AgentRecord
  BY DEF SetOnlineRec, AgentRecord, Known

\* SetApproval writes the approval and, when it approves, the binding.
LEMMA SetApprovalRecType ==
  ASSUME NEW old \in AgentRecord, NEW ap \in Approvals,
         NEW b \in Server \cup {NoServer}
  PROVE  SetApprovalRec(old, ap, b) \in AgentRecord
  BY DEF SetApprovalRec, AgentRecord, Known

\* The record that stands for no entry in the map is a record.
LEMMA NoAgentType == NoAgent \in AgentRecord
  BY DEF NoAgent, AgentRecord, Approvals

\* Scheduling a removal keeps the types of the removers.
LEMMA ScheduleType ==
  ASSUME TypeOK, NEW a \in Agent, NEW p \in RemovePC, Schedule(a, p)
  PROVE  /\ rpc' \in [Remover -> RemovePC]
         /\ rwho' \in [Remover -> Agent \cup {None}]
  BY DEF TypeOK, Schedule

\* HandshakeGet either refuses the agent or goes on, and changes nothing shared.
LEMMA HandshakeGetCases ==
  ASSUME NEW c \in Conn, HandshakeGet(c)
  PROVE  \/ End(c)
         \/ Goto(c, "h_tomb") /\ UNCHANGED <<who, seen, open, byeCounted>>
  BY DEF HandshakeGet

\* Pruning forgets some records and leaves everything else alone.
LEMMA PruneEffect ==
  ASSUME PruneDiscovered
  PROVE  /\ Started
         /\ \E stale \in SUBSET Agent :
              agents' = [a \in Agent |-> IF a \in stale THEN NoAgent ELSE agents[a]]
         /\ UNCHANGED <<tombstones, unreq, everApproved, uninstallOK, sessions,
                        serverID, connVars, removeVars, disc>>
  BY DEF PruneDiscovered

\* Discover approves nobody, takes back no approval and keeps every binding.
LEMMA DiscoverRecFields ==
  ASSUME NEW old \in AgentRecord
  PROVE  /\ DiscoverRec(old).approval = "approved" <=> old.approval = "approved"
         /\ old.approval = "approved" => DiscoverRec(old).bound = old.bound
  BY DEF DiscoverRec, AgentRecord, NoAgent, Approvals, Known

\* What ApprovalOf answers is an approval, never "absent".
LEMMA ApprovalOfType ==
  ASSUME NEW r \in AgentRecord
  PROVE  ApprovalOf(r) \in Approvals
  BY DEF ApprovalOf, AgentRecord, Approvals, Known

\* Every step keeps the types, given that a running goroutine has an agent.
LEMMA TypeStep ==
  ASSUME TypeOK, WellFormed, [Next]_vars
  PROVE  TypeOK'
<1> USE ServerAssumption, NoneAssumption DEF TypeOK, WellFormed, PC, RegisterPC, ServingPC, CleanupPC, ShakePC, RemovePC
<1>1. ASSUME SetIdentity PROVE TypeOK'
  BY <1>1 DEF SetIdentity, Goto, End, Begin, storeVars, removeVars, connVars
<1>2. ASSUME NEW c \in Conn, RegisterTomb(c) PROVE TypeOK'
  BY <1>2 DEF RegisterTomb, Goto, End, Begin, storeVars, removeVars, connVars
<1>3. ASSUME NEW c \in Conn, RegisterStore(c) PROVE TypeOK'
  BY <1>3, RegisterRecType DEF RegisterStore, Goto, End, Begin, storeVars, removeVars, connVars, Approvals
<1>4. ASSUME NEW c \in Conn, Install(c) PROVE TypeOK'
  BY <1>4 DEF Install, Goto, End, Begin, storeVars, removeVars, connVars
<1>5. ASSUME NEW c \in Conn, DispatchHeartbeat(c) PROVE TypeOK'
  BY <1>5, SetOnlineRecType DEF DispatchHeartbeat, Goto, End, Begin, storeVars, removeVars, connVars
<1>6. ASSUME NEW c \in Conn, DispatchOffline(c) PROVE TypeOK'
  BY <1>6, SetOnlineRecType DEF DispatchOffline, Goto, End, Begin, storeVars, removeVars, connVars, AddOfflineRec, Known
<1>7. ASSUME NEW c \in Conn, ReadFails(c) PROVE TypeOK'
  BY <1>7 DEF ReadFails, Goto, End, Begin, storeVars, removeVars, connVars
<1>8. ASSUME NEW c \in Conn, CleanupSession(c) PROVE TypeOK'
  BY <1>8 DEF CleanupSession, Goto, End, Begin, storeVars, removeVars, connVars
<1>9. ASSUME NEW c \in Conn, CleanupOnline(c) PROVE TypeOK'
  BY <1>9, SetOnlineRecType DEF CleanupOnline, Goto, End, Begin, storeVars, removeVars, connVars
<1>10. ASSUME NEW c \in Conn, CleanupOffline(c) PROVE TypeOK'
  BY <1>10, SetOnlineRecType DEF CleanupOffline, Goto, End, Begin, storeVars, removeVars, connVars, AddOfflineRec, Approvals
<1>11. ASSUME NEW c \in Conn, HandshakeGet(c) PROVE TypeOK'
  <2>1. UNCHANGED <<storeVars, sessions, serverID, removeVars, disc>>
    BY <1>11 DEF HandshakeGet
  <2>2. CASE End(c)
    BY <2>1, <2>2 DEF End, storeVars, removeVars, Approvals
  <2>3. CASE Goto(c, "h_tomb") /\ UNCHANGED <<who, seen, open, byeCounted>>
    BY <2>1, <2>3 DEF Goto, storeVars, removeVars
  <2>. QED  BY <1>11, <2>2, <2>3, HandshakeGetCases
<1>12. ASSUME NEW c \in Conn, HandshakeTomb(c) PROVE TypeOK'
  BY <1>12 DEF HandshakeTomb, Goto, End, Begin, storeVars, removeVars, connVars, AfterHandshakeRegister, Approvals
<1>13. ASSUME NEW c \in Conn, HandshakeStore(c) PROVE TypeOK'
  BY <1>13, RegisterRecType DEF HandshakeStore, Goto, End, Begin, storeVars, removeVars, connVars, AfterHandshakeRegister, Approvals
<1>14. ASSUME NEW c \in Conn, HandshakePending(c) PROVE TypeOK'
  BY <1>14, SetApprovalRecType DEF HandshakePending, Goto, End, Begin, storeVars, removeVars, connVars, Approvals
<1>15. ASSUME NEW c \in Conn, UninstallAdd(c) PROVE TypeOK'
  BY <1>15 DEF UninstallAdd, Goto, End, Begin, storeVars, removeVars, connVars, Approvals, Decisions
<1>16. ASSUME NEW c \in Conn, NEW a \in Agent, RegisterHello(c, a) PROVE TypeOK'
  BY <1>16 DEF RegisterHello, Goto, End, Begin, storeVars, removeVars, connVars, Approvals
<1>17. ASSUME NEW c \in Conn, NEW a \in Agent, HandshakeHello(c, a) PROVE TypeOK'
  BY <1>17, ApprovalOfType DEF HandshakeHello, Goto, End, Begin, storeVars, removeVars, connVars
<1>18. ASSUME NEW c \in Conn, NEW a \in Agent, UninstallHello(c, a) PROVE TypeOK'
  <2>1. UNCHANGED <<storeVars, sessions, serverID, disc>>
    BY <1>18 DEF UninstallHello
  <2>2. CASE Begin(c, a, "u_add", "unset") /\ UNCHANGED removeVars
    BY <2>1, <2>2 DEF Begin, Goto, storeVars, removeVars, Approvals
  <2>3. CASE Schedule(a, "due_uninstall") /\ UNCHANGED connVars
    BY <2>1, <2>3, ScheduleType DEF storeVars, connVars
  <2>. QED  BY <1>18, <2>2, <2>3 DEF UninstallHello
<1>19. ASSUME NEW c \in Conn, Receive(c) PROVE TypeOK'
  BY <1>19 DEF Receive, Goto, End, Begin, storeVars, removeVars, connVars
<1>20. ASSUME NEW c \in Conn, PeerDrop(c) PROVE TypeOK'
  BY <1>20 DEF PeerDrop, Goto, End, Begin, storeVars, removeVars, connVars
<1>21. ASSUME NEW a \in Agent, Approve(a) PROVE TypeOK'
  BY <1>21, SetApprovalRecType DEF Approve, Goto, End, Begin, storeVars, removeVars, connVars, Started, Approvals
<1>22. ASSUME NEW a \in Agent, Reject(a) PROVE TypeOK'
  BY <1>22, SetApprovalRecType DEF Reject, Goto, End, Begin, storeVars, removeVars, connVars, Approvals
<1>23. ASSUME NEW a \in Agent, DeleteAgent(a) PROVE TypeOK'
  <2>1. Schedule(a, "due_delete") /\ UNCHANGED <<storeVars, sessions, serverID, connVars, disc>>
    BY <1>23 DEF DeleteAgent
  <2>. QED  BY <2>1, ScheduleType DEF storeVars, connVars
<1>24. ASSUME NEW a \in Agent, RemoteUninstall(a) PROVE TypeOK'
  BY <1>24, ScheduleType DEF RemoteUninstall, Goto, End, Begin, storeVars, removeVars, connVars, Decide, Decisions
<1>25. ASSUME NEW a \in Agent, NEW d \in {"approved", "rejected"}, DecideUninstall(a, d) PROVE TypeOK'
  BY <1>25 DEF DecideUninstall, Goto, End, Begin, storeVars, removeVars, connVars, Decide, Decisions
<1>26. ASSUME NEW r \in Remover, RemoveRecord(r) PROVE TypeOK'
  BY <1>26, NoAgentType DEF RemoveRecord, Goto, End, Begin, storeVars, removeVars, connVars
<1>27. ASSUME NEW r \in Remover, AddTombstone(r) PROVE TypeOK'
  BY <1>27 DEF AddTombstone, Goto, End, Begin, storeVars, removeVars, connVars
<1>28. ASSUME NEW a \in Agent, DiscoverTomb(a) PROVE TypeOK'
  BY <1>28 DEF DiscoverTomb, Goto, End, Begin, storeVars, removeVars, connVars
<1>29. ASSUME DiscoverStore PROVE TypeOK'
  BY <1>29, DiscoverRecType DEF DiscoverStore, Goto, End, Begin, storeVars, removeVars, connVars
<1>30. ASSUME PruneDiscovered PROVE TypeOK'
  <2>1. PICK stale \in SUBSET Agent :
          agents' = [a \in Agent |-> IF a \in stale THEN NoAgent ELSE agents[a]]
    BY <1>30, PruneEffect
  <2>2. agents' \in [Agent -> AgentRecord]
    BY <2>1, NoAgentType
  <2>. QED  BY <1>30, <2>2, PruneEffect DEF connVars, removeVars
<1>31. CASE UNCHANGED vars
  BY <1>31 DEF vars
<1>. QED
  BY <1>1, <1>2, <1>3, <1>4, <1>5, <1>6, <1>7, <1>8, <1>9, <1>10, <1>11, <1>12, <1>13, <1>14, <1>15, <1>16, <1>17, <1>18, <1>19, <1>20, <1>21, <1>22, <1>23, <1>24, <1>25, <1>26, <1>27, <1>28, <1>29, <1>30, <1>31
     DEF Next, HandlerStep, PeerStep, AdminStep, RemoveStep, DiscoveryStep

-----------------------------------------------------------------------------
(* Every step moves at most one handler goroutine, in one of a few ways.    *)

Starts(c) ==
  \E a \in Agent :
    /\ UNCHANGED sessions
    /\ \/ Begin(c, a, "r_tomb", "approved") /\ ApprovalOf(agents[a]) = "approved"
       \/ Begin(c, a, "h_get", ApprovalOf(agents[a]))
       \/ Begin(c, a, "u_add", "unset")

Ends(c) ==
  /\ pc[c] \in ShakePC \cup {"c_offline", "u_add"}
  /\ End(c) /\ UNCHANGED sessions

Advances(c) ==
  /\ UNCHANGED <<sessions, who, seen, open>>
  /\ \/ /\ pc[c] \in RegisterPC
        /\ \E p \in RegisterPC : Goto(c, p)
     \/ pc[c] = "c_online" /\ Goto(c, "c_offline")
     \/ pc[c] \in ShakePC /\ (Goto(c, "h_tomb") \/ Goto(c, "h_store"))
     \/ /\ pc[c] \in ShakePC /\ seen[c] \notin {"approved", "rejected"}
        /\ Goto(c, "h_pending")

Serves(c) ==
  /\ UNCHANGED <<sessions, who, seen>>
  /\ \/ UNCHANGED pc /\ open' = [open EXCEPT ![c] = FALSE]
     \/ /\ pc[c] \in ServingPC
        /\ \E p \in ServingPC : Goto(c, p)
        /\ open' = open \/ open' = [open EXCEPT ![c] = FALSE]
     \/ pc[c] = "serving" /\ ~open[c] /\ Goto(c, "c_session") /\ UNCHANGED open

ControlStep ==
  \/ UNCHANGED <<sessions, pc, who, seen, open>>
  \/ \E c \in Conn : \/ Starts(c) \/ Ends(c) \/ Advances(c) \/ Serves(c)
                     \/ Install(c) \/ CleanupSession(c)

\* The classification is complete.
LEMMA ControlCases ==
  ASSUME [Next]_vars
  PROVE  ControlStep
<1> USE DEF ControlStep, storeVars, removeVars, connVars
<1>1. CASE SetIdentity \/ AdminStep \/ DiscoveryStep \/ \E r \in Remover : RemoveStep(r)
  BY <1>1 DEF SetIdentity, AdminStep, Approve, Reject, DeleteAgent, RemoteUninstall,
     DecideUninstall, DiscoveryStep, DiscoverTomb, DiscoverStore, PruneDiscovered,
     RemoveStep, RemoveRecord, AddTombstone
<1>2. ASSUME NEW c \in Conn, HandlerStep(c) PROVE ControlStep
  <2>1. CASE RegisterTomb(c) \/ RegisterStore(c) \/ CleanupOnline(c)
    BY <2>1 DEF RegisterTomb, RegisterStore, CleanupOnline, Advances, RegisterPC
  <2>2. CASE Install(c) \/ CleanupSession(c)
    BY <2>2
  <2>3. CASE DispatchHeartbeat(c) \/ DispatchOffline(c) \/ ReadFails(c)
    BY <2>3 DEF DispatchHeartbeat, DispatchOffline, ReadFails, Serves, ServingPC
  <2>4. CASE CleanupOffline(c) \/ HandshakePending(c) \/ UninstallAdd(c)
    BY <2>4 DEF CleanupOffline, HandshakePending, UninstallAdd, Ends, ShakePC
  <2>5. CASE HandshakeGet(c)
    BY <2>5, HandshakeGetCases DEF HandshakeGet, Ends, Advances, ShakePC
  <2>6. CASE HandshakeTomb(c) \/ HandshakeStore(c)
    BY <2>6 DEF HandshakeTomb, HandshakeStore, AfterHandshakeRegister, Ends,
       Advances, ShakePC
  <2>. QED
    BY <1>2, <2>1, <2>2, <2>3, <2>4, <2>5, <2>6 DEF HandlerStep
<1>3. ASSUME NEW c \in Conn, PeerStep(c) PROVE ControlStep
  <2>1. ASSUME NEW a \in Agent, RegisterHello(c, a) \/ HandshakeHello(c, a)
        PROVE  ControlStep
    BY <2>1 DEF RegisterHello, HandshakeHello, Starts
  <2>2. ASSUME NEW a \in Agent, UninstallHello(c, a) PROVE ControlStep
    BY <2>2 DEF UninstallHello, Starts
  <2>3. CASE Receive(c) \/ PeerDrop(c)
    BY <2>3 DEF Receive, PeerDrop, Serves, ServingPC
  <2>. QED  BY <1>3, <2>1, <2>2, <2>3 DEF PeerStep
<1>4. CASE UNCHANGED vars
  BY <1>4 DEF vars
<1>. QED  BY <1>1, <1>2, <1>3, <1>4 DEF Next

\* What a handler has read and the agent it works for stay with it until it ends.
LEMMA HandlerStepInv ==
  ASSUME TypeOK, HandlerRead, \A c \in Conn : pc[c] # "idle" => who[c] \in Agent,
         \A c \in Conn : pc[c] = "idle" => seen[c] = "unset", ControlStep
  PROVE  /\ HandlerRead'
         /\ \A c \in Conn : pc'[c] # "idle" => who'[c] \in Agent
         /\ \A c \in Conn : pc'[c] = "idle" => seen'[c] = "unset"
<1> USE DEF TypeOK, HandlerRead, RegisterPC, ServingPC, CleanupPC, ShakePC
<1>1. CASE UNCHANGED <<sessions, pc, who, seen, open>>
  BY <1>1
<1>2. ASSUME NEW c \in Conn, Starts(c)
      PROVE  /\ HandlerRead'
             /\ \A d \in Conn : pc'[d] # "idle" => who'[d] \in Agent
             /\ \A d \in Conn : pc'[d] = "idle" => seen'[d] = "unset"
  BY <1>2 DEF Starts, Begin, Goto
<1>3. ASSUME NEW c \in Conn, Ends(c)
      PROVE  /\ HandlerRead'
             /\ \A d \in Conn : pc'[d] # "idle" => who'[d] \in Agent
             /\ \A d \in Conn : pc'[d] = "idle" => seen'[d] = "unset"
  BY <1>3 DEF Ends, End
<1>4. ASSUME NEW c \in Conn, Advances(c)
      PROVE  /\ HandlerRead'
             /\ \A d \in Conn : pc'[d] # "idle" => who'[d] \in Agent
             /\ \A d \in Conn : pc'[d] = "idle" => seen'[d] = "unset"
  BY <1>4 DEF Advances, Goto
<1>5. ASSUME NEW c \in Conn, Serves(c)
      PROVE  /\ HandlerRead'
             /\ \A d \in Conn : pc'[d] # "idle" => who'[d] \in Agent
             /\ \A d \in Conn : pc'[d] = "idle" => seen'[d] = "unset"
  BY <1>5 DEF Serves, Goto
<1>6. ASSUME NEW c \in Conn, Install(c) \/ CleanupSession(c)
      PROVE  /\ HandlerRead'
             /\ \A d \in Conn : pc'[d] # "idle" => who'[d] \in Agent
             /\ \A d \in Conn : pc'[d] = "idle" => seen'[d] = "unset"
  BY <1>6 DEF Install, CleanupSession, Goto
<1>. QED  BY <1>1, <1>2, <1>3, <1>4, <1>5, <1>6 DEF ControlStep

\* The session map: a new connection closes the one it replaces, so an open
\* connection keeps its session; a cleanup removes only its own session.
LEMMA SessionStepInv ==
  ASSUME TypeOK, WellFormed, SessionIsNewest, SessionAlive, ControlStep
  PROVE  SessionIsNewest' /\ SessionAlive'
<1> USE DEF ServingPC
<1>1. /\ sessions \in [Agent -> Conn \cup {None}] /\ pc \in [Conn -> PC]
      /\ who \in [Conn -> Agent \cup {None}] /\ open \in [Conn -> BOOLEAN]
      /\ seen \in [Conn -> Approvals] /\ None \notin Conn
      /\ \A c \in Conn : pc[c] # "idle" => who[c] \in Agent
  BY NoneAssumption DEF TypeOK, WellFormed
<1>2. CASE UNCHANGED <<sessions, pc, who, seen, open>>
  BY <1>2 DEF SessionIsNewest, SessionAlive
\* A step of a handler that neither is nor comes into its read loop.
<1>3. ASSUME NEW c \in Conn, UNCHANGED sessions,
             pc[c] \notin ServingPC \cup {"c_session"}, pc'[c] \notin ServingPC,
             \A d \in Conn \ {c} : /\ pc'[d] = pc[d] /\ who'[d] = who[d]
                                   /\ open'[d] = open[d]
      PROVE  SessionIsNewest' /\ SessionAlive'
  <2>1. SessionIsNewest'
    BY <1>3 DEF SessionIsNewest
  <2>2. SessionAlive'
    BY <1>1, <1>3 DEF SessionAlive
  <2>. QED  BY <2>1, <2>2
<1>4. ASSUME NEW c \in Conn, Starts(c) PROVE SessionIsNewest' /\ SessionAlive'
  BY <1>1, <1>3, <1>4 DEF Starts, Begin, Goto
<1>5. ASSUME NEW c \in Conn, Ends(c) PROVE SessionIsNewest' /\ SessionAlive'
  BY <1>1, <1>3, <1>5 DEF Ends, End, ShakePC
<1>6. ASSUME NEW c \in Conn, Advances(c) PROVE SessionIsNewest' /\ SessionAlive'
  BY <1>1, <1>3, <1>6 DEF Advances, Goto, ShakePC, RegisterPC
<1>7. ASSUME NEW c \in Conn, Serves(c) PROVE SessionIsNewest' /\ SessionAlive'
  BY <1>1, <1>7 DEF Serves, Goto, SessionIsNewest, SessionAlive
<1>8. ASSUME NEW c \in Conn, Install(c) PROVE SessionIsNewest' /\ SessionAlive'
  <2>1. who[c] \in Agent /\ pc[c] = "r_install"
    BY <1>1, <1>8 DEF Install
  <2>2. SessionIsNewest'
    BY <1>1, <1>8, <2>1 DEF Install, Goto, SessionIsNewest
  <2>3. SessionAlive'
    BY <1>1, <1>8, <2>1 DEF Install, Goto, SessionAlive
  <2>. QED  BY <2>2, <2>3
<1>9. ASSUME NEW c \in Conn, CleanupSession(c) PROVE SessionIsNewest' /\ SessionAlive'
  <2>1. who[c] \in Agent /\ pc[c] = "c_session"
    BY <1>1, <1>9 DEF CleanupSession
  <2>2. SessionIsNewest'
    BY <1>1, <1>9, <2>1 DEF CleanupSession, Goto, SessionIsNewest
  <2>3. SessionAlive'
    BY <1>1, <1>9, <2>1 DEF CleanupSession, Goto, SessionAlive
  <2>. QED  BY <2>2, <2>3
<1>. QED
  BY <1>2, <1>4, <1>5, <1>6, <1>7, <1>8, <1>9 DEF ControlStep

\* A RemoveAgent call that runs has an agent, and one that uninstalls has an
\* administrator's consent.
LEMMA RemoverStepInv ==
  ASSUME TypeOK, RequestConsent, UninstallNeedsConsent,
         \A r \in Remover : rpc[r] # "idle" => rwho[r] \in Agent, [Next]_vars
  PROVE  /\ \A r \in Remover : rpc'[r] # "idle" => rwho'[r] \in Agent
         /\ RequestConsent' /\ UninstallNeedsConsent'
<1> DEFINE Goal == /\ \A r \in Remover : rpc'[r] # "idle" => rwho'[r] \in Agent
                   /\ RequestConsent' /\ UninstallNeedsConsent'
<1> USE DEF RequestConsent, UninstallNeedsConsent, storeVars, removeVars, connVars
<1>1. /\ rpc \in [Remover -> RemovePC] /\ rwho \in [Remover -> Agent \cup {None}]
      /\ unreq \in [Agent -> Decisions] /\ uninstallOK \subseteq Agent
  BY DEF TypeOK
<1>2. CASE UNCHANGED <<rpc, rwho, unreq, uninstallOK>>
  BY <1>2
<1>3. CASE \/ SetIdentity \/ DiscoveryStep \/ UNCHANGED vars
           \/ \E a \in Agent : Approve(a) \/ Reject(a)
  BY <1>2, <1>3 DEF SetIdentity, DiscoveryStep, DiscoverTomb, DiscoverStore,
     PruneDiscovered, Approve, Reject, vars
<1>4. ASSUME NEW a \in Agent, DeleteAgent(a) PROVE Goal
  <2>1. Schedule(a, "due_delete") /\ UNCHANGED <<unreq, uninstallOK>>
    BY <1>4 DEF DeleteAgent
  <2>. QED  BY <1>1, <2>1 DEF Schedule
<1>5. ASSUME NEW a \in Agent, RemoteUninstall(a) PROVE Goal
  BY <1>1, <1>5 DEF RemoteUninstall, Schedule, Decide
<1>6. ASSUME NEW a \in Agent, NEW d \in {"approved", "rejected"},
             DecideUninstall(a, d) PROVE Goal
  BY <1>1, <1>6 DEF DecideUninstall, Decide
<1>7. ASSUME NEW r \in Remover, RemoveStep(r) PROVE Goal
  BY <1>1, <1>7 DEF RemoveStep, RemoveRecord, AddTombstone
<1>8. ASSUME NEW c \in Conn, NEW a \in Agent, UninstallHello(c, a) PROVE Goal
  BY <1>1, <1>8 DEF UninstallHello, Schedule
<1>9. ASSUME NEW c \in Conn, UninstallAdd(c) PROVE Goal
  BY <1>1, <1>9 DEF UninstallAdd
<1>10. ASSUME NEW c \in Conn, HandlerStep(c) PROVE Goal
  BY <1>2, <1>9, <1>10 DEF HandlerStep, RegisterTomb, RegisterStore, Install,
     DispatchHeartbeat, DispatchOffline, ReadFails, CleanupSession, CleanupOnline,
     CleanupOffline, HandshakeGet, HandshakeTomb, HandshakeStore, HandshakePending
<1>11. ASSUME NEW c \in Conn, PeerStep(c) PROVE Goal
  BY <1>2, <1>8, <1>11 DEF PeerStep, RegisterHello, HandshakeHello, Receive, PeerDrop
<1>. QED
  BY <1>3, <1>4, <1>5, <1>6, <1>7, <1>10, <1>11 DEF Next, AdminStep

-----------------------------------------------------------------------------
(* Where an approval comes from.                                            *)

\* A record that is approved after a step was approved before it, or is approved
\* by the administrator now, or is stored by a handshake that read "approved".
LEMMA ApprovalOrigin ==
  ASSUME TypeOK, WellFormed, [Next]_vars, NEW b \in Agent,
         agents'[b].approval = "approved"
  PROVE  \/ agents[b].approval = "approved" /\ agents'[b].bound = agents[b].bound
         \/ b \in everApproved' /\ agents'[b].bound = MyID
         \/ /\ agents[b].approval # "approved" /\ agents'[b].bound = serverID
            /\ \E c \in Conn : /\ pc[c] = "h_store" /\ seen[c] = "approved"
                               /\ who[c] = b
<1> DEFINE Goal ==
      \/ agents[b].approval = "approved" /\ agents'[b].bound = agents[b].bound
      \/ b \in everApproved' /\ agents'[b].bound = MyID
      \/ /\ agents[b].approval # "approved" /\ agents'[b].bound = serverID
         /\ \E c \in Conn : /\ pc[c] = "h_store" /\ seen[c] = "approved"
                            /\ who[c] = b
<1> USE DEF storeVars, removeVars, connVars
<1>1. /\ agents \in [Agent -> AgentRecord] /\ agents[b] \in AgentRecord
      /\ \A c \in Conn : pc[c] # "idle" => who[c] \in Agent
      /\ \A r \in Remover : rpc[r] # "idle" => rwho[r] \in Agent
      /\ disc \in Agent \cup {None}
      /\ seen \in [Conn -> Approvals] /\ serverID \in {MyID, NoServer}
      /\ everApproved \subseteq Agent
  BY DEF TypeOK, WellFormed
<1>2. CASE UNCHANGED agents
  BY <1>2
<1>3. ASSUME NEW c \in Conn, HandlerStep(c) PROVE Goal
  <2>1. CASE DispatchHeartbeat(c) \/ DispatchOffline(c) \/ CleanupOnline(c)
               \/ CleanupOffline(c)
    <3>1. \E on \in BOOLEAN :
            agents'[b] = IF b = who[c] THEN SetOnlineRec(agents[b], on) ELSE agents[b]
      BY <1>1, <2>1 DEF DispatchHeartbeat, DispatchOffline, CleanupOnline,
         CleanupOffline, AddOfflineRec
    <3>. QED  BY <1>1, <3>1 DEF SetOnlineRec, AgentRecord
  <2>2. CASE RegisterStore(c)
    <3>1. agents'[b] = IF b = who[c] THEN RegisterRec(agents[b], "unset", NoServer) ELSE agents[b]
      BY <1>1, <2>2 DEF RegisterStore
    <3>2. CASE b # who[c]
      BY <3>1, <3>2
    <3>3. CASE b = who[c]
      <4>1. agents'[b] = RegisterRec(agents[b], "unset", NoServer)
        BY <3>1, <3>3
      <4>2. /\ agents'[b].approval = IF Known(agents[b]) THEN agents[b].approval ELSE "unset"
            /\ agents'[b].bound = IF Known(agents[b]) THEN agents[b].bound ELSE NoServer
        BY <4>1 DEF RegisterRec, Known
      <4>. QED  BY <4>2
    <3>. QED  BY <3>2, <3>3
  <2>3. CASE HandshakeStore(c)
    <3> DEFINE ap == IF seen[c] = "unset" THEN "pending" ELSE seen[c]
               bd == IF seen[c] = "approved" THEN serverID ELSE NoServer
    <3>1. /\ agents'[b] = IF b = who[c] THEN RegisterRec(agents[b], ap, bd) ELSE agents[b]
          /\ pc[c] = "h_store"
      BY <1>1, <2>3 DEF HandshakeStore
    <3>2. ap \in Approvals /\ bd \in Server \cup {NoServer}
      BY <1>1, ServerAssumption DEF Approvals
    <3>3. CASE b # who[c]
      BY <3>1, <3>3
    <3>4. CASE b = who[c]
      <4>1. agents'[b] = RegisterRec(agents[b], ap, bd)
        BY <3>1, <3>4
      <4>2. /\ agents'[b].approval = IF Known(agents[b]) THEN agents[b].approval ELSE ap
            /\ agents'[b].bound = IF Known(agents[b]) THEN agents[b].bound ELSE bd
        BY <4>1 DEF RegisterRec, Known
      <4>. QED  BY <3>1, <3>4, <4>2 DEF Known
    <3>. QED  BY <3>3, <3>4
  <2>4. CASE HandshakePending(c)
    <3>1. agents'[b] = IF b = who[c] THEN SetApprovalRec(agents[b], "pending", NoServer)
                                     ELSE agents[b]
      BY <1>1, <2>4 DEF HandshakePending
    <3>. QED  BY <1>1, <3>1 DEF SetApprovalRec, AgentRecord
  <2>. QED
    BY <1>2, <1>3, <2>1, <2>2, <2>3, <2>4 DEF HandlerStep, RegisterTomb, Install,
       ReadFails, CleanupSession, HandshakeGet, HandshakeTomb, UninstallAdd
<1>4. ASSUME NEW c \in Conn, PeerStep(c) PROVE Goal
  BY <1>2, <1>4 DEF PeerStep, RegisterHello, HandshakeHello, UninstallHello,
     Receive, PeerDrop
<1>5. ASSUME NEW a \in Agent, Approve(a) PROVE Goal
  <2>1. /\ agents'[b] = IF b = a THEN SetApprovalRec(agents[b], "approved", MyID)
                                 ELSE agents[b]
        /\ everApproved' = everApproved \cup {a} /\ Known(agents[a])
    BY <1>1, <1>5 DEF Approve
  <2>. QED  BY <1>1, <2>1 DEF SetApprovalRec, AgentRecord
<1>6. ASSUME NEW a \in Agent, Reject(a) PROVE Goal
  <2>1. agents'[b] = IF b = a THEN SetApprovalRec(agents[b], "rejected", NoServer)
                              ELSE agents[b]
    BY <1>1, <1>6 DEF Reject
  <2>. QED  BY <1>1, <2>1 DEF SetApprovalRec, AgentRecord
<1>7. CASE AdminStep
  BY <1>2, <1>5, <1>6, <1>7 DEF AdminStep, DeleteAgent, RemoteUninstall, DecideUninstall
<1>8. ASSUME NEW r \in Remover, RemoveStep(r) PROVE Goal
  BY <1>1, <1>2, <1>8 DEF RemoveStep, RemoveRecord, AddTombstone, NoAgent
<1>9. CASE DiscoverStore
  <2>1. agents'[b] = IF b = disc THEN DiscoverRec(agents[b]) ELSE agents[b]
    BY <1>1, <1>9 DEF DiscoverStore
  <2>. QED  BY <1>1, <2>1, DiscoverRecFields
<1>10. CASE PruneDiscovered
  BY <1>1, <1>10, PruneEffect DEF NoAgent
<1>11. CASE DiscoveryStep
  BY <1>2, <1>9, <1>10, <1>11 DEF DiscoveryStep, DiscoverTomb
<1>. QED
  BY <1>2, <1>3, <1>4, <1>7, <1>8, <1>11 DEF Next, SetIdentity, vars

-----------------------------------------------------------------------------
(* Start-up.                                                                *)

\* The server's id is set once.
LEMMA ServerIDStep ==
  ASSUME [Next]_vars
  PROVE  serverID' = serverID \/ serverID' = MyID
  BY DEF Next, SetIdentity, HandlerStep, PeerStep, AdminStep, RemoveStep, DiscoveryStep,
     RegisterTomb, RegisterStore, Install, DispatchHeartbeat, DispatchOffline, ReadFails,
     CleanupSession, CleanupOnline, CleanupOffline, HandshakeGet, HandshakeTomb,
     HandshakeStore, HandshakePending, UninstallAdd, RegisterHello, HandshakeHello,
     UninstallHello, Receive, PeerDrop, Approve, Reject, DeleteAgent, RemoteUninstall,
     DecideUninstall, RemoveRecord, AddTombstone, DiscoverTomb, DiscoverStore,
     PruneDiscovered, vars

\* Before the server knows its id no step approves an agent or takes an approval
\* back.
LEMMA Frozen ==
  ASSUME IndInv, [Next]_vars, serverID = NoServer, NEW b \in Agent
  PROVE  agents'[b].approval = "approved" <=> agents[b].approval = "approved"
<1> DEFINE Goal == agents'[b].approval = "approved" <=> agents[b].approval = "approved"
<1> USE DEF storeVars, removeVars, connVars
<1>1. /\ agents \in [Agent -> AgentRecord] /\ agents[b] \in AgentRecord
      /\ \A c \in Conn : pc[c] # "idle" => who[c] \in Agent
      /\ seen \in [Conn -> Approvals]
  BY DEF IndInv, TypeOK, WellFormed
<1>2. ~Started /\ disc = None
  BY ServerAssumption DEF Started, IndInv, StartUp
<1>3. CASE UNCHANGED agents
  BY <1>3
<1>4. ASSUME NEW c \in Conn, HandlerStep(c) PROVE Goal
  <2>1. CASE DispatchHeartbeat(c) \/ DispatchOffline(c) \/ CleanupOnline(c)
               \/ CleanupOffline(c)
    <3>1. \E on \in BOOLEAN :
            agents'[b] = IF b = who[c] THEN SetOnlineRec(agents[b], on) ELSE agents[b]
      BY <1>1, <2>1 DEF DispatchHeartbeat, DispatchOffline, CleanupOnline,
         CleanupOffline, AddOfflineRec
    <3>. QED  BY <1>1, <3>1 DEF SetOnlineRec, AgentRecord
  <2>2. CASE RegisterStore(c)
    <3>1. agents'[b] = IF b = who[c] THEN RegisterRec(agents[b], "unset", NoServer)
                                     ELSE agents[b]
      BY <1>1, <2>2 DEF RegisterStore
    <3>. QED  BY <1>1, <3>1 DEF RegisterRec, Known
  <2>3. CASE HandshakeStore(c)
    <3> DEFINE ap == IF seen[c] = "unset" THEN "pending" ELSE seen[c]
               bd == IF seen[c] = "approved" THEN serverID ELSE NoServer
    <3>1. /\ agents'[b] = IF b = who[c] THEN RegisterRec(agents[b], ap, bd) ELSE agents[b]
          /\ pc[c] = "h_store"
      BY <1>1, <2>3 DEF HandshakeStore
    <3>2. ap # "approved"
      BY <3>1, ServerAssumption DEF IndInv, StartUp
    <3>. QED  BY <1>1, <3>1, <3>2 DEF RegisterRec, Known
  <2>4. CASE HandshakePending(c)
    <3>1. agents'[b] = IF b = who[c] THEN SetApprovalRec(agents[b], "pending", NoServer)
                                     ELSE agents[b]
      BY <1>1, <2>4 DEF HandshakePending
    <3>2. agents[who[c]].approval # "approved"
      BY <2>4 DEF HandshakePending, IndInv, StartUp, HandlerRead, ShakePC
    <3>. QED  BY <1>1, <3>1, <3>2 DEF SetApprovalRec, AgentRecord
  <2>. QED
    BY <1>3, <1>4, <2>1, <2>2, <2>3, <2>4 DEF HandlerStep, RegisterTomb, Install,
       ReadFails, CleanupSession, HandshakeGet, HandshakeTomb, UninstallAdd
<1>5. ASSUME NEW c \in Conn, PeerStep(c) PROVE Goal
  BY <1>3, <1>5 DEF PeerStep, RegisterHello, HandshakeHello, UninstallHello,
     Receive, PeerDrop
<1>6. ASSUME NEW r \in Remover, RemoveStep(r) PROVE Goal
  BY <1>2, <1>3, <1>6 DEF RemoveStep, RemoveRecord, AddTombstone
<1>7. CASE AdminStep \/ DiscoveryStep
  BY <1>2, <1>7 DEF AdminStep, Approve, Reject, DeleteAgent, RemoteUninstall,
     DecideUninstall, DiscoveryStep, DiscoverTomb, DiscoverStore, PruneDiscovered
<1>. QED
  BY <1>3, <1>4, <1>5, <1>6, <1>7 DEF Next, SetIdentity, vars

\* The discovery loop does not run before the server knows its id.
LEMMA DiscoveryIdle ==
  ASSUME IndInv, [Next]_vars, serverID = NoServer
  PROVE  disc' = None
<1>1. ~Started /\ disc = None
  BY ServerAssumption DEF Started, IndInv, StartUp
<1>. QED
  BY <1>1 DEF Next, SetIdentity, HandlerStep, PeerStep, AdminStep, RemoveStep, DiscoveryStep,
     RegisterTomb, RegisterStore, Install, DispatchHeartbeat, DispatchOffline, ReadFails,
     CleanupSession, CleanupOnline, CleanupOffline, HandshakeGet, HandshakeTomb,
     HandshakeStore, HandshakePending, UninstallAdd, RegisterHello, HandshakeHello,
     UninstallHello, Receive, PeerDrop, Approve, Reject, DeleteAgent, RemoteUninstall,
     DecideUninstall, RemoveRecord, AddTombstone, DiscoverTomb, DiscoverStore,
     PruneDiscovered, vars

\* A handshake passes its binding check with "approved" only on a server that
\* knows its id: an approved record is bound, and a server without an id refuses
\* every bound agent.
LEMMA PastBindingCheck ==
  ASSUME IndInv, [Next]_vars, NEW c \in Conn,
         pc'[c] \in {"h_tomb", "h_store"}, seen'[c] = "approved"
  PROVE  serverID = MyID
<1>1. CASE pc[c] \in {"h_tomb", "h_store"} /\ seen[c] = "approved"
  BY <1>1 DEF IndInv, StartUp
<1>2. CASE HandshakeGet(c) /\ seen[c] = "approved"
  <2>1. pc[c] = "h_get" /\ who[c] \in Agent /\ serverID \in {MyID, NoServer}
    BY <1>2 DEF HandshakeGet, IndInv, WellFormed, TypeOK
  <2>2. pc'[c] # "idle"
    OBVIOUS
  <2>3. ~(Known(agents[who[c]]) /\ agents[who[c]].bound \notin {NoServer, serverID})
    BY <1>2, <2>2 DEF HandshakeGet, End, IndInv, TypeOK
  <2>4. SUFFICES ASSUME serverID = NoServer PROVE FALSE
    BY <2>1
  <2>5. agents[who[c]].approval = "approved"
    BY <1>2, <2>1, <2>4 DEF IndInv, StartUp, ShakePC
  <2>6. Known(agents[who[c]]) /\ agents[who[c]].bound # NoServer
    BY <2>1, <2>5 DEF Known, IndInv, ApprovedIsBound
  <2>. QED  BY <2>3, <2>4, <2>6
<1>3. \/ pc[c] \in {"h_tomb", "h_store"} /\ seen[c] = "approved"
      \/ HandshakeGet(c) /\ seen[c] = "approved"
  <2> USE DEF storeVars, removeVars, connVars, Goto
  <2>1. pc \in [Conn -> PC] /\ seen \in [Conn -> Approvals]
    BY DEF IndInv, TypeOK
  <2>2. CASE pc'[c] = pc[c] /\ seen'[c] = seen[c]
    BY <2>2
  <2>3. ASSUME NEW d \in Conn, HandlerStep(d)
        PROVE  \/ pc[c] \in {"h_tomb", "h_store"} /\ seen[c] = "approved"
               \/ HandshakeGet(c) /\ seen[c] = "approved"
    <3>1. CASE d # c
      <4>1. pc'[c] = pc[c] /\ seen'[c] = seen[c]
        BY <2>1, <2>3, <3>1, HandshakeGetCases DEF HandlerStep, RegisterTomb, RegisterStore,
           Install, DispatchHeartbeat, DispatchOffline, ReadFails, CleanupSession,
           CleanupOnline, CleanupOffline, HandshakeTomb, HandshakeStore,
           HandshakePending, UninstallAdd, AfterHandshakeRegister, End
      <4>. QED  BY <2>2, <4>1
    <3>2. CASE HandshakeGet(c)
      BY <2>1, <3>2, HandshakeGetCases DEF End
    <3>3. CASE HandshakeTomb(c) \/ HandshakeStore(c)
      BY <2>1, <3>3 DEF HandshakeTomb, HandshakeStore, AfterHandshakeRegister, End
    <3>4. CASE d = c /\ ~HandshakeGet(c) /\ ~HandshakeTomb(c) /\ ~HandshakeStore(c)
      BY <2>1, <2>3, <3>4 DEF HandlerStep, RegisterTomb, RegisterStore,
         Install, DispatchHeartbeat, DispatchOffline, ReadFails, CleanupSession,
         CleanupOnline, CleanupOffline, HandshakePending, UninstallAdd, End
    <3>. QED  BY <3>1, <3>2, <3>3, <3>4
  <2>4. ASSUME NEW d \in Conn, PeerStep(d)
        PROVE  pc[c] \in {"h_tomb", "h_store"} /\ seen[c] = "approved"
    BY <2>1, <2>4 DEF PeerStep, RegisterHello, HandshakeHello, UninstallHello,
       Receive, PeerDrop, Begin
  <2>5. CASE SetIdentity \/ AdminStep \/ DiscoveryStep \/ UNCHANGED vars
             \/ \E r \in Remover : RemoveStep(r)
    BY <2>5 DEF SetIdentity, AdminStep, Approve, Reject, DeleteAgent, RemoteUninstall,
       DecideUninstall, DiscoveryStep, DiscoverTomb, DiscoverStore, PruneDiscovered,
       RemoveStep, RemoveRecord, AddTombstone, vars
  <2>. QED  BY <2>3, <2>4, <2>5 DEF Next
<1>. QED  BY <1>1, <1>2, <1>3

\* What start-up guarantees is kept, and ends when the server learns its id.
LEMMA StartUpStep ==
  ASSUME IndInv, [Next]_vars
  PROVE  StartUp'
<1>1. TypeOK /\ WellFormed /\ HandlerRead /\ StartUp
  BY DEF IndInv
<1>2. ControlStep
  BY ControlCases
<1>3. ASSUME serverID' = NoServer, NEW c \in Conn, pc'[c] \in ShakePC
      PROVE  seen'[c] = "approved" <=> agents'[who'[c]].approval = "approved"
  <2>1. serverID = NoServer
    BY <1>3, ServerIDStep, ServerAssumption
  <2>2. \A b \in Agent : agents'[b].approval = "approved" <=> agents[b].approval = "approved"
    BY <2>1, Frozen
  <2> USE DEF ShakePC, RegisterPC, ServingPC
  <2>3. CASE pc[c] \in ShakePC /\ who'[c] = who[c] /\ seen'[c] = seen[c]
    BY <1>1, <2>1, <2>2, <2>3 DEF WellFormed, StartUp
  <2>4. CASE Starts(c)
    BY <1>1, <1>3, <2>2, <2>4 DEF Starts, Begin, Goto, TypeOK, ApprovalOf, Known
  <2>5. \/ pc[c] \in ShakePC /\ who'[c] = who[c] /\ seen'[c] = seen[c]
        \/ Starts(c)
    <3>1. pc \in [Conn -> PC] /\ who \in [Conn -> Agent \cup {None}]
          /\ seen \in [Conn -> Approvals]
      BY <1>1 DEF TypeOK
    <3>2. CASE UNCHANGED <<sessions, pc, who, seen, open>>
      BY <1>3, <3>2
    <3>3. ASSUME NEW d \in Conn, Starts(d), d # c
          PROVE  pc[c] \in ShakePC /\ who'[c] = who[c] /\ seen'[c] = seen[c]
      BY <1>3, <3>1, <3>3 DEF Starts, Begin, Goto
    <3>4. ASSUME NEW d \in Conn, Ends(d) \/ Advances(d)
          PROVE  pc[c] \in ShakePC /\ who'[c] = who[c] /\ seen'[c] = seen[c]
      BY <1>3, <3>1, <3>4 DEF Ends, Advances, End, Goto
    <3>5. ASSUME NEW d \in Conn, Serves(d) \/ Install(d) \/ CleanupSession(d)
          PROVE  pc[c] \in ShakePC /\ who'[c] = who[c] /\ seen'[c] = seen[c]
      BY <1>3, <3>1, <3>5 DEF Serves, Install, CleanupSession, Goto
    <3>. QED  BY <1>2, <3>2, <3>3, <3>4, <3>5 DEF ControlStep
  <2>. QED  BY <2>3, <2>4, <2>5
<1>4. ASSUME serverID' = NoServer PROVE disc' = None
  BY <1>4, ServerIDStep, ServerAssumption, DiscoveryIdle
<1>5. ASSUME NEW c \in Conn, pc'[c] \in {"h_tomb", "h_store"}, seen'[c] = "approved"
      PROVE  serverID' = MyID
  BY <1>5, PastBindingCheck, ServerIDStep
<1>. QED  BY <1>3, <1>4, <1>5 DEF StartUp

\* Only an administrator's approval makes an agent approved, and every approved
\* record keeps a binding.
LEMMA ApprovalStep ==
  ASSUME IndInv, [Next]_vars
  PROVE  OnlyAdminApproves' /\ ApprovedIsBound'
<1>1. /\ TypeOK /\ WellFormed /\ HandlerRead /\ StartUp /\ OnlyAdminApproves
      /\ ApprovedIsBound /\ ControlStep
  BY ControlCases DEF IndInv
<1>2. everApproved \subseteq everApproved'
  BY DEF Next, SetIdentity, HandlerStep, PeerStep, AdminStep, RemoveStep, DiscoveryStep,
     RegisterTomb, RegisterStore, Install, DispatchHeartbeat, DispatchOffline, ReadFails,
     CleanupSession, CleanupOnline, CleanupOffline, HandshakeGet, HandshakeTomb,
     HandshakeStore, HandshakePending, UninstallAdd, RegisterHello, HandshakeHello,
     UninstallHello, Receive, PeerDrop, Approve, Reject, DeleteAgent, RemoteUninstall,
     DecideUninstall, RemoveRecord, AddTombstone, DiscoverTomb, DiscoverStore,
     PruneDiscovered, vars, storeVars
<1>3. ASSUME NEW b \in Agent, agents'[b].approval = "approved"
      PROVE  b \in everApproved' /\ agents'[b].bound # NoServer
  <2>1. CASE agents[b].approval = "approved" /\ agents'[b].bound = agents[b].bound
    BY <1>1, <1>2, <2>1 DEF OnlyAdminApproves, ApprovedIsBound
  <2>2. CASE b \in everApproved' /\ agents'[b].bound = MyID
    BY <2>2, ServerAssumption
  <2>3. ASSUME NEW c \in Conn, pc[c] = "h_store", seen[c] = "approved", who[c] = b,
               agents'[b].bound = serverID
        PROVE  b \in everApproved' /\ agents'[b].bound # NoServer
    BY <1>1, <1>2, <2>3, ServerAssumption DEF OnlyAdminApproves, StartUp
  <2>. QED  BY <1>1, <1>3, <2>1, <2>2, <2>3, ApprovalOrigin
<1>4. ASSUME NEW c \in Conn, seen'[c] = "approved" PROVE who'[c] \in everApproved'
  <2>1. pc \in [Conn -> PC] /\ who \in [Conn -> Agent \cup {None}]
        /\ seen \in [Conn -> Approvals] /\ agents \in [Agent -> AgentRecord]
    BY <1>1 DEF TypeOK
  <2>2. CASE seen[c] = "approved" /\ who'[c] = who[c]
    BY <1>1, <1>2, <2>2 DEF OnlyAdminApproves
  <2>3. CASE \E a \in Agent : who'[c] = a /\ ApprovalOf(agents[a]) = "approved"
    BY <1>1, <1>2, <2>3 DEF OnlyAdminApproves, ApprovalOf, Known
  <2>4. \/ seen[c] = "approved" /\ who'[c] = who[c]
        \/ \E a \in Agent : who'[c] = a /\ ApprovalOf(agents[a]) = "approved"
    BY <1>1, <1>4, <2>1 DEF ControlStep, Starts, Ends, Advances, Serves, Install,
       CleanupSession, Begin, End, Goto
  <2>. QED  BY <2>2, <2>3, <2>4
<1>5. ASSUME NEW b \in Agent, sessions'[b] # None PROVE b \in everApproved'
  <2>1. sessions \in [Agent -> Conn \cup {None}]
    BY <1>1 DEF TypeOK
  <2>2. CASE sessions[b] # None
    BY <1>1, <1>2, <2>2 DEF OnlyAdminApproves
  <2>3. ASSUME NEW c \in Conn, Install(c), who[c] = b PROVE b \in everApproved'
    BY <1>1, <1>2, <2>3 DEF Install, HandlerRead, RegisterPC, OnlyAdminApproves
  <2>4. sessions[b] # None \/ \E c \in Conn : Install(c) /\ who[c] = b
    BY <1>1, <1>5, <2>1 DEF ControlStep, Starts, Ends, Advances, Serves, Install,
       CleanupSession
  <2>. QED  BY <2>2, <2>3, <2>4
<1>. QED  BY <1>3, <1>4, <1>5 DEF OnlyAdminApproves, ApprovedIsBound

-----------------------------------------------------------------------------
\* What the persisted files leave in the store satisfies the invariant.
LEMMA InitIndInv == Init => IndInv
<1> SUFFICES ASSUME Init PROVE IndInv
  OBVIOUS
<1> USE ServerAssumption, NoneAssumption DEF Init
<1>1. agents \in [Agent -> LoadedRecord] /\ LoadedRecord \subseteq AgentRecord
  BY NoAgentType DEF LoadedRecord
<1>2. TypeOK
  BY <1>1 DEF TypeOK, PC, RemovePC, Decisions, Approvals
<1>3. ApprovedIsBound
  BY <1>1 DEF ApprovedIsBound, LoadedRecord, NoAgent
<1>4. WellFormed /\ HandlerRead /\ SessionIsNewest /\ SessionAlive /\ OnlyAdminApproves
      /\ StartUp
  BY DEF WellFormed, HandlerRead, SessionIsNewest, SessionAlive, OnlyAdminApproves,
     StartUp, RegisterPC, ServingPC, CleanupPC, ShakePC
<1>5. RequestConsent /\ UninstallNeedsConsent
  BY DEF RequestConsent, UninstallNeedsConsent
<1>. QED  BY <1>2, <1>3, <1>4, <1>5 DEF IndInv

\* Every step keeps the invariant.
LEMMA NextIndInv == IndInv /\ [Next]_vars => IndInv'
<1> SUFFICES ASSUME IndInv, [Next]_vars PROVE IndInv'
  OBVIOUS
<1>1. TypeOK'
  BY TypeStep DEF IndInv
<1>2. HandlerRead' /\ WellFormed' /\ RequestConsent' /\ UninstallNeedsConsent'
  BY ControlCases, HandlerStepInv, RemoverStepInv DEF IndInv, WellFormed
<1>3. SessionIsNewest' /\ SessionAlive'
  BY ControlCases, SessionStepInv DEF IndInv
<1>. QED  BY <1>1, <1>2, <1>3, StartUpStep, ApprovalStep DEF IndInv

\* The inductive invariant holds in every reachable state.
THEOREM Invariance == Spec => []IndInv
  BY InitIndInv, NextIndInv, PTL DEF Spec

\* Every variable keeps its type.
THEOREM TypeCorrect == Spec => []TypeOK
<1>1. IndInv => TypeOK
  BY DEF IndInv
<1>. QED  BY <1>1, Invariance, PTL

\* The open connection of an agent holds its session: the session map of
\* agentconn.go survives every interleaving of reconnections and deferred cleanups.
THEOREM SessionSafety == Spec => []SessionIsNewest
<1>1. IndInv => SessionIsNewest
  BY DEF IndInv
<1>. QED  BY <1>1, Invariance, PTL

\* No session names a connection that has ended: what the cleanup of a
\* connection leaves in the map can still be sent to.
THEOREM SessionsAreAlive == Spec => []SessionAlive
<1>1. IndInv => SessionAlive
  BY DEF IndInv
<1>. QED  BY <1>1, Invariance, PTL

\* No agent is approved, holds a session or is told it is approved unless an
\* administrator approved it.
THEOREM ApprovalSafety == Spec => []OnlyAdminApproves
<1>1. IndInv => OnlyAdminApproves
  BY DEF IndInv
<1>. QED  BY <1>1, Invariance, PTL

\* An approved record is bound to a server.
THEOREM BindingSafety == Spec => []ApprovedIsBound
<1>1. IndInv => ApprovedIsBound
  BY DEF IndInv
<1>. QED  BY <1>1, Invariance, PTL

\* A record is removed as uninstalled only with an administrator's consent.
THEOREM UninstallSafety == Spec => []UninstallNeedsConsent
<1>1. IndInv => UninstallNeedsConsent
  BY DEF IndInv
<1>. QED  BY <1>1, Invariance, PTL
=============================================================================
