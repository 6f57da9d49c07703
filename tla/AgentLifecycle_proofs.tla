------------------------ MODULE AgentLifecycle_proofs ------------------------
(***************************************************************************)
(* Proofs about the life of one agent, in four parts that share no state:  *)
(* how it is bound to a server (AgentBinding), the frames it sends there   *)
(* (ControlChannel), the forwards opened on it (PortForward), and what the *)
(* server still knows of it after a restart (Persistence).  Each part has  *)
(* its own specification, inductive invariant and theorems, for all values *)
(* of that module's constants.                                             *)
(*                                                                         *)
(* AgentBinding.  The inductive invariant adds to BoundByApproval that a   *)
(* server that grants the agent now is one that approved it, and that the  *)
(* binding in memory is the one of the file: without the second, a restart *)
(* could bring back, and the next scan replace, another binding.           *)
(***************************************************************************)
EXTENDS AgentBinding, ControlChannel, PortForward, Persistence, FiniteSetTheorems, TLAPS

BindInv ==
  /\ \A s \in Server : view[s] = "approved" => s \in everGranted
  /\ boundId # None => boundId \in everGranted
  /\ file.boundId = boundId
  /\ approved => boundId # None
  /\ file.approved => file.boundId # None

BindIndInv == BindingTypeOK /\ BindInv

\* What BindingIsFinal says of one step.
FileKeeps == file.boundId # None => file'.boundId = file.boundId

BindStepGood == BindingTypeOK' /\ BindInv' /\ FileKeeps

-----------------------------------------------------------------------------
(* Address lists.                                                           *)

\* A list of the configuration, as ctc_config_load reads it.
LEMMA ConfiguredLists ==
  ASSUME NEW hs \in HostLists
  PROVE  hs \in Seq(Addr)
<1>1. PICK n \in 0 .. MaxHosts : hs \in [1 .. n -> Addr]
  BY DEF HostLists
<1>2. n \in Nat
  BY BindingAssumption
<1>. QED  BY <1>1, <1>2

\* Every address of a list, and the one that becomes server_host.
LEMMA HostFacts ==
  /\ \A hs \in HostSetting : hs \in Seq(Address) /\ FirstHost(hs) \in Address
  /\ \A a \in Address : <<a>> \in HostSetting
  /\ HostLists \subseteq HostSetting
<1>1. ASSUME NEW hs \in HostSetting PROVE hs \in Seq(Address)
  <2>1. CASE hs \in HostLists
    <3>1. hs \in Seq(Addr)
      BY <2>1, ConfiguredLists
    <3>2. Addr \subseteq Address
      BY DEF Address
    <3>. QED  BY <3>1, <3>2
  <2>2. CASE hs \notin HostLists
    <3>1. PICK a \in Address : hs = <<a>>
      BY <2>2 DEF HostSetting
    <3>. QED  BY <3>1
  <2>. QED  BY <2>1, <2>2
<1>2. ASSUME NEW hs \in Seq(Address) PROVE FirstHost(hs) \in Address
  <2>1. Loopback \in Address
    BY DEF Address
  <2>. QED  BY <2>1 DEF FirstHost
<1>. QED  BY <1>1, <1>2 DEF HostSetting

\* The answers to a broadcast, in some order.
LEMMA Orders ==
  ASSUME NEW heard \in SUBSET Server, NEW place \in [Server -> Addr],
         NEW q \in SetToSeqs({place[s] : s \in heard})
  PROVE  q \in Seq(Address)
<1>. DEFINE A == {place[s] : s \in heard}
<1>1. IsFiniteSet(heard)
  BY BindingAssumption, FS_Subset
<1>2. IsFiniteSet(A)
  <2>. DEFINE f == [s \in heard |-> place[s]]
  <2>1. f \in Surjection(heard, A)
    BY DEF Surjection
  <2>. HIDE DEF f, A
  <2>. QED  BY <1>1, <2>1, FS_Surjection
<1>3. Cardinality(A) \in Nat
  BY <1>2, FS_CardinalityType
<1>4. q \in [1 .. Cardinality(A) -> A]
  BY DEF SetToSeqs
<1>5. A \subseteq Address
  BY DEF Address
<1>. HIDE DEF A
<1>6. q \in Seq(A)
  BY <1>3, <1>4
<1>. QED  BY <1>5, <1>6

-----------------------------------------------------------------------------
(* The handshake.                                                           *)

\* A server that grants the agent is one that has approved it.
LEMMA GrantFacts ==
  ASSUME BindIndInv, NEW a, Granted(Handshake(a))
  PROVE  Handshake(a).id \in Server /\ Handshake(a).id \in everGranted
<1>1. ServersAt(a) # {}
  BY DEF Granted, Handshake
<1>2. PICK s : s = CHOOSE t \in ServersAt(a) : TRUE
  OBVIOUS
<1>3. s \in ServersAt(a)
  BY <1>1, <1>2
<1>4. Handshake(a) = [rc |-> IF view[s] = "approved" THEN "approved" ELSE "pending", id |-> s]
  BY <1>1, <1>2 DEF Handshake
<1>5. view[s] = "approved" /\ Handshake(a).id = s /\ s \in Server
  BY <1>3, <1>4 DEF Granted, ServersAt
<1>. QED  BY <1>5 DEF BindIndInv, BindInv

\* The server's record of the agent after the handshake.
LEMMA IntroduceFacts ==
  ASSUME BindIndInv, NEW a, Introduce(a)
  PROVE  /\ view' \in [Server -> {"unknown", "pending", "approved", "rejected"}]
         /\ \A s \in Server : view'[s] = "approved" => s \in everGranted
<1>1. /\ view \in [Server -> {"unknown", "pending", "approved", "rejected"}]
      /\ \A s \in Server : view[s] = "approved" => s \in everGranted
  BY DEF BindIndInv, BindingTypeOK, BindInv
<1>. QED  BY <1>1 DEF Introduce

\* A scan that binds the agent.
LEMMA BindGood ==
  ASSUME BindIndInv, NEW a, NEW h \in Address, Introduce(a),
         Granted(Handshake(a)), Accepts(Handshake(a).id), Bind(Handshake(a).id, h),
         UNCHANGED <<loc, adv, peer, faults, everGranted>>
  PROVE  BindStepGood
<1>. DEFINE s == Handshake(a).id
<1>1. s \in Server /\ s \in everGranted
  BY GrantFacts
<1>2. s # None
  BY <1>1, BindingAssumption
<1>3. /\ view' \in [Server -> {"unknown", "pending", "approved", "rejected"}]
      /\ \A t \in Server : view'[t] = "approved" => t \in everGranted
  BY IntroduceFacts
<1>4. Bind(s, h) /\ Accepts(s)
  OBVIOUS
<1>. HIDE DEF s
<1>5. BindingTypeOK /\ BindInv
  BY DEF BindIndInv
<1>6. adv[s] \in Address /\ <<h>> \in HostSetting
  BY <1>1, <1>5, HostFacts DEF BindingTypeOK
<1>7. file' \in File /\ file'.boundId = s /\ boundId' = s
  BY <1>1, <1>4, <1>6 DEF Bind, File
<1>8. BindingTypeOK'
  BY <1>1, <1>3, <1>4, <1>5, <1>6, <1>7 DEF BindingTypeOK, Bind
<1>9. BindInv'
  BY <1>1, <1>2, <1>3, <1>4, <1>7 DEF BindInv, Bind
<1>10. FileKeeps
  BY <1>4, <1>5, <1>7 DEF FileKeeps, BindInv, Accepts
<1>. QED  BY <1>8, <1>9, <1>10 DEF BindStepGood

\* A step of a scan that binds nobody.
LEMMA GotoGood ==
  ASSUME BindIndInv, Introduce(boundIp) \/ Introduce(Head(cand)) \/ UNCHANGED view,
         NEW p \in {"scan", "lan", "candidates", "fallback"}, Goto(p), cand' \in Seq(Address),
         UNCHANGED <<loc, adv, peer, everGranted>>, faults' \in 0 .. MaxFaults
  PROVE  BindStepGood
<1>1. BindingTypeOK /\ BindInv
  BY DEF BindIndInv
<1>2. /\ view' \in [Server -> {"unknown", "pending", "approved", "rejected"}]
      /\ \A t \in Server : view'[t] = "approved" => t \in everGranted
  <2>1. CASE UNCHANGED view
    BY <1>1, <2>1 DEF BindingTypeOK, BindInv
  <2>. QED  BY <2>1, IntroduceFacts
<1>3. BindingTypeOK'
  BY <1>1, <1>2 DEF BindingTypeOK, Goto, cfg
<1>. QED  BY <1>1, <1>2, <1>3 DEF BindInv, Goto, cfg, BindStepGood, FileKeeps
-----------------------------------------------------------------------------
(* The steps.                                                               *)

\* A bound agent asks the address of its binding: only that server's grant binds.
LEMMA VerifyBoundGood ==
  ASSUME BindIndInv, VerifyBound
  PROVE  BindStepGood
<1>0. BindingTypeOK
  BY DEF BindIndInv
<1>1. host \in Address /\ cand \in Seq(Address) /\ <<>> \in Seq(Address) /\ faults \in 0 .. MaxFaults
  BY <1>0 DEF BindingTypeOK
<1>2. PICK answer : answer = Handshake(boundIp)
  OBVIOUS
<1>3. /\ Introduce(boundIp)
      /\ \/ Goto("lan") /\ UNCHANGED cand
         \/ Goto("scan") /\ cand' = <<>>
         \/ Granted(answer) /\ Accepts(answer.id) /\ Bind(answer.id, host)
      /\ UNCHANGED <<loc, adv, peer, faults, everGranted>>
  BY <1>2 DEF VerifyBound, ScanAgain
<1>4. CASE Granted(answer) /\ Accepts(answer.id) /\ Bind(answer.id, host)
  BY <1>1, <1>2, <1>3, <1>4, BindGood
<1>5. CASE Goto("lan") /\ UNCHANGED cand
  BY <1>1, <1>3, <1>5, GotoGood
<1>6. CASE Goto("scan") /\ cand' = <<>>
  BY <1>1, <1>3, <1>6, GotoGood
<1>. QED  BY <1>3, <1>4, <1>5, <1>6

\* An agent without a binding goes straight to the broadcast.
LEMMA SkipVerifyGood ==
  ASSUME BindIndInv, SkipVerify
  PROVE  BindStepGood
<1>1. cand \in Seq(Address) /\ faults \in 0 .. MaxFaults
  BY DEF BindIndInv, BindingTypeOK
<1>2. Goto("lan") /\ UNCHANGED view /\ cand' \in Seq(Address) /\ faults' \in 0 .. MaxFaults
      /\ UNCHANGED <<loc, adv, peer, everGranted>>
  BY <1>1 DEF SkipVerify, world
<1>. QED  BY <1>2, GotoGood

\* scan_lan lists the servers that answer; it binds nothing.
LEMMA ScanLanGood ==
  ASSUME BindIndInv, ScanLan
  PROVE  BindStepGood
<1>0. BindingTypeOK
  BY DEF BindIndInv
<1>1. PICK heard \in SUBSET Server :
       /\ heard # Server => faults < MaxFaults
       /\ faults' = IF heard = Server THEN faults ELSE faults + 1
       /\ IF heard = {} THEN pc' = "fallback" /\ cand' = hosts
                        ELSE pc' = "candidates"
                             /\ cand' \in SetToSeqs({loc[s] : s \in heard})
  BY DEF ScanLan
<1>2. faults \in 0 .. MaxFaults /\ hosts \in HostSetting /\ loc \in [Server -> Addr]
  BY <1>0 DEF BindingTypeOK
<1>3. faults' \in 0 .. MaxFaults
  BY <1>1, <1>2, BindingAssumption
<1>4. cand' \in Seq(Address)
  <2>1. CASE heard = {}
    BY <1>1, <1>2, <2>1, HostFacts
  <2>2. CASE heard # {}
    BY <1>1, <1>2, <2>2, Orders
  <2>. QED  BY <2>1, <2>2
<1>5. PICK p \in {"candidates", "fallback"} : Goto(p)
  BY <1>1 DEF ScanLan, Goto
<1>6. UNCHANGED view /\ UNCHANGED <<loc, adv, peer, everGranted>>
  BY DEF ScanLan, world
<1>. QED  BY <1>3, <1>4, <1>5, <1>6, GotoGood

\* A candidate is tried: the file is written only by an approving answer.
LEMMA TryCandidateGood ==
  ASSUME BindIndInv, TryCandidate
  PROVE  BindStepGood
<1>1. /\ cand \in Seq(Address) /\ cand # <<>> /\ faults \in 0 .. MaxFaults
  BY DEF BindIndInv, BindingTypeOK, TryCandidate
<1>2. Head(cand) \in Address /\ Tail(cand) \in Seq(Address)
  BY <1>1
<1>3. PICK answer : answer = Handshake(Head(cand))
  OBVIOUS
<1>4. /\ Introduce(Head(cand))
      /\ \/ Granted(answer) /\ Accepts(answer.id) /\ Bind(answer.id, Head(cand))
         \/ Goto("candidates") /\ cand' = Tail(cand)
      /\ UNCHANGED <<loc, adv, peer, faults, everGranted>>
  BY <1>3 DEF TryCandidate
<1>5. CASE Granted(answer) /\ Accepts(answer.id) /\ Bind(answer.id, Head(cand))
  BY <1>2, <1>3, <1>4, <1>5, BindGood
<1>6. CASE Goto("candidates") /\ cand' = Tail(cand)
  BY <1>1, <1>2, <1>4, <1>6, GotoGood
<1>. QED  BY <1>4, <1>5, <1>6

\* An address of the configured list is tried like a candidate.
LEMMA TryFallbackGood ==
  ASSUME BindIndInv, TryFallback
  PROVE  BindStepGood
<1>1. /\ cand \in Seq(Address) /\ cand # <<>> /\ faults \in 0 .. MaxFaults /\ host \in Address
      /\ <<>> \in Seq(Address)
  BY DEF BindIndInv, BindingTypeOK, TryFallback
<1>2. Tail(cand) \in Seq(Address)
  BY <1>1
<1>3. PICK answer : answer = Handshake(Head(cand))
  OBVIOUS
<1>4. /\ Introduce(Head(cand))
      /\ \/ Granted(answer) /\ Accepts(answer.id) /\ Bind(answer.id, host)
         \/ Goto("scan") /\ cand' = <<>>
         \/ Goto("fallback") /\ cand' = Tail(cand)
      /\ UNCHANGED <<loc, adv, peer, faults, everGranted>>
  BY <1>3 DEF TryFallback, ScanAgain
<1>5. CASE Granted(answer) /\ Accepts(answer.id) /\ Bind(answer.id, host)
  BY <1>1, <1>3, <1>4, <1>5, BindGood
<1>6. CASE Goto("scan") /\ cand' = <<>>
  BY <1>1, <1>4, <1>6, GotoGood
<1>7. CASE Goto("fallback") /\ cand' = Tail(cand)
  BY <1>1, <1>2, <1>4, <1>7, GotoGood
<1>. QED  BY <1>4, <1>5, <1>6, <1>7

\* A scan that ends without a grant starts again.
LEMMA ScanFailsGood ==
  ASSUME BindIndInv, ScanFails
  PROVE  BindStepGood
<1>1. faults \in 0 .. MaxFaults /\ <<>> \in Seq(Address)
  BY DEF BindIndInv, BindingTypeOK
<1>2. Goto("scan") /\ UNCHANGED view /\ cand' \in Seq(Address) /\ faults' \in 0 .. MaxFaults
      /\ UNCHANGED <<loc, adv, peer, everGranted>>
  BY <1>1 DEF ScanFails, ScanAgain, world
<1>. QED  BY <1>2, GotoGood

\* A step that keeps the binding: the connection, its loss, a registration that
\* failed and was saved, a change of the address, a move or a decision of a server.
LEMMA BindKeepGood ==
  ASSUME BindIndInv,
         view' \in [Server -> {"unknown", "pending", "approved", "rejected"}],
         \A s \in Server : view'[s] = "approved" => s \in everGranted',
         everGranted \subseteq everGranted', everGranted' \subseteq Server,
         loc' \in [Server -> Addr], adv' \in [Server -> Address],
         pc' \in {"scan", "connect", "register", "served"} \/ pc' = pc,
         peer' \in Server \cup {None}, faults' \in 0 .. MaxFaults, host' \in Address,
         approved' = FALSE \/ approved' = approved, UNCHANGED <<hosts, boundId, boundIp, cand>>,
         \/ file' = file
         \/ \E h \in Address : file' = [hosts |-> <<h>>, boundId |-> boundId, boundIp |-> boundIp,
                                        approved |-> approved']
  PROVE  BindStepGood
<1>1. BindingTypeOK /\ BindInv
  BY DEF BindIndInv
<1>2. /\ boundId \in Server \cup {None} /\ boundIp \in Address \cup {None} /\ approved \in BOOLEAN
      /\ file \in File /\ approved' \in BOOLEAN
  BY <1>1 DEF BindingTypeOK
<1>3. /\ file' \in File /\ file'.boundId = boundId
      /\ file'.approved = file.approved \/ file'.approved = approved'
  <2>1. CASE file' = file
    BY <1>1, <1>2, <2>1 DEF BindInv
  <2>2. CASE file' # file
    <3>1. PICK h \in Address : file' = [hosts |-> <<h>>, boundId |-> boundId, boundIp |-> boundIp,
                                        approved |-> approved']
      BY <2>2
    <3>2. <<h>> \in HostSetting
      BY HostFacts
    <3>. QED  BY <1>2, <3>1, <3>2 DEF File
  <2>. QED  BY <2>1, <2>2
<1>4. BindingTypeOK'
  BY <1>1, <1>2, <1>3 DEF BindingTypeOK
<1>5. BindInv'
  BY <1>1, <1>2, <1>3 DEF BindInv
<1>6. FileKeeps
  BY <1>1, <1>3 DEF FileKeeps, BindInv
<1>. QED  BY <1>4, <1>5, <1>6 DEF BindStepGood

\* Connecting, registering and a new address in the configuration bind nobody.
LEMMA ServedGood ==
  ASSUME BindIndInv, Connect \/ Register \/ \E a \in Addr : ConfigSetHost(a)
  PROVE  BindStepGood
<1>1. BindingTypeOK /\ BindInv
  BY DEF BindIndInv
<1>2. host \in Address /\ peer \in Server \cup {None} /\ Addr \subseteq Address
  BY <1>1 DEF BindingTypeOK, Address
<1>3. /\ peer' \in Server \cup {None} /\ host' \in Address
      /\ pc' \in {"scan", "connect", "register", "served"} \/ pc' = pc
      /\ approved' = FALSE \/ approved' = approved
      /\ UNCHANGED <<world, hosts, boundId, boundIp, cand, faults, everGranted>>
      /\ \/ file' = file
         \/ \E h \in Address : file' = [hosts |-> <<h>>, boundId |-> boundId, boundIp |-> boundIp,
                                        approved |-> approved']
  <2>1. CASE Connect
    BY <1>2, <2>1 DEF Connect, ServersAt
  <2>2. CASE Register
    BY <1>2, <2>2 DEF Register, Saved
  <2>3. CASE \E a \in Addr : ConfigSetHost(a)
    <3>1. PICK a \in Addr : ConfigSetHost(a)
      BY <2>3
    <3>. QED  BY <1>2, <3>1 DEF ConfigSetHost
  <2>. QED  BY <2>1, <2>2, <2>3
<1>. QED  BY <1>1, <1>3, BindKeepGood DEF BindingTypeOK, BindInv, world

\* What the end of a connection leaves: the binding in the file stays.
LEMMA DisconnectedFacts ==
  ASSUME BindIndInv, Disconnected \/ UNCHANGED <<peer, pc, approved, file>>
  PROVE  /\ peer' \in Server \cup {None}
         /\ pc' \in {"scan", "connect"} \/ pc' = pc
         /\ approved' = FALSE \/ approved' = approved
         /\ \/ file' = file
            \/ file' = [hosts |-> <<host>>, boundId |-> boundId, boundIp |-> boundIp,
                        approved |-> approved']
<1>1. peer \in Server \cup {None}
  BY DEF BindIndInv, BindingTypeOK
<1>. QED  BY <1>1 DEF Disconnected, Saved

\* Lost connections, restarted and moved servers do not change the binding.
LEMMA FaultGood ==
  ASSUME BindIndInv,
         \/ LoseConnection
         \/ \E s \in Server : RestartServer(s) \/ \E a \in Addr : MoveServer(s, a)
  PROVE  BindStepGood
<1>1. BindingTypeOK /\ BindInv
  BY DEF BindIndInv
<1>2. /\ Disconnected \/ UNCHANGED <<peer, pc, approved, file>>
      /\ UNCHANGED <<view, hosts, host, boundId, boundIp, cand, everGranted>>
      /\ loc' \in [Server -> Addr] /\ adv' \in [Server -> Address]
      /\ faults < MaxFaults /\ faults' = faults + 1
  <2>0. loc \in [Server -> Addr] /\ adv \in [Server -> Address]
    BY <1>1 DEF BindingTypeOK
  <2>1. CASE LoseConnection
    BY <2>0, <2>1 DEF LoseConnection, Fault, world
  <2>2. ASSUME NEW s \in Server, RestartServer(s)
        PROVE  /\ Disconnected \/ UNCHANGED <<peer, pc, approved, file>>
               /\ UNCHANGED <<loc, view, hosts, host, boundId, boundIp, cand, everGranted>>
               /\ adv' \in [Server -> Address]
               /\ faults < MaxFaults /\ faults' = faults + 1
    BY <2>0, <2>2 DEF RestartServer, Fault, Address
  <2>3. ASSUME NEW s \in Server, NEW a \in Addr, MoveServer(s, a)
        PROVE  /\ Disconnected \/ UNCHANGED <<peer, pc, approved, file>>
               /\ UNCHANGED <<adv, view, hosts, host, boundId, boundIp, cand, everGranted>>
               /\ loc' \in [Server -> Addr]
               /\ faults < MaxFaults /\ faults' = faults + 1
    BY <2>0, <2>3 DEF MoveServer, Fault
  <2>. QED  BY <2>0, <2>1, <2>2, <2>3
<1>3. /\ peer' \in Server \cup {None}
      /\ pc' \in {"scan", "connect"} \/ pc' = pc
      /\ approved' = FALSE \/ approved' = approved
      /\ \/ file' = file
         \/ file' = [hosts |-> <<host>>, boundId |-> boundId, boundIp |-> boundIp,
                     approved |-> approved']
  BY <1>2, DisconnectedFacts
<1>4. faults' \in 0 .. MaxFaults
  BY <1>1, <1>2, BindingAssumption DEF BindingTypeOK
<1>. QED  BY <1>1, <1>2, <1>3, <1>4, BindKeepGood DEF BindingTypeOK, BindInv

\* The administrator decides on the server's side; an approval is remembered.
LEMMA DecideGood ==
  ASSUME BindIndInv, NEW s \in Server, NEW d \in {"approved", "rejected"}, Decide(s, d)
  PROVE  BindStepGood
<1>1. BindingTypeOK /\ BindInv
  BY DEF BindIndInv
<1>2. /\ view' \in [Server -> {"unknown", "pending", "approved", "rejected"}]
      /\ \A t \in Server : view'[t] = "approved" => t \in everGranted'
      /\ everGranted \subseteq everGranted' /\ everGranted' \subseteq Server
  BY <1>1 DEF BindingTypeOK, BindInv, Decide
<1>. QED  BY <1>1, <1>2, BindKeepGood DEF BindingTypeOK, Decide, cfg

\* A restarted agent reads its binding back from the file.
LEMMA RestartAgentGood ==
  ASSUME BindIndInv, RestartAgent
  PROVE  BindStepGood
<1>1. BindingTypeOK /\ BindInv
  BY DEF BindIndInv
<1>2. /\ file.hosts \in HostSetting /\ file.boundId \in Server \cup {None}
      /\ file.boundIp \in Address \cup {None} /\ file.approved \in BOOLEAN
  BY <1>1 DEF BindingTypeOK, File
<1>3. FirstHost(file.hosts) \in Address
  BY <1>2, HostFacts
<1>4. faults' \in 0 .. MaxFaults
  BY <1>1, BindingAssumption DEF RestartAgent, Fault, BindingTypeOK
<1>5. BindingTypeOK'
  BY <1>1, <1>2, <1>3, <1>4 DEF BindingTypeOK, RestartAgent, world
<1>6. BindInv'
  BY <1>1 DEF BindInv, RestartAgent, world
<1>. QED  BY <1>5, <1>6 DEF BindStepGood, FileKeeps, RestartAgent

-----------------------------------------------------------------------------
(* The theorems.                                                            *)

\* The agent starts unbound, in memory and in its file.
LEMMA BindInitIndInv ==
  ASSUME BindingInit
  PROVE  BindIndInv
<1>1. hosts \in HostSetting /\ host \in Address /\ 0 \in 0 .. MaxFaults
  BY HostFacts, BindingAssumption DEF BindingInit
<1>2. file \in File
  BY <1>1 DEF BindingInit, File
<1>3. /\ loc \in [Server -> Addr] /\ adv \in [Server -> Address]
      /\ view \in [Server -> {"unknown", "pending", "approved", "rejected"}]
      /\ cand \in Seq(Address)
  BY DEF BindingInit
<1>4. /\ pc = "scan" /\ boundId = None /\ boundIp = None /\ approved = FALSE /\ peer = None
      /\ faults = 0 /\ everGranted = {}
  BY DEF BindingInit
<1>5. BindingTypeOK
  BY <1>1, <1>2, <1>3, <1>4 DEF BindingTypeOK
<1>6. BindInv
  BY DEF BindingInit, BindInv
<1>. QED  BY <1>5, <1>6 DEF BindIndInv

\* Every step keeps the invariant and a binding once made.
LEMMA BindNextGood ==
  ASSUME BindIndInv, BindingNext
  PROVE  BindStepGood
<1>1. CASE AgentStep
  BY <1>1, VerifyBoundGood, SkipVerifyGood, ScanLanGood, TryCandidateGood, TryFallbackGood,
     ScanFailsGood, ServedGood DEF AgentStep
<1>2. CASE ~AgentStep
  BY <1>2, ServedGood, FaultGood, DecideGood, RestartAgentGood DEF BindingNext
<1>. QED  BY <1>1, <1>2

\* The inductive invariant holds in every state of the agent's connection loop.
THEOREM BindingInvariance == BindingSpec => []BindIndInv
<1>1. BindingInit => BindIndInv
  BY BindInitIndInv
<1>2. BindIndInv /\ [BindingNext]_bindingVars => BindIndInv'
  <2>1. CASE BindingNext
    BY <2>1, BindNextGood DEF BindStepGood, BindIndInv
  <2>2. CASE UNCHANGED bindingVars
    BY <2>2 DEF BindIndInv, BindingTypeOK, BindInv, bindingVars
  <2>. QED  BY <2>1, <2>2
<1>. QED  BY <1>1, <1>2, PTL DEF BindingSpec

\* Type correctness of ctc_conn_run, the scan and the configuration file.
THEOREM BindingTypeCorrect == BindingSpec => []BindingTypeOK
<1>1. BindIndInv => BindingTypeOK
  BY DEF BindIndInv
<1>. QED  BY <1>1, BindingInvariance, PTL

\* ctc_conn_run binds the agent to no server whose administrator has not
\* approved it, and writes no such binding to the file.
THEOREM ApprovalSafety == BindingSpec => []BoundByApproval
<1>1. BindIndInv => BoundByApproval
  BY DEF BindIndInv, BindInv, BoundByApproval
<1>. QED  BY <1>1, BindingInvariance, PTL

\* No scan, failed registration, move of a server or restart of the agent puts
\* another server id in the file.
THEOREM BindingStays == BindingSpec => BindingIsFinal
<1>1. BindIndInv /\ [BindingNext]_bindingVars => [FileKeeps]_bindingVars
  BY BindNextGood DEF BindStepGood
<1>. QED  BY <1>1, BindingInvariance, PTL DEF BindingSpec, BindingIsFinal, FileKeeps
-----------------------------------------------------------------------------
(* Frames on the control connection.  A length on the wire is followed by   *)
(* its body with no piece of a thread under the same lock in between; or    *)
(* there is no such piece after it at all, and its thread is about to write *)
(* the body or the connection is broken and nothing is written any more.    *)

SameLock(t, u) == LockOf(t) = LockOf(u)

\* Pieces first to last of the wire w hold none of another thread under t's lock.
NoneBetween(w, t, first, last) ==
  \A k \in first .. last : w[k].from # t => ~SameLock(w[k].from, t)

Completed(w, i) ==
  \E j \in i + 1 .. Len(w) : /\ w[j] = [from |-> w[i].from, part |-> "body"]
                             /\ NoneBetween(w, w[i].from, i + 1, j - 1)

Pending(w, i) == NoneBetween(w, w[i].from, i + 1, Len(w))

LockedLength(w, i) == w[i].part = "length" /\ LockOf(w[i].from) # Nobody

Exclusive == \A t \in Thread : (tpc[t] # "idle" /\ LockOf(t) # Nobody) => owner[LockOf(t)] = t

FramesInv ==
  \A i \in 1 .. Len(wire) :
    LockedLength(wire, i) =>
      \/ Completed(wire, i)
      \/ Pending(wire, i) /\ (broken \/ tpc[wire[i].from] = "body")

ChannelInv == ChannelTypeOK /\ wire \in Seq(Piece) /\ Exclusive /\ FramesInv

\* The lock of a thread that locks at all is one of the locks.
LEMMA LockOfFacts ==
  ASSUME NEW t \in Thread, LockOf(t) # Nobody
  PROVE  LockOf(t) \in Lock
BY DEF LockOf, Lock, Thread

\* While no write has failed, a frame another thread has begun under the lock of a
\* thread that is sending is complete.
LEMMA OthersCompleted ==
  ASSUME ChannelInv, ~broken, NEW t \in Thread, tpc[t] # "idle",
         NEW i \in 1 .. Len(wire), LockedLength(wire, i), SameLock(wire[i].from, t),
         wire[i].from # t \/ tpc[t] # "body"
  PROVE  Completed(wire, i)
<1>0. wire[i] \in Piece
  BY DEF ChannelInv
<1>1. PICK u \in Thread : u = wire[i].from
  BY <1>0 DEF Piece
<1>2. LockOf(u) # Nobody /\ LockOf(t) = LockOf(u)
  BY <1>1 DEF LockedLength, SameLock
<1>3. SUFFICES ASSUME tpc[u] = "body" PROVE FALSE
  BY <1>1 DEF ChannelInv, FramesInv
<1>4. owner[LockOf(t)] = t /\ owner[LockOf(u)] = u
  BY <1>2, <1>3 DEF ChannelInv, Exclusive
<1>. QED  BY <1>1, <1>2, <1>3, <1>4

\* What a piece at the end of the wire leaves of the frames before it.
LEMMA AppendKeeps ==
  ASSUME NEW w \in Seq(Piece), NEW p \in Piece, NEW i \in 1 .. Len(w)
  PROVE  /\ LockedLength(Append(w, p), i) = LockedLength(w, i)
         /\ Append(w, p)[i] = w[i]
         /\ Completed(w, i) => Completed(Append(w, p), i)
         /\ (Pending(w, i) /\ ~(p.from # w[i].from /\ SameLock(p.from, w[i].from)))
              => Pending(Append(w, p), i)
         /\ (Pending(w, i) /\ p = [from |-> w[i].from, part |-> "body"])
              => Completed(Append(w, p), i)
<1>1. PICK v : v = Append(w, p)
  OBVIOUS
<1>2. /\ Len(w) \in Nat /\ i \in Nat /\ Len(v) = Len(w) + 1 /\ v[Len(w) + 1] = p
      /\ \A k \in 1 .. Len(w) : v[k] = w[k]
  BY <1>1
<1>3. v[i] = w[i]
  BY <1>2
<1>4. ASSUME Completed(w, i) PROVE Completed(v, i)
  <2>1. PICK j \in i + 1 .. Len(w) : /\ w[j] = [from |-> w[i].from, part |-> "body"]
                                     /\ NoneBetween(w, w[i].from, i + 1, j - 1)
    BY <1>4 DEF Completed
  <2>2. j \in i + 1 .. Len(v) /\ v[j] = w[j]
    BY <2>1, <1>2
  <2>3. NoneBetween(v, v[i].from, i + 1, j - 1)
    BY <2>1, <1>2, <1>3 DEF NoneBetween
  <2>. QED  BY <2>1, <2>2, <2>3, <1>3 DEF Completed
<1>5. ASSUME Pending(w, i), ~(p.from # w[i].from /\ SameLock(p.from, w[i].from))
      PROVE  Pending(v, i)
  <2>1. SUFFICES ASSUME NEW k \in i + 1 .. Len(v), v[k].from # v[i].from
                 PROVE  ~SameLock(v[k].from, v[i].from)
    BY DEF Pending, NoneBetween
  <2>2. CASE k = Len(w) + 1
    BY <2>1, <2>2, <1>2, <1>3, <1>5
  <2>3. CASE k # Len(w) + 1
    <3>1. k \in i + 1 .. Len(w) /\ v[k] = w[k]
      BY <2>3, <1>2
    <3>. QED  BY <3>1, <2>1, <1>3, <1>5 DEF Pending, NoneBetween
  <2>. QED  BY <2>2, <2>3
<1>6. ASSUME Pending(w, i), p = [from |-> w[i].from, part |-> "body"]
      PROVE  Completed(v, i)
  <2>1. Len(w) + 1 \in i + 1 .. Len(v) /\ v[Len(w) + 1] = [from |-> v[i].from, part |-> "body"]
    BY <1>2, <1>3, <1>6
  <2>2. NoneBetween(v, v[i].from, i + 1, Len(w) + 1 - 1)
    BY <1>2, <1>3, <1>6 DEF Pending, NoneBetween
  <2>. QED  BY <2>1, <2>2 DEF Completed
<1>7. LockedLength(v, i) = LockedLength(w, i)
  BY <1>3 DEF LockedLength
<1>. QED  BY <1>1, <1>3, <1>4, <1>5, <1>6, <1>7

\* A piece that its thread writes while it sends keeps the frames apart.
LEMMA AppendFrames ==
  ASSUME ChannelInv, ~broken, NEW t \in Thread, NEW part \in {"length", "body"}, tpc[t] = part,
         wire' = Append(wire, [from |-> t, part |-> part]), broken' = broken,
         tpc' = [tpc EXCEPT ![t] = IF part = "length" THEN "body" ELSE "unlock"]
  PROVE  wire' \in Seq(Piece) /\ FramesInv'
<1>1. PICK p \in Piece : p = [from |-> t, part |-> part]
  BY DEF Piece
<1>2. p.from = t /\ p.part = part /\ wire' = Append(wire, p) /\ wire \in Seq(Piece)
  BY <1>1 DEF ChannelInv
<1>3. wire' \in Seq(Piece) /\ Len(wire') = Len(wire) + 1 /\ wire'[Len(wire) + 1] = p
  BY <1>2
<1>4. SUFFICES ASSUME NEW i \in 1 .. Len(wire'), LockedLength(wire', i)
               PROVE  \/ Completed(wire', i)
                      \/ Pending(wire', i) /\ tpc'[wire'[i].from] = "body"
  BY <1>3 DEF FramesInv
<1>5. CASE i = Len(wire) + 1
  <2>1. wire'[i] = p /\ part = "length"
    BY <1>2, <1>3, <1>4, <1>5 DEF LockedLength
  <2>2. tpc'[t] = "body"
    BY <2>1 DEF ChannelInv, ChannelTypeOK
  <2>3. Pending(wire', i)
    BY <1>2, <1>3, <1>5 DEF Pending, NoneBetween
  <2>. QED  BY <1>2, <2>1, <2>2, <2>3
<1>6. CASE i # Len(wire) + 1
  <2>1. i \in 1 .. Len(wire)
    BY <1>2, <1>3, <1>6
  <2>2. LockedLength(wire, i) /\ wire'[i] = wire[i]
    BY <1>2, <1>4, <2>1, AppendKeeps
  <2>3. CASE SameLock(wire[i].from, t) /\ (wire[i].from # t \/ part # "body")
    <3>1. Completed(wire, i)
      BY <2>1, <2>2, <2>3, OthersCompleted
    <3>. QED  BY <1>2, <2>1, <3>1, AppendKeeps
  <2>4. CASE wire[i].from = t /\ part = "body"
    <3>1. CASE Completed(wire, i)
      BY <1>2, <2>1, <3>1, AppendKeeps
    <3>2. CASE Pending(wire, i)
      BY <1>1, <1>2, <2>1, <2>4, <3>2, AppendKeeps
    <3>. QED  BY <2>1, <2>2, <3>1, <3>2 DEF ChannelInv, FramesInv
  <2>5. CASE ~SameLock(wire[i].from, t)
    <3>1. CASE Completed(wire, i)
      BY <1>2, <2>1, <3>1, AppendKeeps
    <3>2. CASE Pending(wire, i) /\ tpc[wire[i].from] = "body"
      <4>1. ~SameLock(p.from, wire[i].from)
        BY <1>2, <2>5 DEF SameLock
      <4>2. Pending(wire', i)
        BY <1>2, <2>1, <3>2, <4>1, AppendKeeps
      <4>3. wire[i] \in Piece /\ wire[i].from # t
        BY <1>2, <2>1, <2>5 DEF SameLock
      <4>4. tpc'[wire[i].from] = "body"
        <5>1. wire[i].from \in Thread
          BY <4>3 DEF Piece
        <5>. QED  BY <3>2, <4>3, <5>1 DEF ChannelInv, ChannelTypeOK
      <4>. QED  BY <2>2, <4>2, <4>4
    <3>. QED  BY <2>1, <2>2, <3>1, <3>2 DEF ChannelInv, FramesInv
  <2>. QED  BY <2>3, <2>4, <2>5 DEF SameLock
<1>. QED  BY <1>5, <1>6

\* A thread takes its lock when nobody has it.
LEMMA BeginStep ==
  ASSUME ChannelInv, NEW t \in Thread, Begin(t)
  PROVE  ChannelInv'
<1>1. tpc[t] = "idle" /\ left[t] > 0 /\ (LockOf(t) # Nobody => owner[LockOf(t)] = Nobody)
  BY DEF Begin
<1>2. /\ owner' = IF LockOf(t) # Nobody THEN [owner EXCEPT ![LockOf(t)] = t] ELSE owner
      /\ tpc' = [tpc EXCEPT ![t] = "length"] /\ left' = [left EXCEPT ![t] = @ - 1]
      /\ wire' = wire /\ reading' = reading /\ broken' = broken
  BY DEF Begin
<1>3. /\ tpc \in [Thread -> {"idle", "length", "body", "unlock"}]
      /\ owner \in [Lock -> Thread \cup {Nobody}] /\ left \in [Thread -> 0 .. MaxFrames]
      /\ MaxFrames \in Nat /\ Nobody \notin Thread
  BY ChannelAssumption DEF ChannelInv, ChannelTypeOK, Thread
<1>4. \A l \in Lock, u \in Thread : owner[l] = u => (LockOf(u) = l /\ tpc[u] # "idle")
  BY DEF ChannelInv, ChannelTypeOK
<1>5. LockOf(t) # Nobody => LockOf(t) \in Lock
  BY LockOfFacts
<1>6. /\ tpc' \in [Thread -> {"idle", "length", "body", "unlock"}]
      /\ tpc'[t] = "length" /\ \A u \in Thread : u # t => tpc'[u] = tpc[u]
  BY <1>2, <1>3
<1>7. owner' \in [Lock -> Thread \cup {Nobody}]
  BY <1>2, <1>3, <1>5
<1>8. left' \in [Thread -> 0 .. MaxFrames]
  <2>1. left[t] - 1 \in 0 .. MaxFrames
    BY <1>1, <1>3
  <2>. QED  BY <1>2, <1>3, <2>1
<1>9. ASSUME NEW l \in Lock, NEW u \in Thread, owner'[l] = u
      PROVE  LockOf(u) = l /\ tpc'[u] # "idle"
  <2>1. CASE l = LockOf(t) /\ LockOf(t) # Nobody
    BY <1>2, <1>3, <1>6, <1>9, <2>1
  <2>2. CASE ~(l = LockOf(t) /\ LockOf(t) # Nobody)
    <3>1. owner[l] = u
      BY <1>2, <1>3, <1>9, <2>2
    <3>. QED  BY <1>4, <1>6, <3>1
  <2>. QED  BY <2>1, <2>2
<1>10. ChannelTypeOK'
  BY <1>2, <1>6, <1>7, <1>8, <1>9 DEF ChannelInv, ChannelTypeOK
<1>11. ASSUME NEW u \in Thread, tpc'[u] # "idle", LockOf(u) # Nobody
       PROVE  owner'[LockOf(u)] = u
  <2>1. CASE u = t
    BY <1>2, <1>3, <1>5, <1>11, <2>1
  <2>2. CASE u # t
    <3>1. owner[LockOf(u)] = u
      BY <1>6, <1>11, <2>2 DEF ChannelInv, Exclusive
    <3>2. LockOf(u) # LockOf(t) /\ LockOf(u) \in Lock
      BY <1>1, <1>3, <1>11, <3>1, LockOfFacts
    <3>. QED  BY <1>2, <1>3, <1>5, <3>1, <3>2
  <2>. QED  BY <2>1, <2>2
<1>12. FramesInv'
  <2>1. \A u : tpc[u] = "body" => tpc'[u] = "body"
    BY <1>1, <1>2, <1>3
  <2>. QED  BY <1>2, <2>1 DEF ChannelInv, FramesInv
<1>. QED  BY <1>2, <1>10, <1>11, <1>12 DEF ChannelInv, Exclusive

\* A write of the length or of the body, also when it fails.
LEMMA WriteStep ==
  ASSUME ChannelInv, NEW t \in Thread, NEW part \in {"length", "body"},
         WritePart(t, part, IF part = "length" THEN "body" ELSE "unlock")
  PROVE  ChannelInv'
<1>1. /\ tpc[t] = part /\ owner' = owner /\ left' = left /\ reading' = reading /\ broken' = broken
      /\ \/ /\ ~broken /\ wire' = Append(wire, [from |-> t, part |-> part])
            /\ tpc' = [tpc EXCEPT ![t] = IF part = "length" THEN "body" ELSE "unlock"]
         \/ /\ broken /\ wire' = wire
            /\ tpc' = [tpc EXCEPT ![t] = "unlock"]
  BY DEF WritePart
<1>2. /\ tpc \in [Thread -> {"idle", "length", "body", "unlock"}]
      /\ \A l \in Lock, u \in Thread : owner[l] = u => (LockOf(u) = l /\ tpc[u] # "idle")
      /\ wire \in Seq(Piece)
  BY DEF ChannelInv, ChannelTypeOK
<1>3. /\ tpc' \in [Thread -> {"idle", "length", "body", "unlock"}]
      /\ \A u \in Thread : tpc'[u] = "idle" <=> tpc[u] = "idle"
  BY <1>1, <1>2
<1>4. wire' \in Seq(Piece) /\ FramesInv'
  <2>1. CASE ~broken
    BY <1>1, <2>1, AppendFrames
  <2>2. CASE broken
    BY <1>1, <1>2, <2>2 DEF ChannelInv, FramesInv
  <2>. QED  BY <2>1, <2>2
<1>5. ChannelTypeOK'
  BY <1>1, <1>2, <1>3, <1>4 DEF ChannelInv, ChannelTypeOK
<1>6. Exclusive'
  BY <1>1, <1>3 DEF ChannelInv, Exclusive
<1>. QED  BY <1>4, <1>5, <1>6 DEF ChannelInv

\* A thread gives its lock back, when its frame is written or given up.
LEMMA UnlockStep ==
  ASSUME ChannelInv, NEW t \in Thread, Unlock(t)
  PROVE  ChannelInv'
<1>1. /\ tpc[t] = "unlock"
      /\ owner' = IF LockOf(t) # Nobody THEN [owner EXCEPT ![LockOf(t)] = Nobody] ELSE owner
      /\ tpc' = [tpc EXCEPT ![t] = "idle"]
      /\ left' = left /\ wire' = wire /\ reading' = reading /\ broken' = broken
  BY DEF Unlock
<1>2. /\ tpc \in [Thread -> {"idle", "length", "body", "unlock"}]
      /\ owner \in [Lock -> Thread \cup {Nobody}] /\ Nobody \notin Thread /\ Nobody \notin Lock
  BY ChannelAssumption DEF ChannelInv, ChannelTypeOK, Thread, Lock
<1>3. \A l \in Lock, u \in Thread : owner[l] = u => (LockOf(u) = l /\ tpc[u] # "idle")
  BY DEF ChannelInv, ChannelTypeOK
<1>4. LockOf(t) # Nobody => LockOf(t) \in Lock
  BY LockOfFacts
<1>5. /\ tpc' \in [Thread -> {"idle", "length", "body", "unlock"}]
      /\ tpc'[t] = "idle" /\ \A u \in Thread : u # t => tpc'[u] = tpc[u]
  BY <1>1, <1>2
<1>6. owner' \in [Lock -> Thread \cup {Nobody}]
  BY <1>1, <1>2, <1>4
<1>7. ASSUME NEW l \in Lock, NEW u \in Thread, owner'[l] = u
      PROVE  LockOf(u) = l /\ tpc'[u] # "idle"
  <2>1. owner[l] = u /\ l # LockOf(t)
    BY <1>1, <1>2, <1>4, <1>7
  <2>2. LockOf(u) = l /\ tpc[u] # "idle"
    BY <1>3, <2>1
  <2>3. u # t
    BY <2>1, <2>2
  <2>. QED  BY <1>5, <2>2, <2>3
<1>8. ChannelTypeOK'
  BY <1>1, <1>5, <1>6, <1>7 DEF ChannelInv, ChannelTypeOK
<1>9. ASSUME NEW u \in Thread, tpc'[u] # "idle", LockOf(u) # Nobody
      PROVE  owner'[LockOf(u)] = u
  <2>1. u # t /\ tpc[u] # "idle"
    BY <1>5, <1>9
  <2>2. owner[LockOf(u)] = u /\ (LockOf(t) # Nobody => owner[LockOf(t)] = t)
    BY <1>1, <1>9, <2>1 DEF ChannelInv, Exclusive
  <2>3. LockOf(u) # LockOf(t) /\ LockOf(u) \in Lock
    BY <1>9, <2>1, <2>2, LockOfFacts
  <2>. QED  BY <1>1, <1>2, <1>4, <2>2, <2>3
<1>10. FramesInv'
  <2>1. \A u : tpc[u] = "body" => tpc'[u] = "body"
    BY <1>1, <1>2
  <2>. QED  BY <1>1, <2>1 DEF ChannelInv, FramesInv
<1>. QED  BY <1>1, <1>8, <1>9, <1>10 DEF ChannelInv, Exclusive

\* The reader takes the first piece off: the frames behind it stay as they are.
LEMMA TailFrames ==
  ASSUME NEW w \in Seq(Piece), w # <<>>, NEW i \in 1 .. Len(Tail(w))
  PROVE  /\ i + 1 \in 1 .. Len(w) /\ Tail(w)[i] = w[i + 1]
         /\ Completed(w, i + 1) => Completed(Tail(w), i)
         /\ Pending(w, i + 1) => Pending(Tail(w), i)
<1>1. PICK v : v = Tail(w)
  OBVIOUS
<1>2. /\ Len(w) \in Nat /\ Len(v) = Len(w) - 1 /\ i \in Nat
      /\ \A k \in 1 .. Len(v) : v[k] = w[k + 1]
  BY <1>1
<1>3. i + 1 \in 1 .. Len(w) /\ v[i] = w[i + 1]
  BY <1>1, <1>2
<1>4. ASSUME NEW last \in Int, last <= Len(w), NoneBetween(w, w[i + 1].from, i + 1 + 1, last)
      PROVE  NoneBetween(v, v[i].from, i + 1, last - 1)
  <2>1. ASSUME NEW k \in i + 1 .. last - 1
        PROVE  v[k] = w[k + 1] /\ k + 1 \in i + 1 + 1 .. last
    BY <1>2, <1>4
  <2>. QED  BY <1>3, <1>4, <2>1 DEF NoneBetween
<1>5. ASSUME Completed(w, i + 1) PROVE Completed(v, i)
  <2>1. PICK j \in i + 1 + 1 .. Len(w) : /\ w[j] = [from |-> w[i + 1].from, part |-> "body"]
                                         /\ NoneBetween(w, w[i + 1].from, i + 1 + 1, j - 1)
    BY <1>5 DEF Completed
  <2>2. j - 1 \in i + 1 .. Len(v) /\ v[j - 1] = w[j] /\ j - 1 \in Int /\ j - 1 <= Len(w)
    <3>1. j - 1 \in i + 1 .. Len(v) /\ (j - 1) + 1 = j /\ j - 1 \in 1 .. Len(v)
      BY <1>2
    <3>. QED  BY <1>2, <3>1
  <2>3. NoneBetween(v, v[i].from, i + 1, (j - 1) - 1)
    BY <1>4, <2>1, <2>2
  <2>. QED  BY <1>3, <2>1, <2>2, <2>3 DEF Completed
<1>6. ASSUME Pending(w, i + 1) PROVE Pending(v, i)
  <2>1. NoneBetween(v, v[i].from, i + 1, Len(w) - 1)
    BY <1>2, <1>4, <1>6 DEF Pending
  <2>. QED  BY <1>2, <2>1 DEF Pending
<1>. QED  BY <1>1, <1>3, <1>5, <1>6

\* The server's reader, also when what it reads is no frame.
LEMMA DecodeStep ==
  ASSUME ChannelInv, Decode
  PROVE  ChannelInv'
<1>1. wire # <<>> /\ wire \in Seq(Piece) /\ wire' = Tail(wire)
      /\ tpc' = tpc /\ owner' = owner /\ left' = left
  BY DEF ChannelInv, Decode
<1>2. wire' \in Seq(Piece) /\ Head(wire) \in Piece
  BY <1>1
<1>3. Head(wire).from \in Thread
  BY <1>2 DEF Piece
<1>4. reading' \in Thread \cup {Nobody} /\ broken' \in BOOLEAN /\ (broken => broken')
  BY <1>3 DEF ChannelInv, ChannelTypeOK, Decode
<1>5. ChannelTypeOK' /\ Exclusive'
  BY <1>1, <1>2, <1>4 DEF ChannelInv, ChannelTypeOK, Exclusive
<1>6. FramesInv'
  <2>1. SUFFICES ASSUME NEW i \in 1 .. Len(wire'), LockedLength(wire', i)
                 PROVE  \/ Completed(wire', i)
                        \/ Pending(wire', i) /\ (broken' \/ tpc'[wire'[i].from] = "body")
    BY DEF FramesInv
  <2>2. i + 1 \in 1 .. Len(wire) /\ wire'[i] = wire[i + 1]
    BY <1>1, <2>1, TailFrames
  <2>3. LockedLength(wire, i + 1)
    BY <2>1, <2>2 DEF LockedLength
  <2>4. \/ Completed(wire, i + 1)
        \/ Pending(wire, i + 1) /\ (broken \/ tpc[wire[i + 1].from] = "body")
    BY <2>2, <2>3 DEF ChannelInv, FramesInv
  <2>. QED  BY <1>1, <1>4, <2>1, <2>2, <2>4, TailFrames
<1>. QED  BY <1>2, <1>5, <1>6 DEF ChannelInv

\* No piece is on the wire and no lock is held before the first frame.
LEMMA ChannelInitInv ==
  ASSUME ChannelInit
  PROVE  ChannelInv
<1>1. /\ tpc = [t \in Thread |-> "idle"] /\ owner = [l \in Lock |-> Nobody]
      /\ left = [t \in Thread |-> MaxFrames] /\ wire = <<>> /\ reading = Nobody /\ broken = FALSE
  BY DEF ChannelInit
<1>2. MaxFrames \in 0 .. MaxFrames /\ Nobody \notin Thread
  BY ChannelAssumption DEF Thread
<1>3. wire \in Seq(Piece) /\ Len(wire) = 0
  BY <1>1
<1>4. /\ tpc \in [Thread -> {"idle", "length", "body", "unlock"}]
      /\ owner \in [Lock -> Thread \cup {Nobody}] /\ left \in [Thread -> 0 .. MaxFrames]
      /\ \A l \in Lock, t \in Thread : owner[l] # t
  BY <1>1, <1>2
<1>5. \A i \in 1 .. Len(wire) : wire[i] \in Piece
  BY <1>3
<1>6. ChannelTypeOK
  BY <1>1, <1>4, <1>5 DEF ChannelTypeOK
<1>. QED  BY <1>1, <1>3, <1>6 DEF ChannelInv, Exclusive, FramesInv

\* The inductive invariant of the control connection's framing.
THEOREM ChannelInvariance == ChannelSpec => []ChannelInv
<1>1. ChannelInit => ChannelInv
  BY ChannelInitInv
<1>2. ChannelInv /\ [ChannelNext]_channelVars => ChannelInv'
  <2>1. CASE Decode
    BY <2>1, DecodeStep
  <2>2. ASSUME ChannelInv, NEW t \in Thread, Begin(t) \/ WriteLength(t) \/ WriteBody(t) \/ Unlock(t)
        PROVE  ChannelInv'
    <3>1. CASE WriteLength(t)
      BY <2>2, <3>1, WriteStep DEF WriteLength
    <3>2. CASE WriteBody(t)
      BY <2>2, <3>2, WriteStep DEF WriteBody
    <3>. QED  BY <2>2, <3>1, <3>2, BeginStep, UnlockStep
  <2>3. CASE UNCHANGED channelVars
    BY <2>3 DEF channelVars, ChannelInv, ChannelTypeOK, Exclusive, FramesInv
  <2>. QED  BY <2>1, <2>2, <2>3 DEF ChannelNext
<1>. QED  BY <1>1, <1>2, PTL DEF ChannelSpec

\* Type correctness of the senders, their locks and the server's reader.
THEOREM ChannelTypeCorrect == ChannelSpec => []ChannelTypeOK
<1>1. ChannelInv => ChannelTypeOK
  BY DEF ChannelInv
<1>. QED  BY <1>1, ChannelInvariance, PTL

\* However the writes of send_frame, failed ones too, and the server's reads
\* interleave, threads that send under one lock never tear each other's frames.
THEOREM SameLockSafety == ChannelSpec => []SameLockIntact
<1>1. ASSUME ChannelInv PROVE SameLockIntact
  <2>1. SUFFICES ASSUME NEW i \in 1 .. Len(wire), NEW k \in 1 .. Len(wire), i < k,
                        LockedLength(wire, i), wire[k].from # wire[i].from,
                        SameLock(wire[k].from, wire[i].from)
                 PROVE  \E j \in i + 1 .. k - 1 : wire[j] = [from |-> wire[i].from, part |-> "body"]
    BY DEF SameLockIntact, LockedLength, SameLock
  <2>2. Len(wire) \in Nat
    BY <1>1 DEF ChannelInv
  <2>3. ~Pending(wire, i)
    BY <2>1, <2>2 DEF Pending, NoneBetween
  <2>4. PICK j \in i + 1 .. Len(wire) : /\ wire[j] = [from |-> wire[i].from, part |-> "body"]
                                        /\ NoneBetween(wire, wire[i].from, i + 1, j - 1)
    BY <1>1, <2>1, <2>3 DEF ChannelInv, FramesInv, Completed
  <2>5. ~(k \in i + 1 .. j - 1)
    BY <2>1, <2>4 DEF NoneBetween
  <2>6. wire[j].from = wire[i].from
    BY <2>4
  <2>7. j # k
    BY <2>1, <2>6
  <2>8. j \in i + 1 .. k - 1
    BY <2>1, <2>2, <2>4, <2>5, <2>7
  <2>. QED  BY <2>4, <2>8
<1>. QED  BY <1>1, ChannelInvariance, PTL

-----------------------------------------------------------------------------
(* What survives a restart of the server.  Every table the server, a Save   *)
(* goroutine or approvals.json holds is one the store has held, and none of *)
(* those approves an agent no administrator approved; no copy of the        *)
(* uninstall requests, in memory, in a handler's hands or in any inode,     *)
(* has a consent nobody gave.  Inodes that no path leads to are included:   *)
(* a handler may still rename the file that was garbled and rewritten.      *)

HonestTable(T) == \A a \in Agent : T[a].approval = "approved" => a \in everApproved

HonestRequests(R) == \A a \in Agent : R[a] = "approved" => a \in everConsented

\* No more offline events are counted than the store has changed.
Counted(T) == \A a \in Agent : T[a].offline <= changes

PastInv ==
  /\ NoTable \in past /\ agents \in past /\ approvalsFile \in past
  /\ \A j \in Job : jsnap[j] \in past
  /\ \A T \in past : HonestTable(T) /\ Counted(T)

ConsentInv ==
  /\ HonestRequests(request)
  /\ \A h \in Notifier : HonestRequests(hsnap[h])
  /\ \A i \in Inode : HonestRequests(inode[i].data)

\* A handler writes through an open file; a removal under way is of some agent.
InHand ==
  /\ \A h \in Notifier : hpc[h] = "write" => hfile[h] \in Inode
  /\ \A r \in Remover : rpc[r] # "idle" => rwho[r] \in Agent

PersistInv == PersistTypeOK /\ PastInv /\ ConsentInv /\ InHand

\* The empty table, the empty requests and a truncated file.
LEMMA EmptyFacts ==
  /\ NoRecord \in Record /\ NoRecord.approval = "absent" /\ NoRecord.offline = 0
  /\ NoTable \in Table /\ \A a \in Agent : NoTable[a] = NoRecord
  /\ NoRequest \in Requests /\ \A a \in Agent : NoRequest[a] = "none"
  /\ Partial \in [kind : {"partial", "whole", "garbled"}, data : Requests]
  /\ Partial.data = NoRequest
<1>1. NoRecord \in Record /\ NoRecord.approval = "absent" /\ NoRecord.offline = 0
  BY PersistAssumption DEF NoRecord, Record, Approvals
<1>2. NoTable \in Table /\ \A a \in Agent : NoTable[a] = NoRecord
  BY <1>1 DEF NoTable, Table
<1>3. NoRequest \in Requests /\ \A a \in Agent : NoRequest[a] = "none"
  BY DEF NoRequest, Requests, Decisions
<1>. QED  BY <1>1, <1>2, <1>3 DEF Partial

\* A record of a table.
LEMMA RecordFacts ==
  ASSUME NEW T \in Table, NEW a \in Agent
  PROVE  /\ T[a] \in Record /\ T[a].approval \in Approvals
         /\ T[a].offline \in Nat /\ T[a].offline \in 0 .. MaxChanges
BY PersistAssumption DEF Table, Record

\* What a step of the memory has to show about the table it leaves.
LEMMA PastStep ==
  ASSUME PersistTypeOK, PastInv, agents' \in Table, past' = past \cup {agents'},
         everApproved \subseteq everApproved', changes \in Nat, changes' \in Nat, changes <= changes',
         HonestTable(agents)', Counted(agents)',
         approvalsFile' = approvalsFile, \A j \in Job : jsnap'[j] \in past'
  PROVE  PastInv' /\ past' \subseteq Table
<1>1. past \subseteq Table
  BY DEF PersistTypeOK
<1>2. ASSUME NEW T \in past PROVE HonestTable(T)' /\ Counted(T)'
  <2>1. HonestTable(T) /\ Counted(T) /\ T \in Table
    BY <1>1 DEF PastInv
  <2>2. \A a \in Agent : T[a].offline \in Nat
    BY <2>1, RecordFacts
  <2>3. \A a \in Agent : T[a].offline <= changes'
    BY <2>1, <2>2 DEF Counted
  <2>. QED  BY <2>1, <2>3 DEF HonestTable, Counted
<1>3. \A T \in past' : HonestTable(T)' /\ Counted(T)'
  <2>1. SUFFICES ASSUME NEW T \in past' PROVE HonestTable(T)' /\ Counted(T)'
    OBVIOUS
  <2>2. CASE T = agents'
    BY <2>2 DEF HonestTable, Counted
  <2>. QED  BY <1>2, <2>1, <2>2
<1>. QED  BY <1>1, <1>3 DEF PastInv

\* The table an agent's record is changed in is as honest as the new record.
LEMMA ChangedTable ==
  ASSUME PersistTypeOK, PastInv, NEW a \in Agent, NEW r \in Record,
         agents' = [agents EXCEPT ![a] = r],
         changes \in Nat, changes' \in Nat, changes <= changes', everApproved \subseteq everApproved',
         r.approval = "approved" => a \in everApproved', r.offline <= changes'
  PROVE  agents' \in Table /\ HonestTable(agents)' /\ Counted(agents)'
<1>1. agents \in Table /\ HonestTable(agents) /\ Counted(agents)
  BY DEF PersistTypeOK, PastInv
<1>2. agents' \in Table /\ \A b \in Agent : agents'[b] = IF b = a THEN r ELSE agents[b]
  BY <1>1 DEF Table
<1>3. \A b \in Agent : agents[b].offline \in Nat
  BY <1>1, RecordFacts
<1>4. HonestTable(agents)'
  BY <1>1, <1>2 DEF HonestTable
<1>5. ASSUME NEW b \in Agent PROVE agents'[b].offline <= changes'
  <2>1. CASE b = a
    BY <1>2, <2>1
  <2>2. CASE b # a
    <3>1. agents'[b] = agents[b] /\ agents[b].offline <= changes /\ agents[b].offline \in Nat
      BY <1>1, <1>2, <1>3, <2>2 DEF Counted
    <3>. QED  BY <3>1
  <2>. QED  BY <2>1, <2>2
<1>. QED  BY <1>2, <1>4, <1>5 DEF Counted

\* What the history and the rest of the memory have to keep when the agents' table
\* stays: nothing, of the tables.
LEMMA PastKept ==
  ASSUME PastInv, UNCHANGED <<agents, approvalsFile, past, everApproved>>,
         changes' = changes, \A j \in Job : jsnap'[j] \in past
  PROVE  PastInv'
BY DEF PastInv, HonestTable, Counted

\* No copy of the requests changes, and consents are never forgotten.
LEMMA ConsentKept ==
  ASSUME ConsentInv, UNCHANGED <<request, hsnap, inode>>, everConsented \subseteq everConsented'
  PROVE  ConsentInv'
BY DEF ConsentInv, HonestRequests

\* The counter of changes, which also bounds the offline events of a record.
LEMMA ChangeFacts ==
  ASSUME PersistTypeOK, Change
  PROVE  /\ changes \in Nat /\ changes' \in 0 .. MaxChanges /\ changes' \in Nat
         /\ changes' = changes + 1 /\ changes <= changes'
BY PersistAssumption DEF PersistTypeOK, Change

\* A host is listed as pending.
LEMMA PendingStep ==
  ASSUME PersistInv, NEW a \in Agent, BecomesPending(a)
  PROVE  PersistInv'
<1>1. PersistTypeOK /\ PastInv /\ ConsentInv /\ InHand /\ agents[a] = NoRecord
      /\ agents \in Table
  BY DEF PersistInv, PersistTypeOK, BecomesPending
<1>2. /\ changes \in Nat /\ changes' \in 0 .. MaxChanges /\ changes' \in Nat /\ changes <= changes'
  BY <1>1, ChangeFacts DEF BecomesPending
<1>3. PICK r : r = [NoRecord EXCEPT !.approval = "pending"]
  OBVIOUS
<1>4. r \in Record /\ r.approval # "approved" /\ r.offline = 0
  BY <1>3, EmptyFacts DEF Record, Approvals
<1>5. /\ agents' = [agents EXCEPT ![a] = r] /\ past' = past \cup {agents'}
      /\ UNCHANGED <<request, tombstones, notifier, job, remover, disk,
                     everApproved, everConsented, removed>>
  BY <1>1, <1>3 DEF BecomesPending, Remember
<1>6. agents' \in Table /\ HonestTable(agents)' /\ Counted(agents)'
  <2>1. r.offline <= changes' /\ everApproved \subseteq everApproved'
    BY <1>2, <1>4, <1>5
  <2>. QED  BY <1>1, <1>2, <1>4, <1>5, <2>1, ChangedTable
<1>7. PastInv' /\ past' \subseteq Table
  BY <1>1, <1>2, <1>5, <1>6, PastStep DEF PastInv, job, disk
<1>8. ConsentInv' /\ InHand'
  BY <1>1, <1>5, ConsentKept DEF notifier, disk, InHand, remover
<1>9. PersistTypeOK'
  BY <1>1, <1>2, <1>5, <1>6, <1>7 DEF PersistTypeOK, notifier, job, remover, disk
<1>. QED  BY <1>7, <1>8, <1>9 DEF PersistInv

\* An offline event is counted, in memory only.
LEMMA OfflineStep ==
  ASSUME PersistInv, NEW a \in Agent, AddOfflineEvent(a)
  PROVE  PersistInv'
<1>1. PersistTypeOK /\ PastInv /\ ConsentInv /\ InHand /\ agents \in Table
  BY DEF PersistInv, PersistTypeOK
<1>2. /\ changes \in Nat /\ changes' \in 0 .. MaxChanges /\ changes' \in Nat /\ changes <= changes'
      /\ changes' = changes + 1
  BY <1>1, ChangeFacts DEF AddOfflineEvent
<1>3. PICK r : r = [agents[a] EXCEPT !.offline = @ + 1]
  OBVIOUS
<1>4. agents[a] \in Record /\ agents[a].offline \in Nat /\ agents[a].offline <= changes
      /\ (agents[a].approval = "approved" => a \in everApproved)
  BY <1>1, RecordFacts DEF PastInv, HonestTable, Counted
<1>5. agents[a].offline + 1 \in 0 .. MaxChanges /\ agents[a].offline + 1 <= changes'
  BY <1>2, <1>4, PersistAssumption
<1>6. r \in Record /\ r.approval = agents[a].approval /\ r.offline = agents[a].offline + 1
  BY <1>3, <1>4, <1>5 DEF Record
<1>7. /\ agents' = [agents EXCEPT ![a] = r] /\ past' = past \cup {agents'}
      /\ UNCHANGED <<request, tombstones, notifier, job, remover, disk,
                     everApproved, everConsented, removed>>
  BY <1>1, <1>3 DEF AddOfflineEvent, Remember, Table
<1>8. agents' \in Table /\ HonestTable(agents)' /\ Counted(agents)'
  BY <1>1, <1>2, <1>4, <1>5, <1>6, <1>7, ChangedTable
<1>9. PastInv' /\ past' \subseteq Table
  BY <1>1, <1>2, <1>7, <1>8, PastStep DEF PastInv, job, disk
<1>10. ConsentInv' /\ InHand'
  BY <1>1, <1>7, ConsentKept DEF notifier, disk, InHand, remover
<1>11. PersistTypeOK'
  BY <1>1, <1>2, <1>7, <1>8, <1>9 DEF PersistTypeOK, notifier, job, remover, disk
<1>. QED  BY <1>9, <1>10, <1>11 DEF PersistInv

\* An administrator decides about an agent: only this adds to everApproved.
LEMMA ApprovalStep ==
  ASSUME PersistInv, NEW h \in Notifier, NEW a \in Agent, NEW s \in {"approved", "rejected"},
         SetApproval(h, a, s)
  PROVE  PersistInv'
<1>1. PersistTypeOK /\ PastInv /\ ConsentInv /\ InHand /\ agents \in Table
  BY DEF PersistInv, PersistTypeOK
<1>2. /\ changes \in Nat /\ changes' \in 0 .. MaxChanges /\ changes' \in Nat /\ changes <= changes'
  BY <1>1, ChangeFacts DEF SetApproval
<1>3. PICK r : r = [agents[a] EXCEPT !.approval = s]
  OBVIOUS
<1>4. agents[a] \in Record /\ agents[a].offline \in Nat /\ agents[a].offline <= changes
  BY <1>1, RecordFacts DEF PastInv, Counted
<1>5. r \in Record /\ r.approval = s /\ r.offline = agents[a].offline
  BY <1>3, <1>4 DEF Record, Approvals
<1>6. /\ agents' = [agents EXCEPT ![a] = r] /\ past' = past \cup {agents'}
      /\ everApproved' = IF s = "approved" THEN everApproved \cup {a} ELSE everApproved
      /\ hpc' = [hpc EXCEPT ![h] = "notify"]
      /\ UNCHANGED <<request, tombstones, hsnap, hfile, job, remover, disk,
                     everConsented, removed>>
  BY <1>1, <1>3 DEF SetApproval, Remember, Table
<1>7. /\ everApproved \subseteq everApproved' /\ everApproved' \subseteq Agent
      /\ (s = "approved" => a \in everApproved') /\ r.offline <= changes'
  BY <1>1, <1>2, <1>4, <1>5, <1>6 DEF PersistTypeOK
<1>8. agents' \in Table /\ HonestTable(agents)' /\ Counted(agents)'
  BY <1>1, <1>2, <1>5, <1>6, <1>7, ChangedTable
<1>9. PastInv' /\ past' \subseteq Table
  BY <1>1, <1>2, <1>6, <1>7, <1>8, PastStep DEF PastInv, job, disk
<1>10. hpc' \in [Notifier -> {"idle", "notify", "snap", "open", "write", "rename"}]
  BY <1>1, <1>6 DEF PersistTypeOK
<1>11. ConsentInv'
  BY <1>1, <1>6, ConsentKept DEF disk
<1>12. InHand'
  BY <1>1, <1>6 DEF InHand, remover, PersistTypeOK
<1>13. PersistTypeOK'
  BY <1>1, <1>2, <1>6, <1>7, <1>8, <1>9, <1>10 DEF PersistTypeOK, job, remover, disk
<1>. QED  BY <1>9, <1>11, <1>12, <1>13 DEF PersistInv

\* A record is removed; the table without it has been the store's as well.
LEMMA RemoveStep ==
  ASSUME PersistInv, NEW r \in Remover, NEW a \in Agent, RemoveRecord(r, a)
  PROVE  PersistInv'
<1>1. PersistTypeOK /\ PastInv /\ ConsentInv /\ InHand /\ agents \in Table
  BY DEF PersistInv, PersistTypeOK
<1>2. /\ changes \in Nat /\ changes' \in 0 .. MaxChanges /\ changes' \in Nat /\ changes <= changes'
  BY <1>1, ChangeFacts DEF RemoveRecord
<1>3. /\ agents' = [agents EXCEPT ![a] = NoRecord] /\ past' = past \cup {agents'}
      /\ rpc' = [rpc EXCEPT ![r] = "tomb"] /\ rwho' = [rwho EXCEPT ![r] = a]
      /\ UNCHANGED <<request, tombstones, notifier, job, rsnap, disk,
                     everApproved, everConsented, removed>>
  BY DEF RemoveRecord, Remember
<1>4. NoRecord \in Record /\ NoRecord.approval # "approved" /\ NoRecord.offline <= changes'
  BY <1>2, EmptyFacts
<1>5. agents' \in Table /\ HonestTable(agents)' /\ Counted(agents)'
  <2>1. everApproved \subseteq everApproved'
    BY <1>3
  <2>. QED  BY <1>1, <1>2, <1>3, <1>4, <2>1, ChangedTable
<1>6. PastInv' /\ past' \subseteq Table
  BY <1>1, <1>2, <1>3, <1>5, PastStep DEF PastInv, job, disk
<1>7. ConsentInv' /\ InHand'
  BY <1>1, <1>3, ConsentKept DEF notifier, disk, InHand, PersistTypeOK
<1>8. /\ rpc' \in [Remover -> {"idle", "tomb", "snap", "truncate", "write"}]
      /\ rwho' \in [Remover -> Agent \cup {Nothing}]
  BY <1>1, <1>3 DEF PersistTypeOK
<1>9. PersistTypeOK'
  BY <1>1, <1>2, <1>3, <1>5, <1>6, <1>8 DEF PersistTypeOK, notifier, job, disk
<1>. QED  BY <1>6, <1>7, <1>9 DEF PersistInv

\* A request to uninstall is entered or decided: PastInv's tables are not touched.
LEMMA RequestStep ==
  ASSUME PersistInv, NEW a \in Agent,
         \/ \E h \in Notifier : AddUninstallRequest(h, a)
         \/ \E d \in {"approved", "rejected"} : DecideUninstall(a, d)
  PROVE  PersistInv'
<1>1. PersistTypeOK /\ PastInv /\ ConsentInv /\ InHand /\ request \in Requests
  BY DEF PersistInv, PersistTypeOK
<1>2. /\ changes \in Nat /\ changes' \in 0 .. MaxChanges /\ changes' \in Nat /\ changes <= changes'
  BY <1>1, ChangeFacts DEF AddUninstallRequest, DecideUninstall
<1>3. UNCHANGED <<agents, tombstones, hsnap, hfile, job, remover, disk,
                  everApproved, removed, past>>
  BY DEF AddUninstallRequest, DecideUninstall, notifier
<1>4. /\ request' \in Requests /\ everConsented \subseteq everConsented'
      /\ everConsented' \subseteq Agent /\ HonestRequests(request)'
      /\ hpc' \in [Notifier -> {"idle", "notify", "snap", "open", "write", "rename"}]
      /\ \A h \in Notifier : hpc'[h] = "write" => hpc[h] = "write"
  <2>1. CASE \E h \in Notifier : AddUninstallRequest(h, a)
    <3>1. PICK h \in Notifier : AddUninstallRequest(h, a)
      BY <2>1
    <3>2. /\ request' = [request EXCEPT ![a] = "waiting"] /\ everConsented' = everConsented
          /\ hpc' = [hpc EXCEPT ![h] = "notify"]
      BY <3>1 DEF AddUninstallRequest
    <3>3. request' \in Requests /\ HonestRequests(request)'
      BY <1>1, <3>2 DEF Requests, Decisions, ConsentInv, HonestRequests
    <3>. QED  BY <1>1, <3>2, <3>3 DEF PersistTypeOK
  <2>2. CASE \E d \in {"approved", "rejected"} : DecideUninstall(a, d)
    <3>1. PICK d \in {"approved", "rejected"} : DecideUninstall(a, d)
      BY <2>2
    <3>2. /\ request' = [request EXCEPT ![a] = d] /\ hpc' = hpc
          /\ everConsented' = IF d = "approved" THEN everConsented \cup {a} ELSE everConsented
      BY <3>1 DEF DecideUninstall, notifier
    <3>3. request' \in Requests /\ HonestRequests(request)'
      BY <1>1, <3>2 DEF Requests, Decisions, ConsentInv, HonestRequests
    <3>. QED  BY <1>1, <3>2, <3>3 DEF PersistTypeOK
  <2>. QED  BY <2>1, <2>2
<1>5. PastInv'
  <2>1. ASSUME NEW T \in past PROVE Counted(T)'
    <3>1. T \in Table /\ Counted(T)
      BY <1>1 DEF PersistTypeOK, PastInv
    <3>2. \A b \in Agent : T[b].offline \in Nat
      BY <3>1, RecordFacts
    <3>. QED  BY <1>2, <3>1, <3>2 DEF Counted
  <2>. QED  BY <1>1, <1>3, <2>1 DEF PastInv, HonestTable, job, disk
<1>6. ConsentInv'
  BY <1>1, <1>3, <1>4 DEF ConsentInv, HonestRequests, disk
<1>7. InHand'
  BY <1>1, <1>3, <1>4 DEF InHand, remover
<1>8. PersistTypeOK'
  BY <1>1, <1>2, <1>3, <1>4 DEF PersistTypeOK, job, remover, disk
<1>. QED  BY <1>5, <1>6, <1>7, <1>8 DEF PersistInv

\* Save: the snapshot is the store's table of that moment, the file the snapshot.
LEMMA SaveStep ==
  ASSUME PersistInv, NEW j \in Job,
         SaveSnapshot(j) \/ SaveWrite(j) \/ \E h \in Notifier : SaveAsync(h, j)
  PROVE  PersistInv'
<1>1. PersistTypeOK /\ PastInv /\ ConsentInv /\ InHand
  BY DEF PersistInv
<1>2. UNCHANGED <<store, hsnap, hfile, remover, inode, path, tmp, tombFile, history>>
  BY DEF SaveSnapshot, SaveWrite, SaveAsync, notifier, disk
<1>3. /\ jpc' \in [Job -> {"idle", "snap", "write"}]
      /\ hpc' \in [Notifier -> {"idle", "notify", "snap", "open", "write", "rename"}]
      /\ \A h \in Notifier : hpc'[h] = "write" => hpc[h] = "write"
  BY <1>1 DEF SaveSnapshot, SaveWrite, SaveAsync, PersistTypeOK, notifier
<1>4. /\ jsnap' \in [Job -> Table] /\ \A k \in Job : jsnap'[k] \in past
      /\ approvalsFile' \in past /\ approvalsFile' \in Table
  <2>1. /\ jsnap \in [Job -> Table] /\ agents \in Table /\ NoTable \in Table
        /\ past \subseteq Table /\ agents \in past /\ NoTable \in past /\ approvalsFile \in past
        /\ \A k \in Job : jsnap[k] \in past
    BY <1>1, EmptyFacts DEF PersistTypeOK, PastInv
  <2>2. CASE SaveSnapshot(j)
    BY <2>1, <2>2 DEF SaveSnapshot, disk
  <2>3. CASE SaveWrite(j)
    BY <2>1, <2>3 DEF SaveWrite
  <2>4. CASE \E h \in Notifier : SaveAsync(h, j)
    BY <2>1, <2>4 DEF SaveAsync, disk
  <2>. QED  BY <2>2, <2>3, <2>4
<1>5. PastInv'
  BY <1>1, <1>2, <1>4 DEF PastInv, HonestTable, Counted, store, history
<1>6. ConsentInv'
  BY <1>1, <1>2, ConsentKept DEF store, history
<1>7. InHand'
  BY <1>1, <1>2, <1>3 DEF InHand, remover
<1>8. PersistTypeOK'
  BY <1>1, <1>2, <1>3, <1>4 DEF PersistTypeOK, store, remover, history
<1>. QED  BY <1>5, <1>6, <1>7, <1>8 DEF PersistInv

\* What an inode may hold.
LEMMA InodeFacts ==
  ASSUME PersistInv, NEW i \in Inode
  PROVE  /\ inode[i] \in [kind : {"partial", "whole", "garbled"}, data : Requests]
         /\ inode[i].data \in Requests /\ HonestRequests(inode[i].data)
BY DEF PersistInv, PersistTypeOK, ConsentInv

\* One inode gets a new content, a truncated one or a copy of a snapshot.
LEMMA WriteInode ==
  ASSUME PersistInv, NEW i \in Inode,
         NEW v \in [kind : {"partial", "whole", "garbled"}, data : Requests],
         HonestRequests(v.data), inode' = [inode EXCEPT ![i] = v],
         UNCHANGED <<request, hsnap, everConsented>>
  PROVE  /\ inode' \in [Inode -> [kind : {"partial", "whole", "garbled"}, data : Requests]]
         /\ ConsentInv'
<1>1. inode \in [Inode -> [kind : {"partial", "whole", "garbled"}, data : Requests]] /\ ConsentInv
  BY DEF PersistInv, PersistTypeOK
<1>2. inode' \in [Inode -> [kind : {"partial", "whole", "garbled"}, data : Requests]]
      /\ \A k \in Inode : inode'[k] = IF k = i THEN v ELSE inode[k]
  BY <1>1
<1>3. \A k \in Inode : HonestRequests(inode'[k].data)
  BY <1>1, <1>2 DEF ConsentInv
<1>. QED  BY <1>1, <1>2, <1>3 DEF ConsentInv, HonestRequests

\* SaveUninstall takes its snapshot of the requests.
LEMMA UninstallSnapshotStep ==
  ASSUME PersistInv, NEW h \in Notifier, UninstallSnapshot(h)
  PROVE  PersistInv'
<1>1. PersistTypeOK /\ PastInv /\ ConsentInv /\ InHand
  BY DEF PersistInv
<1>2. /\ hpc' = [hpc EXCEPT ![h] = "open"] /\ hsnap' = [hsnap EXCEPT ![h] = request]
      /\ UNCHANGED <<store, hfile, job, remover, disk, history>>
  BY DEF UninstallSnapshot
<1>3. /\ hpc' \in [Notifier -> {"idle", "notify", "snap", "open", "write", "rename"}]
      /\ hsnap' \in [Notifier -> Requests]
      /\ \A g \in Notifier : hsnap'[g] = IF g = h THEN request ELSE hsnap[g]
      /\ \A g \in Notifier : hpc'[g] = "write" => hpc[g] = "write"
  BY <1>1, <1>2 DEF PersistTypeOK
<1>4. PastInv'
  BY <1>1, <1>2, PastKept DEF PastInv, store, job, disk, history
<1>5. ConsentInv'
  BY <1>1, <1>2, <1>3 DEF ConsentInv, HonestRequests, store, disk, history
<1>6. InHand'
  BY <1>1, <1>2, <1>3 DEF InHand, remover
<1>7. PersistTypeOK'
  BY <1>1, <1>2, <1>3 DEF PersistTypeOK, store, job, remover, disk, history
<1>. QED  BY <1>4, <1>5, <1>6, <1>7 DEF PersistInv

\* os.WriteFile opens the temporary file the handlers share.
LEMMA UninstallOpenStep ==
  ASSUME PersistInv, NEW h \in Notifier, UninstallOpen(h)
  PROVE  PersistInv'
<1>1. PersistTypeOK /\ PastInv /\ ConsentInv /\ InHand
  BY DEF PersistInv
<1>2. PICK i \in (IF tmp = Nothing THEN Unused ELSE {tmp}) :
           /\ tmp' = i /\ hfile' = [hfile EXCEPT ![h] = i]
           /\ inode' = [inode EXCEPT ![i] = Partial]
  BY DEF UninstallOpen
<1>3. i \in Inode
  BY <1>1, <1>2 DEF PersistTypeOK, Unused
<1>4. /\ hpc' = [hpc EXCEPT ![h] = "write"]
      /\ UNCHANGED <<store, hsnap, job, remover, approvalsFile, path, tombFile, history>>
  BY DEF UninstallOpen
<1>5. /\ inode' \in [Inode -> [kind : {"partial", "whole", "garbled"}, data : Requests]]
      /\ ConsentInv'
  <2>1. HonestRequests(Partial.data)
    BY EmptyFacts DEF HonestRequests
  <2>. QED  BY <1>2, <1>3, <1>4, <2>1, EmptyFacts, WriteInode DEF store, history
<1>6. /\ hpc' \in [Notifier -> {"idle", "notify", "snap", "open", "write", "rename"}]
      /\ hfile' \in [Notifier -> Inode \cup {Nothing}]
  BY <1>1, <1>2, <1>3, <1>4 DEF PersistTypeOK
<1>7. InHand'
  <2>1. ASSUME NEW g \in Notifier, hpc'[g] = "write" PROVE hfile'[g] \in Inode
    <3>1. CASE g = h
      BY <1>1, <1>2, <1>3, <3>1 DEF PersistTypeOK
    <3>2. CASE g # h
      BY <1>1, <1>2, <1>4, <2>1, <3>2 DEF PersistTypeOK, InHand
    <3>. QED  BY <3>1, <3>2
  <2>. QED  BY <1>1, <1>4, <2>1 DEF InHand, remover
<1>8. PastInv'
  BY <1>1, <1>4, PastKept DEF PastInv, store, job, history
<1>9. PersistTypeOK'
  BY <1>1, <1>2, <1>3, <1>4, <1>5, <1>6 DEF PersistTypeOK, store, job, remover, history
<1>. QED  BY <1>5, <1>7, <1>8, <1>9 DEF PersistInv

\* ... and writes it, whoever else has it open and whatever it is named by now.
LEMMA UninstallWriteStep ==
  ASSUME PersistInv, NEW h \in Notifier, UninstallWrite(h)
  PROVE  PersistInv'
<1>1. PersistTypeOK /\ PastInv /\ ConsentInv /\ InHand
  BY DEF PersistInv
<1>2. PICK i \in Inode : i = hfile[h]
  BY <1>1 DEF UninstallWrite, InHand
<1>3. PICK k \in {"whole", "garbled"} :
        inode' = [inode EXCEPT ![i] = [kind |-> k, data |-> IF k = "whole" THEN hsnap[h] ELSE NoRequest]]
  BY <1>2 DEF UninstallWrite
<1>4. /\ hpc' = [hpc EXCEPT ![h] = "rename"] /\ hfile' = [hfile EXCEPT ![h] = Nothing]
      /\ UNCHANGED <<store, hsnap, job, remover, approvalsFile, path, tmp, tombFile, history>>
  BY DEF UninstallWrite
<1>5. PICK R : R = IF k = "whole" THEN hsnap[h] ELSE NoRequest
  OBVIOUS
<1>6. R \in Requests /\ HonestRequests(R)
  BY <1>1, <1>5, EmptyFacts DEF PersistTypeOK, ConsentInv, HonestRequests
<1>7. /\ inode' \in [Inode -> [kind : {"partial", "whole", "garbled"}, data : Requests]]
      /\ ConsentInv'
  <2>1. PICK v : v = [kind |-> k, data |-> R]
    OBVIOUS
  <2>2. v \in [kind : {"partial", "whole", "garbled"}, data : Requests] /\ v.data = R
    BY <1>6, <2>1
  <2>3. inode' = [inode EXCEPT ![i] = v]
    BY <1>3, <1>5, <2>1
  <2>. QED  BY <1>4, <1>6, <2>2, <2>3, WriteInode DEF store, history
<1>8. /\ hpc' \in [Notifier -> {"idle", "notify", "snap", "open", "write", "rename"}]
      /\ hfile' \in [Notifier -> Inode \cup {Nothing}]
  BY <1>1, <1>4 DEF PersistTypeOK
<1>9. InHand'
  <2>1. ASSUME NEW g \in Notifier, hpc'[g] = "write" PROVE hfile'[g] \in Inode
    <3>1. g # h /\ hpc[g] = "write" /\ hfile'[g] = hfile[g]
      BY <1>1, <1>4, <2>1 DEF PersistTypeOK
    <3>. QED  BY <1>1, <3>1 DEF InHand
  <2>. QED  BY <1>1, <1>4, <2>1 DEF InHand, remover
<1>10. PastInv'
  BY <1>1, <1>4, PastKept DEF PastInv, store, job, history
<1>11. PersistTypeOK'
  BY <1>1, <1>4, <1>7, <1>8 DEF PersistTypeOK, store, job, remover, history
<1>. QED  BY <1>7, <1>9, <1>10, <1>11 DEF PersistInv

\* os.Rename, which may find the temporary file gone.
LEMMA UninstallRenameStep ==
  ASSUME PersistInv, NEW h \in Notifier, UninstallRename(h)
  PROVE  PersistInv'
<1>1. PersistTypeOK /\ PastInv /\ ConsentInv /\ InHand
  BY DEF PersistInv
<1>2. /\ path' = (IF tmp = Nothing THEN path ELSE tmp) /\ tmp' = Nothing
      /\ hpc' = [hpc EXCEPT ![h] = "idle"] /\ hsnap' = [hsnap EXCEPT ![h] = NoRequest]
      /\ UNCHANGED <<store, hfile, job, remover, approvalsFile, inode, tombFile, history>>
  BY DEF UninstallRename
<1>3. /\ hpc' \in [Notifier -> {"idle", "notify", "snap", "open", "write", "rename"}]
      /\ hsnap' \in [Notifier -> Requests]
      /\ \A g \in Notifier : hsnap'[g] = IF g = h THEN NoRequest ELSE hsnap[g]
      /\ \A g \in Notifier : hpc'[g] = "write" => hpc[g] = "write"
      /\ path' \in Inode \cup {Nothing}
  BY <1>1, <1>2, EmptyFacts DEF PersistTypeOK
<1>4. PastInv'
  BY <1>1, <1>2, PastKept DEF PastInv, store, job, history
<1>5. ConsentInv'
  BY <1>1, <1>2, <1>3, EmptyFacts DEF ConsentInv, HonestRequests, store, history
<1>6. InHand'
  BY <1>1, <1>2, <1>3 DEF InHand, remover
<1>7. PersistTypeOK'
  BY <1>1, <1>2, <1>3 DEF PersistTypeOK, store, job, remover, history
<1>. QED  BY <1>4, <1>5, <1>6, <1>7 DEF PersistInv

\* RemoveAgent's tombstone and its file.
LEMMA TombStep ==
  ASSUME PersistInv, NEW r \in Remover,
         AddTombstone(r) \/ TombSnapshot(r) \/ TombTruncate(r) \/ TombWrite(r)
  PROVE  PersistInv'
<1>1. PersistTypeOK /\ PastInv /\ ConsentInv /\ InHand
  BY DEF PersistInv
<1>2. UNCHANGED <<agents, request, notifier, job, approvalsFile, inode, path, tmp,
                  everApproved, everConsented, past, changes>>
  BY DEF AddTombstone, TombSnapshot, TombTruncate, TombWrite, store, disk, history
<1>3. rwho[r] \in Agent
  BY <1>1 DEF InHand, AddTombstone, TombSnapshot, TombTruncate, TombWrite
<1>4. /\ rpc \in [Remover -> {"idle", "tomb", "snap", "truncate", "write"}]
      /\ rwho \in [Remover -> Agent \cup {Nothing}] /\ rsnap \in [Remover -> SUBSET Agent]
      /\ tombstones \subseteq Agent /\ tombFile \subseteq Agent /\ removed \subseteq Agent
  BY <1>1 DEF PersistTypeOK
<1>5. /\ rpc' \in [Remover -> {"idle", "tomb", "snap", "truncate", "write"}]
      /\ rwho' \in [Remover -> Agent \cup {Nothing}] /\ rsnap' \in [Remover -> SUBSET Agent]
      /\ tombstones' \subseteq Agent /\ tombFile' \subseteq Agent /\ removed' \subseteq Agent
  <2>1. CASE AddTombstone(r)
    BY <1>3, <1>4, <2>1 DEF AddTombstone, disk, history
  <2>2. CASE TombSnapshot(r)
    BY <1>4, <2>2 DEF TombSnapshot, store, disk, history
  <2>3. CASE TombTruncate(r)
    BY <1>4, <2>3 DEF TombTruncate, store, history
  <2>4. CASE TombWrite(r)
    BY <1>3, <1>4, <2>4 DEF TombWrite, store
  <2>. QED  BY <2>1, <2>2, <2>3, <2>4
<1>6. ASSUME NEW q \in Remover, rpc'[q] # "idle" PROVE rwho'[q] \in Agent
  <2>1. CASE q = r
    BY <1>3, <1>4, <1>6, <2>1 DEF AddTombstone, TombSnapshot, TombTruncate, TombWrite
  <2>2. CASE q # r
    <3>1. rpc'[q] = rpc[q] /\ rwho'[q] = rwho[q]
      BY <1>4, <2>2 DEF AddTombstone, TombSnapshot, TombTruncate, TombWrite
    <3>. QED  BY <1>1, <1>6, <3>1 DEF InHand
  <2>. QED  BY <2>1, <2>2
<1>7. InHand'
  BY <1>1, <1>2, <1>6 DEF InHand, notifier
<1>8. PastInv' /\ ConsentInv'
  BY <1>1, <1>2, PastKept, ConsentKept DEF PastInv, notifier, job
<1>9. PersistTypeOK'
  BY <1>1, <1>2, <1>5 DEF PersistTypeOK, notifier, job
<1>. QED  BY <1>7, <1>8, <1>9 DEF PersistInv

\* A crash and a restart at any moment: the approvals are those of the file, without
\* the tombstoned agents, and the requests those of a whole uninstall file.
LEMMA RestartStep ==
  ASSUME PersistInv, Restart
  PROVE  PersistInv'
<1>1. PersistTypeOK /\ PastInv /\ ConsentInv /\ InHand
  BY DEF PersistInv
<1>2. /\ agents' = Loaded /\ request' = LoadedRequests /\ tombstones' = tombFile
      /\ hpc' = [h \in Notifier |-> "idle"] /\ hsnap' = [h \in Notifier |-> NoRequest]
      /\ hfile' = [h \in Notifier |-> Nothing]
      /\ jpc' = [j \in Job |-> "idle"] /\ jsnap' = [j \in Job |-> NoTable]
  BY DEF Restart
<1>3. /\ rpc' = [r \in Remover |-> "idle"] /\ rwho' = [r \in Remover |-> Nothing]
      /\ rsnap' = [r \in Remover |-> {}] /\ past' = past \cup {agents'}
      /\ UNCHANGED <<disk, everApproved, everConsented, removed, changes>>
  BY DEF Restart, Remember
<1>4. approvalsFile \in Table /\ HonestTable(approvalsFile) /\ Counted(approvalsFile)
      /\ changes \in Nat
  BY <1>1, PersistAssumption DEF PersistTypeOK, PastInv
<1>5. agents' \in Table /\ \A a \in Agent : agents'[a] \in {NoRecord, approvalsFile[a]}
  BY <1>2, <1>4, EmptyFacts DEF Loaded, Table
<1>6. HonestTable(agents)'
  BY <1>3, <1>4, <1>5, EmptyFacts DEF HonestTable
<1>7. Counted(agents)'
  <2>1. ASSUME NEW a \in Agent PROVE agents'[a].offline <= changes
    BY <1>4, <1>5, EmptyFacts DEF Counted
  <2>. QED  BY <1>3, <2>1 DEF Counted
<1>8. PastInv' /\ past' \subseteq Table
  <2>1. \A j \in Job : jsnap'[j] \in past'
    BY <1>1, <1>2, <1>3 DEF PastInv
  <2>2. everApproved \subseteq everApproved' /\ changes' \in Nat /\ changes <= changes'
        /\ approvalsFile' = approvalsFile
    BY <1>3, <1>4 DEF disk
  <2>. QED  BY <1>1, <1>3, <1>4, <1>5, <1>6, <1>7, <2>1, <2>2, PastStep
<1>9. request' \in Requests /\ HonestRequests(request')
  <2>1. CASE path # Nothing /\ inode[path].kind = "whole"
    <3>1. path \in Inode
      BY <1>1, <2>1 DEF PersistTypeOK
    <3>. QED  BY <1>2, <2>1, <3>1, InodeFacts DEF LoadedRequests
  <2>2. CASE ~(path # Nothing /\ inode[path].kind = "whole")
    BY <1>2, <2>2, EmptyFacts DEF LoadedRequests, HonestRequests
  <2>. QED  BY <2>1, <2>2
<1>10. ConsentInv'
  BY <1>1, <1>2, <1>3, <1>9, EmptyFacts DEF ConsentInv, HonestRequests, disk
<1>11. InHand'
  BY <1>2, <1>3 DEF InHand
<1>12. PersistTypeOK'
  <2>1. /\ hpc' \in [Notifier -> {"idle", "notify", "snap", "open", "write", "rename"}]
        /\ hsnap' \in [Notifier -> Requests] /\ hfile' \in [Notifier -> Inode \cup {Nothing}]
        /\ jpc' \in [Job -> {"idle", "snap", "write"}] /\ jsnap' \in [Job -> Table]
    BY <1>2, EmptyFacts
  <2>2. /\ rpc' \in [Remover -> {"idle", "tomb", "snap", "truncate", "write"}]
        /\ rwho' \in [Remover -> Agent \cup {Nothing}] /\ rsnap' \in [Remover -> SUBSET Agent]
    BY <1>3
  <2>. QED  BY <1>1, <1>2, <1>3, <1>5, <1>8, <1>9, <2>1, <2>2 DEF PersistTypeOK, disk
<1>. QED  BY <1>8, <1>10, <1>11, <1>12 DEF PersistInv

\* A first start: nothing was ever approved, asked for or written.
LEMMA PersistInitInv ==
  ASSUME PersistInit
  PROVE  PersistInv
<1>1. /\ agents = NoTable /\ request = NoRequest /\ tombstones = {}
      /\ hpc = [h \in Notifier |-> "idle"] /\ hsnap = [h \in Notifier |-> NoRequest]
      /\ hfile = [h \in Notifier |-> Nothing]
      /\ jpc = [j \in Job |-> "idle"] /\ jsnap = [j \in Job |-> NoTable]
  BY DEF PersistInit
<1>2. /\ rpc = [r \in Remover |-> "idle"] /\ rwho = [r \in Remover |-> Nothing]
      /\ rsnap = [r \in Remover |-> {}]
      /\ approvalsFile = NoTable /\ inode = [i \in Inode |-> Partial]
      /\ path = Nothing /\ tmp = Nothing /\ tombFile = {}
  BY DEF PersistInit
<1>3. /\ everApproved = {} /\ everConsented = {} /\ removed = {}
      /\ past = {NoTable} /\ changes = 0
  BY DEF PersistInit
<1>4. PersistTypeOK
  <2>1. /\ hpc \in [Notifier -> {"idle", "notify", "snap", "open", "write", "rename"}]
        /\ hsnap \in [Notifier -> Requests] /\ hfile \in [Notifier -> Inode \cup {Nothing}]
        /\ jpc \in [Job -> {"idle", "snap", "write"}] /\ jsnap \in [Job -> Table]
    BY <1>1, EmptyFacts
  <2>2. /\ rpc \in [Remover -> {"idle", "tomb", "snap", "truncate", "write"}]
        /\ rwho \in [Remover -> Agent \cup {Nothing}] /\ rsnap \in [Remover -> SUBSET Agent]
        /\ inode \in [Inode -> [kind : {"partial", "whole", "garbled"}, data : Requests]]
    BY <1>2, EmptyFacts
  <2>3. changes \in 0 .. MaxChanges
    BY <1>3, PersistAssumption
  <2>. QED  BY <1>1, <1>2, <1>3, <2>1, <2>2, <2>3, EmptyFacts DEF PersistTypeOK
<1>5. PastInv
  BY <1>1, <1>2, <1>3, EmptyFacts DEF PastInv, HonestTable, Counted
<1>6. ConsentInv
  BY <1>1, <1>2, EmptyFacts DEF ConsentInv, HonestRequests
<1>7. InHand
  BY <1>1, <1>2 DEF InHand
<1>. QED  BY <1>4, <1>5, <1>6, <1>7 DEF PersistInv

\* The inductive invariant of the store, its goroutines and its files.
THEOREM PersistInvariance == PersistSpec => []PersistInv
<1>1. PersistInit => PersistInv
  BY PersistInitInv
<1>2. PersistInv /\ [PersistNext]_persistVars => PersistInv'
  <2>1. ASSUME PersistInv, PersistNext PROVE PersistInv'
    <3>1. ASSUME NEW h \in Notifier,
                 UninstallSnapshot(h) \/ UninstallOpen(h) \/ UninstallWrite(h) \/ UninstallRename(h)
          PROVE  PersistInv'
      BY <2>1, <3>1, UninstallSnapshotStep, UninstallOpenStep, UninstallWriteStep, UninstallRenameStep
    <3>2. ASSUME NEW a \in Agent,
                 \/ BecomesPending(a) \/ AddOfflineEvent(a)
                 \/ \E h \in Notifier, s \in {"approved", "rejected"} : SetApproval(h, a, s)
                 \/ \E r \in Remover : RemoveRecord(r, a)
          PROVE  PersistInv'
      BY <2>1, <3>2, PendingStep, OfflineStep, ApprovalStep, RemoveStep
    <3>. QED  BY <2>1, <3>1, <3>2, RequestStep, SaveStep, TombStep, RestartStep DEF PersistNext
  <2>2. CASE UNCHANGED persistVars
    BY <2>2 DEF persistVars, store, notifier, job, remover, disk, history, PersistInv,
                PersistTypeOK, PastInv, ConsentInv, InHand, HonestTable, HonestRequests, Counted
  <2>. QED  BY <2>1, <2>2
<1>. QED  BY <1>1, <1>2, PTL DEF PersistSpec

\* Type correctness of the store, the goroutines that save it and the files.
THEOREM PersistTypeCorrect == PersistSpec => []PersistTypeOK
<1>1. PersistInv => PersistTypeOK
  BY DEF PersistInv
<1>. QED  BY <1>1, PersistInvariance, PTL

\* However Save, SaveUninstall and RemoveAgent interleave and wherever a crash falls,
\* the server approves no agent and lets none uninstall that no administrator did.
THEOREM RestoreSafety == PersistSpec => []RestoreInventsNothing
<1>1. PersistInv => RestoreInventsNothing
  BY DEF PersistInv, PastInv, ConsentInv, HonestTable, HonestRequests, RestoreInventsNothing
<1>. QED  BY <1>1, PersistInvariance, PTL

\* Save's snapshot and its rename put one moment of the store in approvals.json.
THEOREM FileSafety == PersistSpec => []FileIsOneMoment
<1>1. PersistInv => FileIsOneMoment
  BY DEF PersistInv, PastInv, FileIsOneMoment
<1>. QED  BY <1>1, PersistInvariance, PTL

\* A handler that has to create the temporary file finds an inode nobody refers to.
InodesSuffice == tmp = Nothing => Unused # {}

\* The inodes of the model are enough for any number of handlers: each has at most one
\* file open, and the paths lead to two more.
THEOREM InodesAreEnough == PersistSpec => []InodesSuffice
<1>1. ASSUME PersistInv, tmp = Nothing, Unused = {} PROVE FALSE
  <2>. DEFINE InUse == {hfile[h] : h \in Notifier}
  <2>1. hfile \in Surjection(Notifier, InUse)
    BY <1>1 DEF PersistInv, PersistTypeOK, Surjection
  <2>2. IsFiniteSet(InUse) /\ Cardinality(InUse) <= Cardinality(Notifier)
    BY <2>1, PersistAssumption, FS_Surjection DEF ExistsSurjection
  <2>3. Cardinality(Notifier) \in Nat /\ Cardinality(InUse) \in Nat
    BY <2>2, PersistAssumption, FS_CardinalityType
  <2>4. /\ IsFiniteSet(InUse \cup {path})
        /\ Cardinality(InUse \cup {path}) <= Cardinality(Notifier) + 1
    <3>. HIDE DEF InUse
    <3>. QED  BY <2>2, <2>3, FS_AddElement
  <2>5. Cardinality(InUse \cup {path}) \in Nat
    BY <2>4, FS_CardinalityType
  <2>6. Nothing \notin Inode
    BY <2>3, PersistAssumption DEF Inode
  <2>7. Inode \subseteq InUse \cup {path}
    BY <1>1, <2>6 DEF Unused
  <2>8. Cardinality(Inode) <= Cardinality(InUse \cup {path})
    BY <2>4, <2>7, FS_Subset
  <2>9. Cardinality(Inode) = Cardinality(Notifier) + 2
    BY <2>3, FS_Interval DEF Inode
  <2>. QED  BY <2>3, <2>4, <2>5, <2>8, <2>9
<1>2. PersistInv => InodesSuffice
  BY <1>1 DEF InodesSuffice
<1>. QED  BY <1>2, PersistInvariance, PTL

-----------------------------------------------------------------------------
(* Port forwarding.  ListedIsOpen rests on what is in flight: while Create  *)
(* waits, has its answer or has listed the forward, no pf_close for it is   *)
(* on the way to the agent, and once the agent has answered "ok" to a       *)
(* Create that still waits, it has a context for the forward.               *)

Reply   == [type : {"ack", "error"}, fid : Fwd]
             \cup [type : {"data", "closed"}, fid : Fwd, cid : Cid, src : Cid \cup {NoId}]
SlotRec == [cid : Cid \cup {NoId}, fd : Cid \cup {NoId}, active : BOOLEAN]
GoodSlot == {s \in SlotRec : s.fd \in {NoId, s.cid}}
ReaderRec == [pc : {"none", "check", "read", "send", "close", "exit", "gone"},
              ctx : Ctx \cup {NoId}, slot : ConnSlot \cup {NoId}, fd : Cid \cup {NoId}]

ServerOK ==
  /\ create \in [Fwd -> {"none", "requested", "acked", "done", "failed"}]
  /\ forwards \subseteq Fwd /\ listener \subseteq Fwd
  /\ conns \in [Fwd -> SUBSET Cid]
  /\ fwdOf \in [Cid -> Fwd \cup {NoId}]
  /\ user \in [Cid -> {"none", "open", "closed"}]
  /\ handler \in [Cid -> {"none", "start", "accept", "read", "notify", "done"}]
  /\ \A c \in Cid : handler[c] # "none" => fwdOf[c] \in Fwd

WireOK ==
  link \in {"up", "lost", "ended"} /\ toAgent \in Seq(Message) /\ toServer \in Seq(Reply)

AgentOK ==
  /\ ctx \in [Ctx -> Fwd \cup {NoId}]
  /\ slot \in [Ctx -> [ConnSlot -> GoodSlot]]
  /\ reader \in [Cid -> ReaderRec]
  /\ \A c \in Cid : reader[c].pc \notin {"none", "gone"} =>
                      reader[c].ctx \in Ctx /\ reader[c].slot \in ConnSlot
  /\ target \in [Cid -> {"none", "open", "eof", "shut"}]
  /\ sent \in 0 .. MaxData

\* A message of this type about f is in the queue q.
Holds(q, type, f) == \E i \in 1 .. Len(q) : q[i].type = type /\ q[i].fid = f

\* Create has not given up and Close has not been called.
Wanted(f) == create[f] \in {"none", "requested", "acked"} \/ f \in forwards

\* The agent's "ok" has arrived, or is on its way to a Create that waits for it.
Opened(f) ==
  create[f] = "acked" \/ f \in forwards \/ (create[f] = "requested" /\ Holds(toServer, "ack", f))

FlightInv ==
  \A f \in Fwd :
    /\ f \in forwards => create[f] = "done"
    /\ create[f] = "none" => ~Holds(toAgent, "pf_open", f) /\ ~Holds(toServer, "ack", f)
    /\ Wanted(f) => ~Holds(toAgent, "pf_close", f)
    /\ (link = "up" /\ Opened(f)) => CtxOf(f) # {}

ForwardInv == ServerOK /\ WireOK /\ AgentOK /\ FlightInv

\* A queue after a message more.
LEMMA HoldsAppend ==
  ASSUME NEW S, NEW q \in Seq(S), NEW m \in S, NEW type, NEW f
  PROVE  Holds(Append(q, m), type, f) <=> (Holds(q, type, f) \/ (m.type = type /\ m.fid = f))
<1>1. PICK v : v = Append(q, m)
  OBVIOUS
<1>2. /\ Len(q) \in Nat /\ Len(v) = Len(q) + 1 /\ v[Len(q) + 1] = m
      /\ \A i \in 1 .. Len(q) : v[i] = q[i]
  BY <1>1
<1>3. ASSUME Holds(v, type, f) PROVE Holds(q, type, f) \/ (m.type = type /\ m.fid = f)
  <2>1. PICK i \in 1 .. Len(v) : v[i].type = type /\ v[i].fid = f
    BY <1>3 DEF Holds
  <2>2. CASE i = Len(q) + 1
    BY <1>2, <2>1, <2>2
  <2>3. CASE i # Len(q) + 1
    <3>1. i \in 1 .. Len(q)
      BY <1>2, <2>3
    <3>. QED  BY <1>2, <2>1, <3>1 DEF Holds
  <2>. QED  BY <2>2, <2>3
<1>4. ASSUME Holds(q, type, f) PROVE Holds(v, type, f)
  <2>1. PICK i \in 1 .. Len(q) : q[i].type = type /\ q[i].fid = f
    BY <1>4 DEF Holds
  <2>2. i \in 1 .. Len(v) /\ v[i] = q[i]
    BY <1>2
  <2>. QED  BY <2>1, <2>2 DEF Holds
<1>5. ASSUME m.type = type, m.fid = f PROVE Holds(v, type, f)
  <2>1. Len(q) + 1 \in 1 .. Len(v)
    BY <1>2
  <2>. QED  BY <1>2, <1>5, <2>1 DEF Holds
<1>. QED  BY <1>1, <1>3, <1>4, <1>5

\* A queue after its first message was taken.
LEMMA HoldsTail ==
  ASSUME NEW S, NEW q \in Seq(S), q # <<>>
  PROVE  /\ Head(q) \in S /\ Tail(q) \in Seq(S)
         /\ Holds(q, Head(q).type, Head(q).fid)
         /\ \A type, f : Holds(Tail(q), type, f) => Holds(q, type, f)
<1>1. Head(q) \in S /\ Tail(q) \in Seq(S) /\ Len(q) \in Nat /\ 1 \in 1 .. Len(q) /\ Head(q) = q[1]
  OBVIOUS
<1>2. ASSUME NEW type, NEW f, Holds(Tail(q), type, f) PROVE Holds(q, type, f)
  <2>1. PICK i \in 1 .. Len(Tail(q)) : Tail(q)[i].type = type /\ Tail(q)[i].fid = f
    BY <1>2 DEF Holds
  <2>2. i + 1 \in 1 .. Len(q) /\ Tail(q)[i] = q[i + 1]
    BY <1>1
  <2>. QED  BY <2>1, <2>2 DEF Holds
<1>. QED  BY <1>1, <1>2 DEF Holds

\* SendNoWait, on whatever connection.
LEMMA SendFacts ==
  ASSUME WireOK, NEW m \in Message, Send(m)
  PROVE  /\ toAgent' \in Seq(Message)
         /\ \A type, f : Holds(toAgent', type, f)
                           => Holds(toAgent, type, f) \/ (m.type = type /\ m.fid = f)
BY HoldsAppend DEF WireOK, Send

\* A report of a reader thread, on whatever connection.
LEMMA ToServerFacts ==
  ASSUME WireOK, NEW m \in Reply, ToServer(m)
  PROVE  /\ toServer' \in Seq(Reply)
         /\ \A type, f : Holds(toServer', type, f)
                           => Holds(toServer, type, f) \/ (m.type = type /\ m.fid = f)
BY HoldsAppend DEF WireOK, ToServer

\* A step that opens, lists and promises nothing keeps FlightInv: no Create goes
\* forward, no forward is listed, no pf_open, pf_close or ack is new, and a context
\* is given up only if nothing relies on it.
LEMMA FlightKept ==
  ASSUME ServerOK, FlightInv, forwards' \subseteq forwards,
         \A f \in Fwd : create'[f] = create[f] \/ (create[f] = "requested" /\ create'[f] = "failed"),
         \A f \in Fwd : /\ Holds(toAgent', "pf_open", f) => Holds(toAgent, "pf_open", f)
                        /\ Holds(toAgent', "pf_close", f) => Holds(toAgent, "pf_close", f)
                        /\ Holds(toServer', "ack", f) => Holds(toServer, "ack", f),
         link' = "up" => link = "up",
         \A f \in Fwd : (link' = "up" /\ Wanted(f) /\ CtxOf(f) # {}) => CtxOf(f)' # {}
  PROVE  FlightInv'
<1>1. SUFFICES ASSUME NEW f \in Fwd
               PROVE  /\ f \in forwards' => create'[f] = "done"
                      /\ create'[f] = "none" => ~Holds(toAgent', "pf_open", f)
                                                  /\ ~Holds(toServer', "ack", f)
                      /\ Wanted(f)' => ~Holds(toAgent', "pf_close", f)
                      /\ (link' = "up" /\ Opened(f)') => CtxOf(f)' # {}
  BY DEF FlightInv
<1>2. /\ f \in forwards => create[f] = "done"
      /\ create[f] = "none" => ~Holds(toAgent, "pf_open", f) /\ ~Holds(toServer, "ack", f)
      /\ Wanted(f) => ~Holds(toAgent, "pf_close", f)
      /\ (link = "up" /\ Opened(f)) => CtxOf(f) # {}
  BY DEF FlightInv
<1>3. f \in forwards' => create'[f] = "done"
  BY <1>2
<1>4. (Wanted(f)' => Wanted(f)) /\ (Opened(f)' => Opened(f)) /\ (Opened(f) => Wanted(f))
  BY <1>2, <1>3 DEF Wanted, Opened
<1>. QED  BY <1>2, <1>3, <1>4

\* A step of the server leaves the agent's own state alone.
LEMMA AgentKept ==
  ASSUME AgentOK, UNCHANGED agent
  PROVE  AgentOK' /\ ctx' = ctx /\ \A f : CtxOf(f)' = CtxOf(f)
BY DEF AgentOK, agent, CtxOf

\* Create asks the agent to open.
LEMMA CreateRequestStep ==
  ASSUME ForwardInv, NEW f \in Fwd, CreateRequest(f)
  PROVE  ForwardInv'
<1>1. ServerOK /\ WireOK /\ AgentOK /\ FlightInv /\ create[f] = "none"
  BY DEF ForwardInv, CreateRequest
<1>2. PICK m \in Message : m = [type |-> "pf_open", fid |-> f]
  BY DEF Message
<1>3. m.type = "pf_open" /\ m.fid = f /\ Send(m)
  BY <1>2 DEF CreateRequest
<1>4. /\ create' = [create EXCEPT ![f] = "requested"]
      /\ UNCHANGED <<forwards, listener, conns, fwdOf, user, handler, link, toServer, agent>>
  BY DEF CreateRequest
<1>5. /\ toAgent' \in Seq(Message)
      /\ \A g \in Fwd : Holds(toAgent', "pf_close", g) => Holds(toAgent, "pf_close", g)
      /\ \A g \in Fwd : Holds(toAgent', "pf_open", g) => Holds(toAgent, "pf_open", g) \/ g = f
  BY <1>1, <1>3, SendFacts
<1>6. AgentOK' /\ \A g : CtxOf(g)' = CtxOf(g)
  BY <1>1, <1>4, AgentKept
<1>7. /\ create \in [Fwd -> {"none", "requested", "acked", "done", "failed"}]
      /\ \A g \in Fwd : create'[g] = IF g = f THEN "requested" ELSE create[g]
  BY <1>1, <1>4 DEF ServerOK
<1>8. ServerOK' /\ WireOK'
  BY <1>1, <1>4, <1>5, <1>7 DEF ServerOK, WireOK
<1>9. ASSUME NEW g \in Fwd
      PROVE  /\ g \in forwards' => create'[g] = "done"
             /\ create'[g] = "none" => ~Holds(toAgent', "pf_open", g) /\ ~Holds(toServer', "ack", g)
             /\ Wanted(g)' => ~Holds(toAgent', "pf_close", g)
             /\ (link' = "up" /\ Opened(g)') => CtxOf(g)' # {}
  <2>1. /\ g \in forwards => create[g] = "done"
        /\ create[g] = "none" => ~Holds(toAgent, "pf_open", g) /\ ~Holds(toServer, "ack", g)
        /\ Wanted(g) => ~Holds(toAgent, "pf_close", g)
        /\ (link = "up" /\ Opened(g)) => CtxOf(g) # {}
    BY <1>1 DEF FlightInv
  <2>2. forwards' = forwards /\ toServer' = toServer /\ link' = link
    BY <1>4
  <2>3. CASE g = f
    <3>1. create[g] = "none" /\ create'[g] = "requested" /\ g \notin forwards
      BY <1>1, <1>7, <2>1, <2>3
    <3>2. ~Opened(g)'
      BY <2>1, <2>2, <3>1 DEF Opened
    <3>3. ~Holds(toAgent', "pf_close", g)
      BY <1>5, <2>1, <3>1 DEF Wanted
    <3>. QED  BY <2>2, <3>1, <3>2, <3>3
  <2>4. CASE g # f
    <3>1. create'[g] = create[g] /\ (Wanted(g)' <=> Wanted(g)) /\ (Opened(g)' <=> Opened(g))
      BY <1>7, <2>2, <2>4 DEF Wanted, Opened
    <3>. QED  BY <1>5, <1>6, <2>1, <2>2, <2>4, <3>1
  <2>. QED  BY <2>3, <2>4
<1>10. FlightInv'
  BY <1>9 DEF FlightInv
<1>. QED  BY <1>6, <1>8, <1>10 DEF ForwardInv

\* Request fails.
LEMMA CreateTimeoutStep ==
  ASSUME ForwardInv, NEW f \in Fwd, CreateTimeout(f)
  PROVE  ForwardInv'
<1>1. ServerOK /\ WireOK /\ AgentOK /\ FlightInv
  BY DEF ForwardInv
<1>2. /\ create[f] = "requested" /\ create' = [create EXCEPT ![f] = "failed"]
      /\ UNCHANGED <<forwards, listener, conns, fwdOf, user, handler, link, toAgent, toServer, agent>>
  BY DEF CreateTimeout
<1>3. AgentOK' /\ \A g : CtxOf(g)' = CtxOf(g)
  BY <1>1, <1>2, AgentKept
<1>4. ServerOK' /\ WireOK'
  BY <1>1, <1>2 DEF ServerOK, WireOK
<1>5. \A g \in Fwd : create'[g] = create[g] \/ (create[g] = "requested" /\ create'[g] = "failed")
  BY <1>1, <1>2 DEF ServerOK
<1>6. FlightInv'
  BY <1>1, <1>2, <1>3, <1>5, FlightKept
<1>. QED  BY <1>3, <1>4, <1>6 DEF ForwardInv

\* What Close and a failed Listen do to the queue: f is not wanted any more.
LEMMA UnwantedStep ==
  ASSUME ForwardInv, NEW f \in Fwd, NEW m \in Message, m.type = "pf_close", m.fid = f, Send(m),
         f \notin forwards', forwards' \subseteq forwards,
         create' \in [Fwd -> {"none", "requested", "acked", "done", "failed"}],
         create'[f] \in {"done", "failed"}, \A g \in Fwd : g # f => create'[g] = create[g],
         UNCHANGED <<link, toServer, agent>>
  PROVE  toAgent' \in Seq(Message) /\ FlightInv'
<1>1. ServerOK /\ WireOK /\ AgentOK /\ FlightInv
  BY DEF ForwardInv
<1>2. /\ toAgent' \in Seq(Message)
      /\ \A g \in Fwd : Holds(toAgent', "pf_close", g) => Holds(toAgent, "pf_close", g) \/ g = f
      /\ \A g \in Fwd : Holds(toAgent', "pf_open", g) => Holds(toAgent, "pf_open", g)
  BY <1>1, SendFacts
<1>3. \A g : CtxOf(g)' = CtxOf(g)
  BY <1>1, AgentKept
<1>4. ASSUME NEW g \in Fwd
      PROVE  /\ g \in forwards' => create'[g] = "done"
             /\ create'[g] = "none" => ~Holds(toAgent', "pf_open", g) /\ ~Holds(toServer', "ack", g)
             /\ Wanted(g)' => ~Holds(toAgent', "pf_close", g)
             /\ (link' = "up" /\ Opened(g)') => CtxOf(g)' # {}
  <2>1. /\ g \in forwards => create[g] = "done"
        /\ create[g] = "none" => ~Holds(toAgent, "pf_open", g) /\ ~Holds(toServer, "ack", g)
        /\ Wanted(g) => ~Holds(toAgent, "pf_close", g)
        /\ (link = "up" /\ Opened(g)) => CtxOf(g) # {}
    BY <1>1 DEF FlightInv
  <2>2. CASE g = f
    <3>1. ~Wanted(g)' /\ ~Opened(g)' /\ g \notin forwards' /\ create'[g] # "none"
      BY <2>2 DEF Wanted, Opened
    <3>. QED  BY <3>1
  <2>3. CASE g # f
    <3>1. create'[g] = create[g] /\ (Wanted(g)' => Wanted(g)) /\ (Opened(g)' => Opened(g))
      BY <2>3 DEF Wanted, Opened
    <3>. QED  BY <1>2, <1>3, <2>1, <2>3, <3>1
  <2>. QED  BY <2>2, <2>3
<1>. QED  BY <1>2, <1>4 DEF FlightInv

\* The listener opens and the forward is listed, or the agent is told to close.
LEMMA CreateListenStep ==
  ASSUME ForwardInv, NEW f \in Fwd, CreateListen(f)
  PROVE  ForwardInv'
<1>1. ServerOK /\ WireOK /\ AgentOK /\ FlightInv /\ create[f] = "acked"
  BY DEF ForwardInv, CreateListen
<1>2. UNCHANGED <<conns, fwdOf, user, handler, link, toServer, agent>>
  BY DEF CreateListen
<1>3. AgentOK' /\ \A g : CtxOf(g)' = CtxOf(g)
  BY <1>1, <1>2, AgentKept
<1>4. CASE /\ listener' = listener \cup {f} /\ forwards' = forwards \cup {f}
           /\ create' = [create EXCEPT ![f] = "done"] /\ UNCHANGED toAgent
  <2>1. ServerOK' /\ WireOK'
    BY <1>1, <1>2, <1>4 DEF ServerOK, WireOK
  <2>2. \A g \in Fwd : create'[g] = IF g = f THEN "done" ELSE create[g]
    BY <1>1, <1>4 DEF ServerOK
  <2>3. ASSUME NEW g \in Fwd
        PROVE  /\ g \in forwards' => create'[g] = "done"
               /\ create'[g] = "none" => ~Holds(toAgent', "pf_open", g) /\ ~Holds(toServer', "ack", g)
               /\ Wanted(g)' => ~Holds(toAgent', "pf_close", g)
               /\ (link' = "up" /\ Opened(g)') => CtxOf(g)' # {}
    <3>1. /\ g \in forwards => create[g] = "done"
          /\ create[g] = "none" => ~Holds(toAgent, "pf_open", g) /\ ~Holds(toServer, "ack", g)
          /\ Wanted(g) => ~Holds(toAgent, "pf_close", g)
          /\ (link = "up" /\ Opened(g)) => CtxOf(g) # {}
      BY <1>1 DEF FlightInv
    <3>2. toAgent' = toAgent /\ toServer' = toServer /\ link' = link /\ CtxOf(g)' = CtxOf(g)
      BY <1>2, <1>3, <1>4
    <3>3. CASE g = f
      <4>1. Wanted(g) /\ Opened(g) /\ create'[g] = "done"
        BY <1>1, <2>2, <3>3 DEF Wanted, Opened
      <4>. QED  BY <3>1, <3>2, <4>1
    <3>4. CASE g # f
      <4>1. /\ create'[g] = create[g] /\ (g \in forwards' <=> g \in forwards)
            /\ (Wanted(g)' <=> Wanted(g)) /\ (Opened(g)' <=> Opened(g))
        BY <1>4, <2>2, <3>2, <3>4 DEF Wanted, Opened
      <4>. QED  BY <3>1, <3>2, <4>1
    <3>. QED  BY <3>3, <3>4
  <2>4. FlightInv'
    BY <2>3 DEF FlightInv
  <2>. QED  BY <1>3, <2>1, <2>4 DEF ForwardInv
<1>5. CASE /\ Send([type |-> "pf_close", fid |-> f])
           /\ create' = [create EXCEPT ![f] = "failed"] /\ UNCHANGED <<listener, forwards>>
  <2>1. PICK m \in Message : m = [type |-> "pf_close", fid |-> f]
    BY DEF Message
  <2>2. m.type = "pf_close" /\ m.fid = f /\ Send(m)
    BY <1>5, <2>1
  <2>3. /\ create' \in [Fwd -> {"none", "requested", "acked", "done", "failed"}]
        /\ create'[f] = "failed" /\ \A g \in Fwd : g # f => create'[g] = create[g]
    BY <1>1, <1>5 DEF ServerOK
  <2>4. f \notin forwards
    BY <1>1 DEF FlightInv
  <2>5. toAgent' \in Seq(Message) /\ FlightInv'
    BY <1>2, <1>5, <2>2, <2>3, <2>4, UnwantedStep
  <2>6. ServerOK' /\ WireOK'
    BY <1>1, <1>2, <1>5, <2>3, <2>5 DEF ServerOK, WireOK
  <2>. QED  BY <1>3, <2>5, <2>6 DEF ForwardInv
<1>. QED  BY <1>4, <1>5 DEF CreateListen

\* Manager.Close and CloseByAgent: some forwards leave the map with their users.
LEMMA CloseForwardsFacts ==
  ASSUME ServerOK, NEW F \in SUBSET Fwd, CloseForwards(F), UNCHANGED <<create, fwdOf, handler>>
  PROVE  ServerOK'
<1>1. user' \in [Cid -> {"none", "open", "closed"}]
  BY DEF ServerOK, CloseForwards, Shut
<1>2. conns' \in [Fwd -> SUBSET Cid] /\ forwards' \subseteq Fwd /\ listener' \subseteq Fwd
  BY DEF ServerOK, CloseForwards
<1>. QED  BY <1>1, <1>2 DEF ServerOK

\* Close takes the forward off the list before it tells the agent.
LEMMA CloseStep ==
  ASSUME ForwardInv, NEW f \in Fwd, Close(f)
  PROVE  ForwardInv'
<1>1. ServerOK /\ WireOK /\ AgentOK /\ FlightInv /\ f \in forwards
  BY DEF ForwardInv, Close
<1>2. /\ CloseForwards({f}) /\ Send([type |-> "pf_close", fid |-> f])
      /\ UNCHANGED <<create, fwdOf, handler, link, toServer, agent>>
  BY DEF Close
<1>3. AgentOK' /\ ServerOK'
  BY <1>1, <1>2, AgentKept, CloseForwardsFacts
<1>4. PICK m \in Message : m = [type |-> "pf_close", fid |-> f]
  BY DEF Message
<1>5. m.type = "pf_close" /\ m.fid = f /\ Send(m)
  BY <1>2, <1>4
<1>6. create[f] = "done" /\ forwards' = forwards \ {f} /\ create' = create
  BY <1>1, <1>2 DEF FlightInv, CloseForwards
<1>7. create' \in [Fwd -> {"none", "requested", "acked", "done", "failed"}]
  BY <1>3 DEF ServerOK
<1>8. toAgent' \in Seq(Message) /\ FlightInv'
  BY <1>2, <1>5, <1>6, <1>7, UnwantedStep
<1>9. WireOK'
  BY <1>1, <1>2, <1>8 DEF WireOK
<1>. QED  BY <1>3, <1>8, <1>9 DEF ForwardInv

\* OnOffline closes all forwards, of a connection that is lost already.
LEMMA OfflineForwardStep ==
  ASSUME ForwardInv, Offline
  PROVE  ForwardInv'
<1>1. ServerOK /\ WireOK /\ AgentOK /\ FlightInv
  BY DEF ForwardInv
<1>2. /\ link' = "ended" /\ CloseForwards(forwards)
      /\ UNCHANGED <<create, fwdOf, handler, toAgent, toServer, agent>>
  BY DEF Offline
<1>3. AgentOK' /\ \A g : CtxOf(g)' = CtxOf(g)
  BY <1>1, <1>2, AgentKept
<1>4. ServerOK'
  <2>1. forwards \in SUBSET Fwd
    BY <1>1 DEF ServerOK
  <2>. QED  BY <1>1, <1>2, <2>1, CloseForwardsFacts
<1>5. WireOK'
  BY <1>1, <1>2 DEF WireOK
<1>6. forwards' \subseteq forwards
  BY <1>2 DEF CloseForwards
<1>7. FlightInv'
  BY <1>1, <1>2, <1>3, <1>6, FlightKept
<1>. QED  BY <1>3, <1>4, <1>5, <1>7 DEF ForwardInv

\* A goroutine of a user's connection sends at most a pf_accept or a close of one
\* connection, which changes nothing for the forwards.
LEMMA HandlerKeeps ==
  ASSUME ForwardInv, UNCHANGED <<create, forwards, link, toServer, agent>>, ServerOK',
         toAgent' = toAgent
           \/ \E m \in Message : m.type \notin {"pf_open", "pf_close"} /\ Send(m)
  PROVE  ForwardInv'
<1>1. ServerOK /\ WireOK /\ AgentOK /\ FlightInv
  BY DEF ForwardInv
<1>2. AgentOK' /\ \A g : CtxOf(g)' = CtxOf(g)
  BY <1>1, AgentKept
<1>3. /\ toAgent' \in Seq(Message)
      /\ \A g \in Fwd : /\ Holds(toAgent', "pf_open", g) => Holds(toAgent, "pf_open", g)
                        /\ Holds(toAgent', "pf_close", g) => Holds(toAgent, "pf_close", g)
  <2>1. CASE toAgent' = toAgent
    BY <1>1, <2>1 DEF WireOK
  <2>2. CASE \E m \in Message : m.type \notin {"pf_open", "pf_close"} /\ Send(m)
    BY <1>1, <2>2, SendFacts
  <2>. QED  BY <2>1, <2>2
<1>4. WireOK'
  BY <1>1, <1>3 DEF WireOK
<1>5. FlightInv'
  BY <1>1, <1>2, <1>3, FlightKept
<1>. QED  BY <1>2, <1>4, <1>5 DEF ForwardInv

\* closeConn removes a connection and closes its end, if it is still there.
LEMMA CloseConnFacts ==
  ASSUME ServerOK, NEW f \in Fwd, NEW c, CloseConn(f, c)
  PROVE  conns' \in [Fwd -> SUBSET Cid] /\ user' \in [Cid -> {"none", "open", "closed"}]
<1>1. conns' \in [Fwd -> SUBSET Cid]
  BY DEF ServerOK, CloseConn
<1>2. user' \in [Cid -> {"none", "open", "closed"}]
  BY DEF ServerOK, CloseConn, Shut
<1>. QED  BY <1>1, <1>2

\* A user connects.
LEMMA AcceptStep ==
  ASSUME ForwardInv, NEW f \in Fwd, NEW c \in Cid, Accept(f, c)
  PROVE  ForwardInv'
<1>1. ServerOK
  BY DEF ForwardInv
<1>2. /\ fwdOf' = [fwdOf EXCEPT ![c] = f] /\ user' = [user EXCEPT ![c] = "open"]
      /\ handler' = [handler EXCEPT ![c] = "start"]
      /\ UNCHANGED <<create, forwards, listener, conns, link, toAgent, toServer, agent>>
  BY DEF Accept
<1>3. /\ fwdOf' \in [Cid -> Fwd \cup {NoId}] /\ user' \in [Cid -> {"none", "open", "closed"}]
      /\ handler' \in [Cid -> {"none", "start", "accept", "read", "notify", "done"}]
      /\ \A d \in Cid : handler'[d] # "none" => fwdOf'[d] \in Fwd
  BY <1>1, <1>2 DEF ServerOK
<1>4. ServerOK'
  BY <1>1, <1>2, <1>3 DEF ServerOK
<1>. QED  BY <1>2, <1>4, HandlerKeeps

\* A step of handleConn.
LEMMA HandlerStepKeeps ==
  ASSUME ForwardInv, NEW c \in Cid, Handler(c) \/ HandleEOF(c)
  PROVE  ForwardInv'
<1>1. ServerOK /\ fwdOf[c] \in Fwd
  BY DEF ForwardInv, ServerOK, Handler, HandleStart, HandleAccept, HandleNotify, HandleEOF
<1>2. UNCHANGED <<create, forwards, listener, fwdOf, link, toServer, agent>>
  BY DEF Handler, HandleStart, HandleAccept, HandleNotify, HandleEOF
<1>3. PICK p \in {"accept", "read", "notify", "done"} : handler' = [handler EXCEPT ![c] = p]
  BY DEF Handler, HandleStart, HandleAccept, HandleNotify, HandleEOF
<1>4. handler[c] # "none"
  BY DEF Handler, HandleStart, HandleAccept, HandleNotify, HandleEOF
<1>5. /\ handler' \in [Cid -> {"none", "start", "accept", "read", "notify", "done"}]
      /\ \A d \in Cid : handler'[d] # "none" => fwdOf'[d] \in Fwd
  BY <1>1, <1>2, <1>3 DEF ServerOK
<1>6. conns' \in [Fwd -> SUBSET Cid] /\ user' \in [Cid -> {"none", "open", "closed"}]
  <2>1. CASE CloseConn(fwdOf[c], c)
    BY <1>1, <2>1, CloseConnFacts
  <2>2. CASE conns' = [conns EXCEPT ![fwdOf[c]] = @ \cup {c}] /\ UNCHANGED user
    BY <1>1, <2>2 DEF ServerOK
  <2>3. CASE UNCHANGED <<conns, user>>
    BY <1>1, <2>3 DEF ServerOK
  <2>. QED  BY <2>1, <2>2, <2>3 DEF Handler, HandleStart, HandleAccept, HandleNotify, HandleEOF
<1>7. ServerOK'
  BY <1>1, <1>2, <1>5, <1>6 DEF ServerOK
<1>8. toAgent' = toAgent \/ \E m \in Message : m.type \notin {"pf_open", "pf_close"} /\ Send(m)
  <2>1. ASSUME NEW type \in {"pf_accept", "closed"}, Send([type |-> type, fid |-> fwdOf[c], cid |-> c])
        PROVE  \E m \in Message : m.type \notin {"pf_open", "pf_close"} /\ Send(m)
    <3>1. PICK m : m = [type |-> type, fid |-> fwdOf[c], cid |-> c]
      OBVIOUS
    <3>2. m \in Message /\ m.type = type
      BY <1>1, <3>1 DEF Message
    <3>. QED  BY <2>1, <3>1, <3>2
  <2>. QED  BY <2>1 DEF Handler, HandleStart, HandleAccept, HandleNotify, HandleEOF
<1>. QED  BY <1>2, <1>7, <1>8, HandlerKeeps

\* The server takes a message of the agent.
LEMMA ServerReceiveStep ==
  ASSUME ForwardInv, ServerReceive
  PROVE  ForwardInv'
<1>1. ServerOK /\ WireOK /\ AgentOK /\ FlightInv
  BY DEF ForwardInv
<1>2. PICK m : m = Head(toServer)
  OBVIOUS
<1>3. /\ toServer # <<>> /\ toServer' = Tail(toServer)
      /\ UNCHANGED <<forwards, listener, fwdOf, handler, link, toAgent, agent>>
  BY DEF ServerReceive
<1>4. /\ m \in Reply /\ toServer' \in Seq(Reply) /\ Holds(toServer, m.type, m.fid)
      /\ \A type, f : Holds(toServer', type, f) => Holds(toServer, type, f)
  BY <1>1, <1>2, <1>3, HoldsTail DEF WireOK
<1>5. m.fid \in Fwd
  BY <1>4 DEF Reply
<1>6. AgentOK' /\ \A g : CtxOf(g)' = CtxOf(g)
  BY <1>1, <1>3, AgentKept
<1>7. WireOK'
  BY <1>1, <1>3, <1>4 DEF WireOK
<1>8. \/ /\ m.type = "ack" /\ UNCHANGED <<conns, user>>
         /\ create' = [create EXCEPT ![m.fid] = IF @ = "requested" THEN "acked" ELSE @]
      \/ /\ m.type # "ack" /\ UNCHANGED <<conns, user>>
         /\ create' = [create EXCEPT ![m.fid] = IF @ = "requested" THEN "failed" ELSE @]
      \/ create' = create /\ CloseConn(m.fid, m.cid)
      \/ UNCHANGED <<create, conns, user>>
  BY <1>2 DEF ServerReceive
<1>9. ServerOK'
  <2>1. create' \in [Fwd -> {"none", "requested", "acked", "done", "failed"}]
    BY <1>1, <1>8 DEF ServerOK
  <2>2. conns' \in [Fwd -> SUBSET Cid] /\ user' \in [Cid -> {"none", "open", "closed"}]
    <3>1. CASE CloseConn(m.fid, m.cid)
      BY <1>1, <1>5, <3>1, CloseConnFacts
    <3>2. CASE UNCHANGED <<conns, user>>
      BY <1>1, <3>2 DEF ServerOK
    <3>. QED  BY <1>8, <3>1, <3>2
  <2>. QED  BY <1>1, <1>3, <2>1, <2>2 DEF ServerOK
<1>10. CASE /\ m.type = "ack"
            /\ create' = [create EXCEPT ![m.fid] = IF @ = "requested" THEN "acked" ELSE @]
  <2>1. ASSUME NEW g \in Fwd
        PROVE  /\ g \in forwards' => create'[g] = "done"
               /\ create'[g] = "none" => ~Holds(toAgent', "pf_open", g) /\ ~Holds(toServer', "ack", g)
               /\ Wanted(g)' => ~Holds(toAgent', "pf_close", g)
               /\ (link' = "up" /\ Opened(g)') => CtxOf(g)' # {}
    <3>1. /\ g \in forwards => create[g] = "done"
          /\ create[g] = "none" => ~Holds(toAgent, "pf_open", g) /\ ~Holds(toServer, "ack", g)
          /\ Wanted(g) => ~Holds(toAgent, "pf_close", g)
          /\ (link = "up" /\ Opened(g)) => CtxOf(g) # {}
      BY <1>1 DEF FlightInv
    <3>2. /\ toAgent' = toAgent /\ forwards' = forwards /\ link' = link /\ CtxOf(g)' = CtxOf(g)
          /\ Holds(toServer', "ack", g) => Holds(toServer, "ack", g)
      BY <1>3, <1>4, <1>6
    <3>3. \/ create'[g] = create[g]
          \/ create[g] = "requested" /\ create'[g] = "acked" /\ g = m.fid
      BY <1>1, <1>5, <1>10 DEF ServerOK
    <3>4. create[g] = "requested" /\ create'[g] = "acked" /\ g = m.fid => Holds(toServer, "ack", g)
      BY <1>4, <1>10
    <3>5. (Wanted(g)' => Wanted(g)) /\ (Opened(g)' => Opened(g))
      BY <3>2, <3>3, <3>4 DEF Wanted, Opened
    <3>. QED  BY <3>1, <3>2, <3>3, <3>5
  <2>2. FlightInv'
    BY <2>1 DEF FlightInv
  <2>. QED  BY <1>6, <1>7, <1>9, <2>2 DEF ForwardInv
<1>11. CASE ~(/\ m.type = "ack"
              /\ create' = [create EXCEPT ![m.fid] = IF @ = "requested" THEN "acked" ELSE @])
  <2>1. \A g \in Fwd : create'[g] = create[g] \/ (create[g] = "requested" /\ create'[g] = "failed")
    BY <1>1, <1>5, <1>8, <1>11 DEF ServerOK
  <2>2. FlightInv'
    BY <1>1, <1>3, <1>4, <1>6, <2>1, FlightKept
  <2>. QED  BY <1>6, <1>7, <1>9, <2>2 DEF ForwardInv
<1>. QED  BY <1>10, <1>11

\* Slots stay slots whose socket is their connection's.
LEMMA SlotFacts ==
  /\ FreeSlot \in GoodSlot
  /\ \A c \in Cid : [cid |-> c, fd |-> c, active |-> TRUE] \in GoodSlot
  /\ \A s \in GoodSlot : Emptied(s) \in GoodSlot /\ [s EXCEPT !.active = FALSE, !.fd = NoId] \in GoodSlot
<1>1. FreeSlot \in GoodSlot
  <2>1. FreeSlot \in SlotRec /\ FreeSlot.fd = NoId
    BY DEF FreeSlot, SlotRec
  <2>. QED  BY <2>1 DEF GoodSlot
<1>2. ASSUME NEW c \in Cid PROVE [cid |-> c, fd |-> c, active |-> TRUE] \in GoodSlot
  BY DEF GoodSlot, SlotRec
<1>3. ASSUME NEW s \in GoodSlot PROVE [s EXCEPT !.active = FALSE, !.fd = NoId] \in GoodSlot
  <2>1. PICK v : v = [s EXCEPT !.active = FALSE, !.fd = NoId]
    OBVIOUS
  <2>2. s \in SlotRec
    BY DEF GoodSlot
  <2>3. v \in SlotRec /\ v.fd = NoId
    BY <2>1, <2>2 DEF SlotRec
  <2>. QED  BY <2>1, <2>3 DEF GoodSlot
<1>4. ASSUME NEW s \in GoodSlot PROVE Emptied(s) \in GoodSlot
  BY <1>3 DEF Emptied
<1>. QED  BY <1>1, <1>2, <1>3, <1>4

\* A message taken by the agent's main thread.
LEMMA ReceiveFacts ==
  ASSUME WireOK, NEW type, Receive(type)
  PROVE  /\ Head(toAgent) \in Message /\ Head(toAgent).type = type /\ Head(toAgent).fid \in Fwd
         /\ toAgent' \in Seq(Message) /\ Holds(toAgent, type, Head(toAgent).fid)
         /\ \A t, f : Holds(toAgent', t, f) => Holds(toAgent, t, f)
<1>1. toAgent # <<>> /\ toAgent \in Seq(Message) /\ toAgent' = Tail(toAgent) /\ Head(toAgent).type = type
  BY DEF Receive, WireOK
<1>2. /\ Head(toAgent) \in Message /\ toAgent' \in Seq(Message)
      /\ Holds(toAgent, Head(toAgent).type, Head(toAgent).fid)
      /\ \A t, f : Holds(toAgent', t, f) => Holds(toAgent, t, f)
  BY <1>1, HoldsTail
<1>3. Head(toAgent).fid \in Fwd
  BY <1>2 DEF Message
<1>. QED  BY <1>1, <1>2, <1>3

\* ctc_pf_open: a free context is taken and the answer is "ok", or there is none and
\* the answer is an error.
LEMMA AgentOpenStep ==
  ASSUME ForwardInv, AgentOpen
  PROVE  ForwardInv'
<1>1. ServerOK /\ WireOK /\ AgentOK /\ FlightInv
  BY DEF ForwardInv
<1>2. PICK f : f = Head(toAgent).fid
  OBVIOUS
<1>3. Receive("pf_open") /\ UNCHANGED <<server, link, reader, target, sent>>
  BY DEF AgentOpen
<1>4. /\ f \in Fwd /\ toAgent' \in Seq(Message) /\ Holds(toAgent, "pf_open", f)
      /\ \A t, g : Holds(toAgent', t, g) => Holds(toAgent, t, g)
  BY <1>1, <1>2, <1>3, ReceiveFacts
<1>5. ServerOK' /\ create' = create /\ forwards' = forwards /\ link' = link
  BY <1>1, <1>3 DEF ServerOK, server
<1>6. f # NoId /\ create[f] # "none"
  BY <1>1, <1>4, PFAssumption DEF FlightInv
<1>7. CASE \E x \in CtxOf(NoId) :
             /\ ctx' = [ctx EXCEPT ![x] = f]
             /\ slot' = [slot EXCEPT ![x] = [j \in ConnSlot |-> FreeSlot]]
             /\ toServer' = Append(toServer, [type |-> "ack", fid |-> f])
  <2>1. PICK x \in CtxOf(NoId) :
             /\ ctx' = [ctx EXCEPT ![x] = f]
             /\ slot' = [slot EXCEPT ![x] = [j \in ConnSlot |-> FreeSlot]]
             /\ toServer' = Append(toServer, [type |-> "ack", fid |-> f])
    BY <1>7
  <2>2. x \in Ctx /\ ctx[x] = NoId
    BY DEF CtxOf
  <2>3. /\ ctx' \in [Ctx -> Fwd \cup {NoId}]
        /\ \A y \in Ctx : ctx'[y] = IF y = x THEN f ELSE ctx[y]
    BY <1>1, <1>4, <2>1, <2>2 DEF AgentOK
  <2>4. slot' \in [Ctx -> [ConnSlot -> GoodSlot]]
    <3>1. [j \in ConnSlot |-> FreeSlot] \in [ConnSlot -> GoodSlot]
      BY SlotFacts
    <3>. QED  BY <1>1, <2>1, <2>2, <3>1 DEF AgentOK
  <2>5. AgentOK'
    BY <1>1, <1>3, <2>3, <2>4 DEF AgentOK
  <2>6. PICK m \in Reply : m = [type |-> "ack", fid |-> f]
    BY <1>4 DEF Reply
  <2>7. m.type = "ack" /\ m.fid = f /\ toServer' = Append(toServer, m)
    BY <2>1, <2>6
  <2>8. /\ toServer' \in Seq(Reply)
        /\ \A g \in Fwd : Holds(toServer', "ack", g) => Holds(toServer, "ack", g) \/ g = f
    BY <1>1, <2>7, HoldsAppend DEF WireOK
  <2>9. x \in CtxOf(f)' /\ \A g \in Fwd : CtxOf(g) \subseteq CtxOf(g)'
    BY <2>2, <2>3, PFAssumption DEF CtxOf
  <2>10. ASSUME NEW g \in Fwd
         PROVE  /\ g \in forwards' => create'[g] = "done"
                /\ create'[g] = "none" => ~Holds(toAgent', "pf_open", g) /\ ~Holds(toServer', "ack", g)
                /\ Wanted(g)' => ~Holds(toAgent', "pf_close", g)
                /\ (link' = "up" /\ Opened(g)') => CtxOf(g)' # {}
    <3>1. /\ g \in forwards => create[g] = "done"
          /\ create[g] = "none" => ~Holds(toAgent, "pf_open", g) /\ ~Holds(toServer, "ack", g)
          /\ Wanted(g) => ~Holds(toAgent, "pf_close", g)
          /\ (link = "up" /\ Opened(g)) => CtxOf(g) # {}
      BY <1>1 DEF FlightInv
    <3>2. Wanted(g)' <=> Wanted(g)
      BY <1>5 DEF Wanted
    <3>3. CASE g = f
      BY <1>4, <1>5, <1>6, <2>9, <3>1, <3>2, <3>3
    <3>4. CASE g # f
      <4>1. Opened(g)' => Opened(g)
        BY <1>5, <2>8, <3>4 DEF Opened
      <4>2. CtxOf(g) # {} => CtxOf(g)' # {}
        BY <2>9
      <4>. QED  BY <1>4, <1>5, <2>8, <3>1, <3>2, <3>4, <4>1, <4>2
    <3>. QED  BY <3>3, <3>4
  <2>11. FlightInv'
    BY <2>10 DEF FlightInv
  <2>12. WireOK'
    BY <1>1, <1>4, <1>5, <2>8 DEF WireOK
  <2>. QED  BY <1>5, <2>5, <2>11, <2>12 DEF ForwardInv
<1>8. CASE toServer' = Append(toServer, [type |-> "error", fid |-> f]) /\ UNCHANGED <<ctx, slot>>
  <2>1. PICK m \in Reply : m = [type |-> "error", fid |-> f]
    BY <1>4 DEF Reply
  <2>2. m.type = "error" /\ toServer' = Append(toServer, m)
    BY <1>8, <2>1
  <2>3. /\ toServer' \in Seq(Reply)
        /\ \A g \in Fwd : Holds(toServer', "ack", g) => Holds(toServer, "ack", g)
    BY <1>1, <2>2, HoldsAppend DEF WireOK
  <2>4. AgentOK' /\ \A g : CtxOf(g)' = CtxOf(g)
    BY <1>1, <1>3, <1>8 DEF AgentOK, CtxOf
  <2>5. WireOK'
    BY <1>1, <1>4, <1>5, <2>3 DEF WireOK
  <2>6. FlightInv'
    BY <1>1, <1>4, <1>5, <2>3, <2>4, FlightKept
  <2>. QED  BY <1>5, <2>4, <2>5, <2>6 DEF ForwardInv
<1>. QED  BY <1>2, <1>7, <1>8 DEF AgentOpen

\* What the other steps of the agent have in common: no pf_open, pf_close or ack is
\* new, and only an unwanted forward loses its context.
LEMMA AgentKeeps ==
  ASSUME ForwardInv, UNCHANGED server, link' = link, AgentOK',
         toAgent' \in Seq(Message), toServer' \in Seq(Reply),
         \A type, f : Holds(toAgent', type, f) => Holds(toAgent, type, f),
         \A f : Holds(toServer', "ack", f) => Holds(toServer, "ack", f),
         \A f \in Fwd : Wanted(f) => CtxOf(f) \subseteq CtxOf(f)'
  PROVE  ForwardInv'
<1>1. ServerOK /\ WireOK /\ AgentOK /\ FlightInv
  BY DEF ForwardInv
<1>2. ServerOK' /\ create' = create /\ forwards' = forwards
  BY <1>1 DEF ServerOK, server
<1>3. WireOK'
  BY <1>1 DEF WireOK
<1>4. \A f \in Fwd : (Wanted(f) /\ CtxOf(f) # {}) => CtxOf(f)' # {}
  OBVIOUS
<1>5. FlightInv'
  BY <1>1, <1>2, <1>4, FlightKept
<1>. QED  BY <1>2, <1>3, <1>5 DEF ForwardInv

\* ctc_pf_close: by then nobody wants the forward.
LEMMA AgentCloseStep ==
  ASSUME ForwardInv, AgentClose
  PROVE  ForwardInv'
<1>1. ServerOK /\ WireOK /\ AgentOK /\ FlightInv
  BY DEF ForwardInv
<1>2. PICK f : f = Head(toAgent).fid
  OBVIOUS
<1>3. Receive("pf_close") /\ UNCHANGED <<server, link, toServer, reader, sent>>
  BY DEF AgentClose
<1>4. /\ f \in Fwd /\ toAgent' \in Seq(Message) /\ Holds(toAgent, "pf_close", f)
      /\ \A t, g : Holds(toAgent', t, g) => Holds(toAgent, t, g)
  BY <1>1, <1>2, <1>3, ReceiveFacts
<1>5. /\ ctx' = [x \in Ctx |-> IF x \in CtxOf(f) THEN NoId ELSE ctx[x]]
      /\ slot' = [x \in Ctx |-> IF x \in CtxOf(f) THEN [j \in ConnSlot |-> Emptied(slot[x][j])]
                                ELSE slot[x]]
      /\ target' \in [Cid -> {"none", "open", "eof", "shut"}]
  BY <1>1, <1>2 DEF AgentClose, AgentOK
<1>6. slot' \in [Ctx -> [ConnSlot -> GoodSlot]]
  <2>1. ASSUME NEW x \in Ctx PROVE [j \in ConnSlot |-> Emptied(slot[x][j])] \in [ConnSlot -> GoodSlot]
    BY <1>1, SlotFacts DEF AgentOK
  <2>. QED  BY <1>1, <1>5, <2>1 DEF AgentOK
<1>7. AgentOK'
  BY <1>1, <1>3, <1>5, <1>6 DEF AgentOK
<1>8. ASSUME NEW g \in Fwd, Wanted(g) PROVE CtxOf(g) \subseteq CtxOf(g)'
  <2>1. g # f
    BY <1>1, <1>4, <1>8 DEF FlightInv
  <2>. QED  BY <1>5, <2>1 DEF CtxOf
<1>. QED  BY <1>1, <1>3, <1>4, <1>7, <1>8, AgentKeeps DEF WireOK

\* A connection without a reader, before its thread starts and after it has ended.
LEMMA NoReaderFacts ==
  /\ NoReader \in ReaderRec /\ NoReader.pc = "none"
  /\ [NoReader EXCEPT !.pc = "gone"] \in ReaderRec /\ [NoReader EXCEPT !.pc = "gone"].pc = "gone"
<1>1. NoReader \in ReaderRec /\ NoReader.pc = "none"
  BY DEF NoReader, ReaderRec
<1>2. PICK v : v = [NoReader EXCEPT !.pc = "gone"]
  OBVIOUS
<1>3. v \in ReaderRec /\ v.pc = "gone"
  BY <1>1, <1>2 DEF ReaderRec
<1>. QED  BY <1>1, <1>2, <1>3

\* One reader gets a new place.
LEMMA ReaderMoves ==
  ASSUME AgentOK, NEW c \in Cid, NEW v \in ReaderRec, reader' = [reader EXCEPT ![c] = v],
         v.pc \notin {"none", "gone"} => v.ctx \in Ctx /\ v.slot \in ConnSlot,
         ctx' = ctx, slot' \in [Ctx -> [ConnSlot -> GoodSlot]],
         target' \in [Cid -> {"none", "open", "eof", "shut"}], sent' \in 0 .. MaxData
  PROVE  AgentOK'
<1>1. reader' \in [Cid -> ReaderRec] /\ \A d \in Cid : reader'[d] = IF d = c THEN v ELSE reader[d]
  BY DEF AgentOK
<1>2. \A d \in Cid : reader'[d].pc \notin {"none", "gone"} =>
                       reader'[d].ctx \in Ctx /\ reader'[d].slot \in ConnSlot
  BY <1>1 DEF AgentOK
<1>. QED  BY <1>1, <1>2 DEF AgentOK

\* ctc_pf_accept_conn: a slot and a reader for the connection, or nothing.
LEMMA AgentAcceptStep ==
  ASSUME ForwardInv, AgentAccept
  PROVE  ForwardInv'
<1>1. ServerOK /\ WireOK /\ AgentOK /\ FlightInv
  BY DEF ForwardInv
<1>2. PICK c : c = Head(toAgent).cid
  OBVIOUS
<1>3. Receive("pf_accept") /\ UNCHANGED <<server, link, toServer, ctx, sent>>
  BY DEF AgentAccept
<1>4. /\ Head(toAgent) \in Message /\ Head(toAgent).type = "pf_accept" /\ toAgent' \in Seq(Message)
      /\ \A t, g : Holds(toAgent', t, g) => Holds(toAgent, t, g)
  BY <1>1, <1>3, ReceiveFacts
<1>5. c \in Cid
  BY <1>2, <1>4 DEF Message
<1>6. AgentOK'
  <2>1. CASE UNCHANGED <<slot, reader, target>>
    BY <1>1, <1>3, <2>1 DEF AgentOK
  <2>2. CASE \E x \in CtxOf(Head(toAgent).fid), j \in ConnSlot :
               /\ slot' = [slot EXCEPT ![x][j] = [cid |-> c, fd |-> c, active |-> TRUE]]
               /\ reader' = [reader EXCEPT ![c] = [pc |-> "check", ctx |-> x, slot |-> j, fd |-> NoId]]
               /\ target' = [target EXCEPT ![c] = "open"]
    <3>1. PICK x \in CtxOf(Head(toAgent).fid), j \in ConnSlot :
               /\ slot' = [slot EXCEPT ![x][j] = [cid |-> c, fd |-> c, active |-> TRUE]]
               /\ reader' = [reader EXCEPT ![c] = [pc |-> "check", ctx |-> x, slot |-> j, fd |-> NoId]]
               /\ target' = [target EXCEPT ![c] = "open"]
      BY <2>2
    <3>2. x \in Ctx
      BY DEF CtxOf
    <3>3. PICK s \in GoodSlot : s = [cid |-> c, fd |-> c, active |-> TRUE]
      BY <1>5, SlotFacts
    <3>4. slot' \in [Ctx -> [ConnSlot -> GoodSlot]]
      BY <1>1, <3>1, <3>2, <3>3 DEF AgentOK
    <3>5. PICK v : v = [pc |-> "check", ctx |-> x, slot |-> j, fd |-> NoId]
      OBVIOUS
    <3>6. v \in ReaderRec /\ v.ctx = x /\ v.slot = j
      BY <3>2, <3>5 DEF ReaderRec
    <3>7. target' \in [Cid -> {"none", "open", "eof", "shut"}] /\ sent' \in 0 .. MaxData
      BY <1>1, <1>3, <3>1 DEF AgentOK
    <3>8. reader' = [reader EXCEPT ![c] = v] /\ ctx' = ctx
      BY <1>3, <3>1, <3>5
    <3>. QED  BY <1>1, <1>5, <3>2, <3>4, <3>6, <3>7, <3>8, ReaderMoves
  <2>. QED  BY <1>2, <2>1, <2>2 DEF AgentAccept
<1>7. \A g \in Fwd : CtxOf(g) \subseteq CtxOf(g)'
  BY <1>3 DEF CtxOf
<1>. QED  BY <1>1, <1>3, <1>4, <1>6, <1>7, AgentKeeps DEF WireOK

\* ctc_pf_conn_close.
LEMMA AgentConnCloseStep ==
  ASSUME ForwardInv, AgentConnClose
  PROVE  ForwardInv'
<1>1. ServerOK /\ WireOK /\ AgentOK /\ FlightInv
  BY DEF ForwardInv
<1>2. Receive("closed") /\ UNCHANGED <<server, link, toServer, ctx, reader, target, sent>>
  BY DEF AgentConnClose
<1>3. toAgent' \in Seq(Message) /\ \A t, g : Holds(toAgent', t, g) => Holds(toAgent, t, g)
  BY <1>1, <1>2, ReceiveFacts
<1>4. PICK m : m = Head(toAgent)
  OBVIOUS
<1>5. slot' = [x \in Ctx |-> [j \in ConnSlot |->
                 IF ctx[x] = m.fid /\ slot[x][j].cid = m.cid THEN Emptied(slot[x][j]) ELSE slot[x][j]]]
  BY <1>4 DEF AgentConnClose
<1>6. slot' \in [Ctx -> [ConnSlot -> GoodSlot]]
  <2>1. ASSUME NEW x \in Ctx, NEW j \in ConnSlot
        PROVE  slot[x][j] \in GoodSlot /\ Emptied(slot[x][j]) \in GoodSlot
    BY <1>1, SlotFacts DEF AgentOK
  <2>. QED  BY <1>5, <2>1
<1>7. AgentOK'
  BY <1>1, <1>2, <1>6 DEF AgentOK
<1>8. \A g \in Fwd : CtxOf(g) \subseteq CtxOf(g)'
  BY <1>2 DEF CtxOf
<1>. QED  BY <1>1, <1>2, <1>3, <1>7, <1>8, AgentKeeps DEF WireOK

\* The connection is lost: both queues and all contexts are gone.
LEMMA LoseLinkStep ==
  ASSUME ForwardInv, LoseLink
  PROVE  ForwardInv'
<1>1. ServerOK /\ WireOK /\ AgentOK /\ FlightInv
  BY DEF ForwardInv
<1>2. /\ link' = "lost" /\ toAgent' = <<>> /\ toServer' = <<>> /\ ctx' = [x \in Ctx |-> NoId]
      /\ slot' = [x \in Ctx |-> [j \in ConnSlot |->
                    IF ctx[x] # NoId THEN Emptied(slot[x][j]) ELSE slot[x][j]]]
      /\ UNCHANGED <<server, reader, target, sent>>
  BY DEF LoseLink
<1>3. slot' \in [Ctx -> [ConnSlot -> GoodSlot]]
  <2>1. ASSUME NEW x \in Ctx, NEW j \in ConnSlot
        PROVE  slot[x][j] \in GoodSlot /\ Emptied(slot[x][j]) \in GoodSlot
    BY <1>1, SlotFacts DEF AgentOK
  <2>. QED  BY <1>2, <2>1
<1>4. AgentOK'
  BY <1>1, <1>2, <1>3 DEF AgentOK
<1>5. toAgent' \in Seq(Message) /\ toServer' \in Seq(Reply)
      /\ Len(toAgent') = 0 /\ Len(toServer') = 0
  BY <1>2
<1>6. \A type, f : ~Holds(toAgent', type, f) /\ ~Holds(toServer', type, f)
  BY <1>5 DEF Holds
<1>7. WireOK'
  BY <1>2, <1>5 DEF WireOK
<1>8. ServerOK' /\ create' = create /\ forwards' = forwards
  BY <1>1, <1>2 DEF ServerOK, server
<1>9. FlightInv'
  BY <1>1, <1>2, <1>6, <1>8, FlightKept
<1>. QED  BY <1>4, <1>7, <1>8, <1>9 DEF ForwardInv

\* A reader's report names the forward its context is used for now.
LEMMA ReportFacts ==
  ASSUME ForwardInv, NEW c \in Cid, reader[c].pc \notin {"none", "gone"},
         NEW type \in {"data", "closed"}, Report(c, type)
  PROVE  /\ toServer' \in Seq(Reply)
         /\ \A f : Holds(toServer', "ack", f) => Holds(toServer, "ack", f)
<1>1. WireOK /\ AgentOK
  BY DEF ForwardInv
<1>2. CASE UNCHANGED toServer
  BY <1>1, <1>2 DEF WireOK
<1>3. CASE ~UNCHANGED toServer
  <2>1. PICK m : m = [type |-> type, fid |-> ctx[reader[c].ctx], cid |-> SlotOf(c).cid,
                      src |-> reader[c].fd]
    OBVIOUS
  <2>2. ctx[reader[c].ctx] # NoId /\ SlotOf(c).cid # NoId /\ ToServer(m)
    BY <1>3, <2>1 DEF Report
  <2>3. reader[c] \in ReaderRec /\ reader[c].ctx \in Ctx /\ reader[c].slot \in ConnSlot
    BY <1>1 DEF AgentOK
  <2>4. ctx[reader[c].ctx] \in Fwd /\ reader[c].fd \in Cid \cup {NoId}
    BY <1>1, <2>2, <2>3 DEF AgentOK, ReaderRec
  <2>5. SlotOf(c) \in SlotRec
    BY <1>1, <2>3 DEF AgentOK, SlotOf, GoodSlot
  <2>6. SlotOf(c).cid \in Cid
    BY <2>2, <2>5 DEF SlotRec
  <2>7. m \in Reply /\ m.type = type
    BY <2>1, <2>4, <2>6 DEF Reply
  <2>. QED  BY <1>1, <2>2, <2>7, ToServerFacts
<1>. QED  BY <1>2, <1>3

\* A reader thread, or the target, moves.
LEMMA ReaderStep ==
  ASSUME ForwardInv, NEW c \in Cid, Reader(c) \/ TargetCloses(c)
  PROVE  ForwardInv'
<1>1. ServerOK /\ WireOK /\ AgentOK /\ FlightInv /\ reader[c] \in ReaderRec
  BY DEF ForwardInv, AgentOK
<1>2. UNCHANGED <<server, link, toAgent, ctx>>
  BY DEF Reader, ReaderCheck, ReaderData, ReaderEnd, ReaderSend, ReaderClose, ReaderExit, TargetCloses
<1>3. /\ toServer' \in Seq(Reply)
      /\ \A f : Holds(toServer', "ack", f) => Holds(toServer, "ack", f)
  <2>1. CASE UNCHANGED toServer
    BY <1>1, <2>1 DEF WireOK
  <2>2. CASE ReaderSend(c)
    BY <2>2, ReportFacts DEF ReaderSend
  <2>3. CASE ReaderClose(c)
    BY <2>3, ReportFacts DEF ReaderClose
  <2>. QED  BY <2>1, <2>2, <2>3 DEF Reader, ReaderCheck, ReaderData, ReaderEnd, ReaderExit, TargetCloses
<1>4. AgentOK'
  <2>1. CASE TargetCloses(c)
    BY <1>1, <2>1 DEF TargetCloses, AgentOK
  <2>2. CASE ReaderExit(c)
    <3>1. PICK x \in Ctx, j \in ConnSlot : x = reader[c].ctx /\ j = reader[c].slot
      BY <1>1, <2>2 DEF AgentOK, ReaderExit
    <3>2. slot' = [slot EXCEPT ![x][j].active = FALSE, ![x][j].fd = NoId]
      BY <2>2, <3>1 DEF ReaderExit
    <3>3. PICK row : row = slot[x]
      OBVIOUS
    <3>4. slot \in [Ctx -> [ConnSlot -> GoodSlot]] /\ row \in [ConnSlot -> GoodSlot]
      BY <1>1, <3>3 DEF AgentOK
    <3>5. slot' \in [Ctx -> [ConnSlot -> GoodSlot]]
      <4>1. PICK s \in GoodSlot : s = [row[j] EXCEPT !.active = FALSE, !.fd = NoId]
        BY <3>4, SlotFacts
      <4>2. slot' = [slot EXCEPT ![x] = [row EXCEPT ![j] = s]]
        BY <3>2, <3>3, <3>4, <4>1
      <4>3. [row EXCEPT ![j] = s] \in [ConnSlot -> GoodSlot]
        BY <3>4
      <4>. QED  BY <3>4, <4>2, <4>3
    <3>6. /\ reader' = [reader EXCEPT ![c] = [NoReader EXCEPT !.pc = "gone"]]
          /\ target' = target /\ sent' = sent
      BY <2>2 DEF ReaderExit
    <3>7. target' \in [Cid -> {"none", "open", "eof", "shut"}] /\ sent' \in 0 .. MaxData
      BY <1>1, <3>6 DEF AgentOK
    <3>. QED  BY <1>1, <1>2, <3>5, <3>6, <3>7, NoReaderFacts, ReaderMoves
  <2>3. CASE ReaderCheck(c) /\ SlotOf(c).active
             /\ reader' = [reader EXCEPT ![c].pc = "read", ![c].fd = SlotOf(c).fd]
    <3>1. reader[c].ctx \in Ctx /\ reader[c].slot \in ConnSlot
      BY <1>1, <2>3 DEF AgentOK, ReaderCheck
    <3>2. SlotOf(c) \in SlotRec
      BY <1>1, <3>1 DEF AgentOK, SlotOf, GoodSlot
    <3>3. SlotOf(c).fd \in Cid \cup {NoId}
      BY <3>2 DEF SlotRec
    <3>4. PICK v : v = [reader[c] EXCEPT !.pc = "read", !.fd = SlotOf(c).fd]
      OBVIOUS
    <3>5. v \in ReaderRec /\ v.ctx = reader[c].ctx /\ v.slot = reader[c].slot
      BY <1>1, <3>3, <3>4 DEF ReaderRec
    <3>6. reader' = [reader EXCEPT ![c] = v]
      BY <1>1, <2>3, <3>4 DEF AgentOK
    <3>7. /\ slot' \in [Ctx -> [ConnSlot -> GoodSlot]]
          /\ target' \in [Cid -> {"none", "open", "eof", "shut"}] /\ sent' \in 0 .. MaxData
      BY <1>1, <2>3 DEF AgentOK, ReaderCheck
    <3>. QED  BY <1>1, <1>2, <3>1, <3>5, <3>6, <3>7, ReaderMoves
  <2>4. CASE \E p \in {"check", "read", "send", "close", "exit"} :
               /\ GotoR(c, p) /\ reader[c].pc \notin {"none", "gone"}
               /\ slot' = slot /\ target' = target /\ sent' \in 0 .. MaxData
    <3>1. PICK p \in {"check", "read", "send", "close", "exit"} :
               /\ GotoR(c, p) /\ reader[c].pc \notin {"none", "gone"}
               /\ slot' = slot /\ target' = target /\ sent' \in 0 .. MaxData
      BY <2>4
    <3>2. PICK v : v = [reader[c] EXCEPT !.pc = p]
      OBVIOUS
    <3>3. v \in ReaderRec /\ v.ctx = reader[c].ctx /\ v.slot = reader[c].slot
      BY <1>1, <3>2 DEF ReaderRec
    <3>4. reader' = [reader EXCEPT ![c] = v]
      BY <3>1, <3>2 DEF GotoR
    <3>5. reader[c].ctx \in Ctx /\ reader[c].slot \in ConnSlot
      BY <1>1, <3>1 DEF AgentOK
    <3>6. /\ slot' \in [Ctx -> [ConnSlot -> GoodSlot]]
          /\ target' \in [Cid -> {"none", "open", "eof", "shut"}]
      BY <1>1, <3>1 DEF AgentOK
    <3>. QED  BY <1>1, <1>2, <3>1, <3>3, <3>4, <3>5, <3>6, ReaderMoves
  <2>5. sent \in 0 .. MaxData /\ (sent < MaxData => sent + 1 \in 0 .. MaxData)
    BY <1>1, PFAssumption DEF AgentOK
  <2>6. CASE ReaderCheck(c)
    BY <2>3, <2>4, <2>5, <2>6 DEF ReaderCheck
  <2>7. CASE ReaderData(c) \/ ReaderEnd(c) \/ ReaderSend(c) \/ ReaderClose(c)
    BY <2>4, <2>5, <2>7 DEF ReaderData, ReaderEnd, ReaderSend, ReaderClose
  <2>. QED  BY <2>1, <2>2, <2>6, <2>7 DEF Reader
<1>5. \A g \in Fwd : CtxOf(g) \subseteq CtxOf(g)'
  BY <1>2 DEF CtxOf
<1>6. toAgent' \in Seq(Message) /\ \A t, g : Holds(toAgent', t, g) => Holds(toAgent, t, g)
  BY <1>1, <1>2 DEF WireOK
<1>. QED  BY <1>2, <1>3, <1>4, <1>5, <1>6, AgentKeeps

\* No forward, no connection and no message at the start.
LEMMA ForwardInitInv ==
  ASSUME ForwardInit
  PROVE  ForwardInv
<1>1. /\ create = [f \in Fwd |-> "none"] /\ forwards = {} /\ listener = {}
      /\ conns = [f \in Fwd |-> {}] /\ fwdOf = [c \in Cid |-> NoId]
      /\ user = [c \in Cid |-> "none"] /\ handler = [c \in Cid |-> "none"]
  BY DEF ForwardInit
<1>2. /\ link = "up" /\ toAgent = <<>> /\ toServer = <<>> /\ ctx = [x \in Ctx |-> NoId]
      /\ slot = [x \in Ctx |-> [j \in ConnSlot |-> FreeSlot]]
      /\ reader = [c \in Cid |-> NoReader] /\ target = [c \in Cid |-> "none"] /\ sent = 0
  BY DEF ForwardInit
<1>3. ServerOK
  BY <1>1 DEF ServerOK
<1>4. toAgent \in Seq(Message) /\ toServer \in Seq(Reply) /\ Len(toAgent) = 0 /\ Len(toServer) = 0
  BY <1>2
<1>5. \A type, f : ~Holds(toAgent, type, f) /\ ~Holds(toServer, type, f)
  BY <1>4 DEF Holds
<1>6. AgentOK
  <2>1. slot \in [Ctx -> [ConnSlot -> GoodSlot]]
    BY <1>2, SlotFacts
  <2>2. /\ reader \in [Cid -> ReaderRec] /\ \A c \in Cid : reader[c].pc = "none"
        /\ sent \in 0 .. MaxData
    BY <1>2, NoReaderFacts, PFAssumption
  <2>. QED  BY <1>2, <2>1, <2>2 DEF AgentOK
<1>7. FlightInv
  BY <1>1, <1>5 DEF FlightInv, Opened, Wanted
<1>8. WireOK
  BY <1>2, <1>4 DEF WireOK
<1>. QED  BY <1>3, <1>6, <1>7, <1>8 DEF ForwardInv

\* The inductive invariant of the forwards, the users and the agent's contexts.
THEOREM ForwardInvariance == ForwardSpec => []ForwardInv
<1>1. ForwardInit => ForwardInv
  BY ForwardInitInv
<1>2. ForwardInv /\ [ForwardNext]_forwardVars => ForwardInv'
  <2>1. ASSUME ForwardInv, ForwardNext PROVE ForwardInv'
    <3>1. ASSUME NEW f \in Fwd,
                 CreateRequest(f) \/ CreateTimeout(f) \/ CreateListen(f) \/ Close(f)
                   \/ \E c \in Cid : Accept(f, c)
          PROVE  ForwardInv'
      BY <2>1, <3>1, CreateRequestStep, CreateTimeoutStep, CreateListenStep, CloseStep, AcceptStep
    <3>2. ASSUME NEW c \in Cid, Handler(c) \/ HandleEOF(c) \/ Reader(c) \/ TargetCloses(c)
          PROVE  ForwardInv'
      BY <2>1, <3>2, HandlerStepKeeps, ReaderStep
    <3>3. CASE Main
      BY <2>1, <3>3, AgentOpenStep, AgentCloseStep, AgentAcceptStep, AgentConnCloseStep DEF Main
    <3>. QED  BY <2>1, <3>1, <3>2, <3>3, ServerReceiveStep, LoseLinkStep, OfflineForwardStep
              DEF ForwardNext
  <2>2. CASE UNCHANGED forwardVars
    <3>1. ASSUME ForwardInv PROVE ForwardInv'
      BY <2>2, <3>1 DEF forwardVars, ForwardInv, ServerOK, WireOK, AgentOK, FlightInv,
                        Wanted, Opened, CtxOf
    <3>. QED  BY <3>1
  <2>. QED  BY <2>1, <2>2
<1>. QED  BY <1>1, <1>2, PTL DEF ForwardSpec

\* Type correctness of the Manager, the connection and the agent's contexts; every
\* connected socket of a slot is that of the connection the slot is for.
THEOREM ForwardTypeCorrect == ForwardSpec => []ForwardTypeOK
<1>1. ASSUME ForwardInv PROVE ForwardTypeOK
  <2>1. ServerOK /\ WireOK /\ AgentOK
    BY <1>1 DEF ForwardInv
  <2>2. \A i \in 1 .. Len(toAgent) : toAgent[i] \in Message
    BY <2>1 DEF WireOK
  <2>3. slot \in [Ctx -> [ConnSlot -> SlotRec]]
        /\ \A x \in Ctx, j \in ConnSlot : slot[x][j].fd \in {NoId, slot[x][j].cid}
    BY <2>1 DEF AgentOK, GoodSlot
  <2>4. \A c \in Cid : reader[c].pc \in {"none", "check", "read", "send", "close", "exit", "gone"}
    BY <2>1 DEF AgentOK, ReaderRec
  <2>. QED  BY <2>1, <2>2, <2>3, <2>4 DEF ForwardTypeOK, ServerOK, WireOK, AgentOK, SlotRec
<1>. QED  BY <1>1, ForwardInvariance, PTL

\* While agent and server are connected, a forward Manager.Create has listed is open
\* on the agent, whatever was refused, timed out, rolled back or closed meanwhile.
THEOREM ForwardSafety == ForwardSpec => []ListedIsOpen
<1>1. ASSUME ForwardInv PROVE ListedIsOpen
  BY <1>1 DEF ForwardInv, ServerOK, FlightInv, Opened, ListedIsOpen
<1>. QED  BY <1>1, ForwardInvariance, PTL

=============================================================================
