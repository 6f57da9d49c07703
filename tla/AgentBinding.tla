---------------------------- MODULE AgentBinding ----------------------------
(***************************************************************************)
(* How an agent finds, is bound to and stays with its server: the loop of  *)
(* ctc_conn_run (agent.c), the scan and the handshake (binding.c) and the  *)
(* configuration file (config.c) of ctforge-agent.                         *)
(*                                                                         *)
(* The world is a set of servers at addresses of the LAN.  What a server   *)
(* answers is its administrator's decision (module AgentRegistry has the   *)
(* server's side); the address it reports is the one it found at its own   *)
(* start.  Servers move, restart and lose connections, the agent crashes   *)
(* and restarts: these faults are bounded by MaxFaults.                    *)
(***************************************************************************)
EXTENDS Naturals, Sequences, FiniteSets, SequencesExt

CONSTANTS Server,     \* server ids
          Addr,       \* addresses of the LAN
          Loopback,   \* 127.0.0.1: no server is there
          None,
          MaxHosts,   \* length of the address list of the configuration
          MaxFaults   \* bound on the faults of a behaviour

ASSUME BindingAssumption ==
  /\ Loopback \notin Addr
  /\ None \notin Server \cup Addr \cup {Loopback}
  /\ MaxFaults \in Nat /\ MaxHosts \in Nat
  /\ IsFiniteSet(Server)

VARIABLES
  \* the servers
  loc,        \* where a server is
  adv,        \* the server_ip it puts in its handshake_ack
  view,       \* its decision about this agent
  \* the agent
  pc,
  hosts,      \* cfg->server_hosts
  host,       \* cfg->server_host
  boundId, boundIp, approved,   \* cfg->bound_server_id, bound_server_ip, approved
  cand,       \* candidates of the scan that are still to be tried
  peer,       \* the server at the other end of the control connection
  file,       \* the configuration file
  \* bookkeeping
  faults,
  everGranted   \* history: servers whose administrator approved this agent

world == <<loc, adv, view>>
cfg   == <<hosts, host, boundId, boundIp, approved>>
bindingVars == <<loc, adv, view, pc, hosts, host, boundId, boundIp, approved, cand,
                 peer, file, faults, everGranted>>

Address   == Addr \cup {Loopback}
HostLists == UNION {[1 .. n -> Addr] : n \in 0 .. MaxHosts}
HostSetting == HostLists \cup {<<a>> : a \in Address}   \* as configured, or as saved
File == [hosts : HostSetting, boundId : Server \cup {None},
         boundIp : Address \cup {None}, approved : BOOLEAN]

BindingTypeOK ==
  /\ loc \in [Server -> Addr]
  /\ adv \in [Server -> Address]
  /\ view \in [Server -> {"unknown", "pending", "approved", "rejected"}]
  /\ pc \in {"scan", "lan", "candidates", "fallback", "connect", "register", "served"}
  /\ hosts \in HostSetting
  /\ host \in Address
  /\ boundId \in Server \cup {None}
  /\ boundIp \in Address \cup {None}
  /\ approved \in BOOLEAN
  /\ cand \in Seq(Address)
  /\ peer \in Server \cup {None}
  /\ file \in File
  /\ faults \in 0 .. MaxFaults
  /\ everGranted \subseteq Server

-----------------------------------------------------------------------------
(* Start-up: ctc_config_load and ctc_binding_load read the same file.       *)

FirstHost(hs) == IF hs = <<>> THEN Loopback ELSE hs[1]

BindingInit ==
  /\ loc \in {l \in [Server -> Addr] : \A s, t \in Server : s # t => l[s] # l[t]}
  /\ adv \in [Server -> Address]
  /\ \A s \in Server : adv[s] \in {loc[s], Loopback}
  /\ view = [s \in Server |-> "unknown"]
  /\ hosts \in HostLists
  /\ host = FirstHost(hosts)
  /\ boundId = None /\ boundIp = None /\ approved = FALSE
  /\ pc = "scan" /\ cand = <<>> /\ peer = None
  /\ file = [hosts |-> hosts, boundId |-> None, boundIp |-> None, approved |-> FALSE]
  /\ faults = 0 /\ everGranted = {}

-----------------------------------------------------------------------------
(* The handshake with whoever is at an address.                             *)

ServersAt(a) == {s \in Server : loc[s] = a}

\* What try_connect_handshake returns: 0 with the server, 1 (not approved), -1.
Handshake(a) ==
  IF ServersAt(a) = {} THEN [rc |-> "unreachable", id |-> None]
  ELSE LET s == CHOOSE s \in ServersAt(a) : TRUE
       IN  [rc |-> IF view[s] = "approved" THEN "approved" ELSE "pending", id |-> s]

\* A server that did not know the agent lists it as pending.
Introduce(a) ==
  view' = [s \in Server |-> IF loc[s] = a /\ view[s] = "unknown" THEN "pending" ELSE view[s]]

\* Mutant: the server id of the answer is not compared with the binding.
AcceptAnyone(s) == TRUE

\* An agent that is bound accepts only the server it is bound to.
Accepts(s) == boundId \in {None, s}

\* Mutant: any answer to the handshake counts as an approval.
GrantedByAnyAnswer(answer) == answer.rc \in {"approved", "pending"}

Granted(answer) == answer.rc = "approved"

\* ctc_conn_run after a scan that returned 0.  The file is saved before
\* server_host is set to the address the server reported, and the address list
\* is saved as the one server_host.
Bind(s, h) ==
  /\ boundId' = s
  /\ boundIp' = adv[s]
  /\ approved' = TRUE
  /\ file' = [hosts |-> <<h>>, boundId |-> s, boundIp |-> adv[s], approved |-> TRUE]
  /\ host' = adv[s]
  /\ pc' = "connect"
  /\ cand' = <<>>
  /\ UNCHANGED hosts

Goto(p) == pc' = p /\ UNCHANGED <<cfg, file>>

\* The scan has found nobody, or somebody who has not approved the agent: wait, retry.
ScanAgain == Goto("scan") /\ cand' = <<>>

\* ctc_scan_server, a bound agent: the address of the binding first.
VerifyBound ==
  /\ pc = "scan" /\ boundId # None /\ boundIp # None
  /\ Introduce(boundIp)
  /\ LET answer == Handshake(boundIp)
     IN  \/ answer.rc = "unreachable" /\ Goto("lan") /\ UNCHANGED cand
         \/ answer.rc = "pending" /\ ScanAgain
         \/ Granted(answer) /\ Accepts(answer.id) /\ Bind(answer.id, host)
         \/ Granted(answer) /\ ~Accepts(answer.id) /\ ScanAgain
  /\ UNCHANGED <<loc, adv, peer, faults, everGranted>>

SkipVerify ==
  /\ pc = "scan" /\ (boundId = None \/ boundIp = None)
  /\ Goto("lan")
  /\ UNCHANGED <<world, cand, peer, faults, everGranted>>

\* scan_lan: the servers that answer the broadcast, in the order of their
\* answers.  A server that is not heard is a fault.
ScanLan ==
  /\ pc = "lan"
  /\ \E heard \in SUBSET Server :
       /\ heard # Server => faults < MaxFaults
       /\ faults' = IF heard = Server THEN faults ELSE faults + 1
       /\ IF heard = {} THEN pc' = "fallback" /\ cand' = hosts
                        ELSE pc' = "candidates"
                             /\ cand' \in SetToSeqs({loc[s] : s \in heard})
  /\ UNCHANGED <<world, cfg, peer, file, everGranted>>

\* One candidate of the scan.  server_host becomes its address before the save.
TryCandidate ==
  /\ pc = "candidates" /\ cand # <<>>
  /\ Introduce(Head(cand))
  /\ LET answer == Handshake(Head(cand))
     IN  \/ Granted(answer) /\ Accepts(answer.id) /\ Bind(answer.id, Head(cand))
         \/ ~(Granted(answer) /\ Accepts(answer.id)) /\ Goto("candidates") /\ cand' = Tail(cand)
  /\ UNCHANGED <<loc, adv, peer, faults, everGranted>>

\* One address of the configured list, when no server answered the broadcast.
TryFallback ==
  /\ pc = "fallback" /\ cand # <<>>
  /\ Introduce(Head(cand))
  /\ LET answer == Handshake(Head(cand))
     IN  \/ Granted(answer) /\ Accepts(answer.id) /\ Bind(answer.id, host)
         \/ answer.rc = "pending" /\ ScanAgain
         \/ /\ answer.rc = "unreachable" \/ (Granted(answer) /\ ~Accepts(answer.id))
            /\ Goto("fallback") /\ cand' = Tail(cand)
  /\ UNCHANGED <<loc, adv, peer, faults, everGranted>>

ScanFails ==
  /\ pc \in {"candidates", "fallback"} /\ cand = <<>>
  /\ ScanAgain
  /\ UNCHANGED <<world, peer, faults, everGranted>>

-----------------------------------------------------------------------------
(* connect_server, do_register and the serve loop.                          *)

\* The addresses connect_server tries: the configured list when it has several
\* entries, else server_host.
Targets == IF Len(hosts) > 1 THEN hosts ELSE <<host>>

\* Mutant: a connection that fails leaves approved set, so that no scan follows.
ConnectKeepsApproved ==
  /\ pc = "connect"
  /\ \/ \E i \in 1 .. Len(Targets) :
          /\ ServersAt(Targets[i]) # {}
          /\ \A j \in 1 .. i - 1 : ServersAt(Targets[j]) = {}
          /\ peer' \in ServersAt(Targets[i])
          /\ pc' = "register"
     \/ /\ \A i \in 1 .. Len(Targets) : ServersAt(Targets[i]) = {}
        /\ UNCHANGED <<pc, peer>>
  /\ UNCHANGED <<world, cfg, cand, file, faults, everGranted>>

Connect ==
  /\ pc = "connect"
  /\ \/ \E i \in 1 .. Len(Targets) :
          /\ ServersAt(Targets[i]) # {}
          /\ \A j \in 1 .. i - 1 : ServersAt(Targets[j]) = {}
          /\ peer' \in ServersAt(Targets[i])
          /\ pc' = "register"
          /\ UNCHANGED approved
     \/ /\ \A i \in 1 .. Len(Targets) : ServersAt(Targets[i]) = {}
        /\ approved' = FALSE
        /\ pc' = "scan"
        /\ UNCHANGED peer
  /\ UNCHANGED <<world, hosts, host, boundId, boundIp, cand, file, faults, everGranted>>

Saved == [hosts |-> <<host>>, boundId |-> boundId, boundIp |-> boundIp, approved |-> approved']

Register ==
  /\ pc = "register"
  /\ \/ /\ view[peer] = "approved"
        /\ pc' = "served"
        /\ UNCHANGED <<peer, approved, file>>
     \/ /\ view[peer] # "approved"
        /\ approved' = FALSE
        /\ file' = Saved
        /\ peer' = None
        /\ pc' = "scan"
  /\ UNCHANGED <<world, hosts, host, boundId, boundIp, cand, faults, everGranted>>

\* The server sends config_set server_host: saved at once.
ConfigSetHost(a) ==
  /\ pc = "served"
  /\ host' = a
  /\ file' = [hosts |-> <<a>>, boundId |-> boundId, boundIp |-> boundIp, approved |-> approved]
  /\ UNCHANGED <<world, pc, hosts, boundId, boundIp, approved, cand, peer, faults, everGranted>>

Fault == faults < MaxFaults /\ faults' = faults + 1

\* The control connection is lost.  The serve loop connects again, approved as it
\* was; a registration that gets no answer has failed.
Disconnected ==
  /\ peer' = None
  /\ \/ pc = "served" /\ pc' = "connect" /\ UNCHANGED <<approved, file>>
     \/ pc = "register" /\ pc' = "scan" /\ approved' = FALSE /\ file' = Saved

LoseConnection ==
  /\ Fault
  /\ Disconnected
  /\ UNCHANGED <<world, hosts, host, boundId, boundIp, cand, everGranted>>

\* The agent stops and starts again from its file.
RestartAgent ==
  /\ Fault
  /\ hosts' = file.hosts /\ host' = FirstHost(file.hosts)
  /\ boundId' = file.boundId /\ boundIp' = file.boundIp
  /\ approved' = file.approved
  /\ pc' = IF file.approved THEN "connect" ELSE "scan"
  /\ cand' = <<>> /\ peer' = None
  /\ UNCHANGED <<world, file, everGranted>>

-----------------------------------------------------------------------------
(* The servers.                                                             *)

Decide(s, d) ==
  /\ view[s] # "unknown" /\ view[s] # d
  /\ view' = [view EXCEPT ![s] = d]
  /\ everGranted' = IF d = "approved" THEN everGranted \cup {s} ELSE everGranted
  /\ UNCHANGED <<loc, adv, pc, cfg, cand, peer, file, faults>>

\* A server gets another address while it runs: what it reports is out of date,
\* its connections break.
MoveServer(s, a) ==
  /\ Fault
  /\ ServersAt(a) = {}
  /\ loc' = [loc EXCEPT ![s] = a]
  /\ IF peer = s THEN Disconnected ELSE UNCHANGED <<peer, pc, approved, file>>
  /\ UNCHANGED <<adv, view, hosts, host, boundId, boundIp, cand, everGranted>>

\* main finds the server's outbound address, or reports the loopback address
\* when the machine has no default route.
RestartServer(s) ==
  /\ Fault
  /\ \E a \in {loc[s], Loopback} : adv' = [adv EXCEPT ![s] = a]
  /\ IF peer = s THEN Disconnected ELSE UNCHANGED <<peer, pc, approved, file>>
  /\ UNCHANGED <<loc, view, hosts, host, boundId, boundIp, cand, everGranted>>

-----------------------------------------------------------------------------

AgentStep ==
  \/ VerifyBound \/ SkipVerify \/ ScanLan \/ TryCandidate \/ TryFallback \/ ScanFails
  \/ Connect \/ Register

BindingNext ==
  \/ AgentStep
  \/ LoseConnection \/ RestartAgent
  \/ \E a \in Addr : ConfigSetHost(a)
  \/ \E s \in Server : \/ \E d \in {"approved", "rejected"} : Decide(s, d)
                       \/ \E a \in Addr : MoveServer(s, a)
                       \/ RestartServer(s)

BindingSpec == BindingInit /\ [][BindingNext]_bindingVars

\* The agent's loop goes on: every sleep and every blocking call in it is bounded.
BindingFairSpec == BindingSpec /\ WF_bindingVars(AgentStep)

-----------------------------------------------------------------------------

\* The agent is bound only to a server whose administrator approved it, in memory
\* and in the file it will start from, and holds itself approved only when bound.
BoundByApproval ==
  /\ boundId # None => boundId \in everGranted
  /\ file.boundId # None => file.boundId \in everGranted
  /\ approved => boundId # None

\* The binding of the file is final: no scan, rescan, registration failure, move
\* of a server or restart of the agent binds it to another server id.
BindingIsFinal == [][file.boundId # None => file'.boundId = file.boundId]_bindingVars

\* When a server approves the agent for good, stays up and reports the address it is
\* at, while the agent is not bound to another server, was configured with at most
\* one address and no other server is at the address of its binding (there
\* ctc_scan_server stops, binding.c:340-351), the loop of scan, connection and
\* registration ends up connected and stays, whatever servers elsewhere answer.
FindsItsServer ==
  \A s \in Server :
    <>[](/\ view[s] = "approved" /\ adv[s] = loc[s]
         /\ boundId \in {None, s} /\ Len(hosts) < 2 /\ ServersAt(boundIp) \subseteq {s})
      => <>[](pc = "served")

-----------------------------------------------------------------------------
(* What the comments of the code promise and the code does not keep.        *)

\* A bound agent connects only to the server it is bound to.
OnlyBoundServer == pc = "served" => peer = boundId

\* When the address of the bound server changes, the agent verifies the server by
\* its id, updates its configuration and is connected again.
FindsMovedServer ==
  \A s \in Server :
    <>[](view[s] = "approved" /\ boundId = s) => <>[](pc = "served")
=============================================================================
