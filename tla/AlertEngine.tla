---------------------------- MODULE AlertEngine ----------------------------
(***************************************************************************)
(* Alerts of ctforge-server: the check of monitor.go that runs every 30    *)
(* seconds, the anomalies agents report on their connections, the alerts   *)
(* the store keeps with an agent, and the rules that choose the channels   *)
(* of a notification.                                                      *)
(*                                                                         *)
(* raise and clear are calls with two or three critical sections (alerted, *)
(* the store, the rules); the check goroutine and the goroutines that read *)
(* the agents' connections run them concurrently.  An actor's work is the  *)
(* sequence of calls it still has to make.  An agent that connects again   *)
(* may for a while have two readers.                                       *)
(*                                                                         *)
(* The level of an alert depends on its kind only.  "high_cpu" stands for  *)
(* the three thresholds, which the code treats alike; "ssh_brute" is       *)
(* raised by the agents only, "net_spike" by them and by the check, and    *)
(* neither is ever cleared.                                                *)
(*                                                                         *)
(* The administrator's changes of the rules, the time of day and the time  *)
(* since the last notification are open: at a match any of the rules may   *)
(* be disabled, outside its windows or in its silent period.               *)
(***************************************************************************)
EXTENDS Naturals, Sequences, FiniteSets, SequencesExt

CONSTANTS Agent,
          Channel,    \* notification channels
          Rules,      \* the rules an administrator may configure
          MaxAlerts,  \* alerts kept with an agent: 50 in the code
          Engine,     \* the check goroutine
          Reader,     \* goroutines that read connections
          Reported    \* the kinds of anomalies the agents report

Kind  == {"offline", "high_cpu", "ssh_brute", "net_spike"}
Actor == Reader \cup {Engine}

Rank(kind) == IF kind \in {"offline", "net_spike"} THEN 1 ELSE 2   \* warning, critical

ASSUME AlertAssumption ==
  /\ Engine \notin Reader /\ IsFiniteSet(Agent)
  /\ MaxAlerts \in Nat /\ MaxAlerts >= 3
  /\ Reported \subseteq {"ssh_brute", "net_spike"}
  /\ Rules \subseteq [kinds : SUBSET Kind, min : 0 .. 2, channels : SUBSET Channel]

VARIABLES
  agents,    \* of a record: approval, Online, LastSeen, LastMetric, and whether one of
             \* the stored network rates is above 50 MB/s
  alerts,    \* Agent.Alerts
  alerted,   \* Engine.alerted: the keys that are set
  work,      \* the calls an actor has to make
  stage,     \* how far it is in the first of them
  told,      \* history: notifications of a channel since the last clear
  dismissed  \* history: agents whose offline alert was resolved by an administrator, or
             \* that were removed, since the engine's last clear

vars == <<agents, alerts, alerted, work, stage, told, dismissed>>

Key == Agent \X Kind
Call == [op : {"raise", "clear"}, agent : Agent, kind : Kind]

TypeOK ==
  /\ agents \in [Agent -> [approval : {"absent", "pending", "approved", "rejected"},
                           online : BOOLEAN, seen : {"never", "recent", "stale"},
                           metric : {"none", "low", "high"}, net : BOOLEAN]]
  /\ alerts \in [Agent -> Seq([kind : Kind, resolved : BOOLEAN])]
  /\ \A a \in Agent :
       /\ Len(alerts[a]) <= MaxAlerts
       \* one open alert of a kind
       /\ \A i, j \in 1 .. Len(alerts[a]) :
            (alerts[a][i].kind = alerts[a][j].kind
               /\ ~alerts[a][i].resolved /\ ~alerts[a][j].resolved) => i = j
  /\ alerted \subseteq Key
  /\ work \in [Actor -> Seq(Call)]
  /\ stage \in [Actor -> {"first", "store", "match"}]
  /\ told \in [Key -> [Channel -> Nat]] /\ dismissed \subseteq Agent

\* Load restores approvals; nobody has been seen yet.
Init ==
  /\ agents \in [Agent -> [approval : {"pending", "approved"}, online : {FALSE},
                           seen : {"never"}, metric : {"none"}, net : {FALSE}]]
  /\ alerts = [a \in Agent |-> <<>>]
  /\ alerted = {}
  /\ work = [p \in Actor |-> <<>>] /\ stage = [p \in Actor |-> "first"]
  /\ told = [k \in Key |-> [c \in Channel |-> 0]] /\ dismissed = {}

-----------------------------------------------------------------------------
(* The calls.                                                               *)

raise(a, k) == [op |-> "raise", agent |-> a, kind |-> k]
clear(a, k) == [op |-> "clear", agent |-> a, kind |-> k]

Current(p) == work[p][1]
KeyOf(p)   == <<Current(p).agent, Current(p).kind>>
At(p, op, st) == work[p] # <<>> /\ Current(p).op = op /\ stage[p] = st

GotoStage(p, st) == stage' = [stage EXCEPT ![p] = st] /\ UNCHANGED work
Done(p) == work' = [work EXCEPT ![p] = Tail(@)] /\ stage' = [stage EXCEPT ![p] = "first"]

\* Mutant: raise does not look at alerted.
RaiseUnchecked(p) ==
  /\ At(p, "raise", "first")
  /\ alerted' = alerted \cup {KeyOf(p)}
  /\ GotoStage(p, "store")
  /\ UNCHANGED <<agents, alerts, told, dismissed>>

\* raise, under e.mu.
RaiseFirst(p) ==
  /\ At(p, "raise", "first")
  /\ IF KeyOf(p) \in alerted
       THEN Done(p) /\ UNCHANGED alerted
       ELSE GotoStage(p, "store") /\ alerted' = alerted \cup {KeyOf(p)}
  /\ UNCHANGED <<agents, alerts, told, dismissed>>

Known(a) == agents[a].approval # "absent"
Open(a, k) == \E i \in 1 .. Len(alerts[a]) : alerts[a][i].kind = k /\ ~alerts[a][i].resolved

\* The newest MaxAlerts of a list.
Newest(s) == SubSeq(s, IF Len(s) > MaxAlerts THEN Len(s) - MaxAlerts + 1 ELSE 1, Len(s))

\* AddAlert: nothing for an agent that is gone or whose alert of this kind is open.
RaiseStore(p) ==
  /\ At(p, "raise", "store")
  /\ LET a == Current(p).agent  k == Current(p).kind
     IN  IF Known(a) /\ ~Open(a, k)
           THEN /\ alerts' = [alerts EXCEPT ![a] = Newest(Append(@, [kind |-> k, resolved |-> FALSE]))]
                /\ GotoStage(p, "match")
           ELSE Done(p) /\ UNCHANGED alerts
  /\ UNCHANGED <<agents, alerted, told, dismissed>>

\* Match: the channels of the rules for the kind and the level, except those that
\* are disabled or that the time keeps from sending; each channel once.
RaiseMatch(p) ==
  /\ At(p, "raise", "match")
  /\ \E timely \in SUBSET {r \in Rules : Current(p).kind \in r.kinds /\ r.min <= Rank(Current(p).kind)} :
       LET out == UNION {r.channels : r \in timely}
       IN  told' = [told EXCEPT ![KeyOf(p)] = [c \in Channel |-> IF c \in out THEN @[c] + 1 ELSE @[c]]]
  /\ Done(p)
  /\ UNCHANGED <<agents, alerts, alerted, dismissed>>

\* Mutant: clear leaves the key in alerted.
ClearFirstKeepsKey(p) ==
  /\ At(p, "clear", "first")
  /\ told' = [told EXCEPT ![KeyOf(p)] = [c \in Channel |-> 0]]
  /\ dismissed' = IF Current(p).kind = "offline" THEN dismissed \ {Current(p).agent} ELSE dismissed
  /\ GotoStage(p, "store")
  /\ UNCHANGED <<agents, alerts, alerted>>

\* clear, under e.mu.
ClearFirst(p) ==
  /\ At(p, "clear", "first")
  /\ alerted' = alerted \ {KeyOf(p)}
  /\ told' = [told EXCEPT ![KeyOf(p)] = [c \in Channel |-> 0]]
  /\ dismissed' = IF Current(p).kind = "offline" THEN dismissed \ {Current(p).agent} ELSE dismissed
  /\ GotoStage(p, "store")
  /\ UNCHANGED <<agents, alerts>>

\* ResolveAlert.
Resolved(a, k) ==
  [i \in 1 .. Len(alerts[a]) |->
     IF alerts[a][i].kind = k THEN [alerts[a][i] EXCEPT !.resolved = TRUE] ELSE alerts[a][i]]

\* Mutant: clear does not tell the store.
ClearStoreNothing(p) ==
  /\ At(p, "clear", "store")
  /\ Done(p)
  /\ UNCHANGED <<agents, alerts, alerted, told, dismissed>>

ClearStore(p) ==
  /\ At(p, "clear", "store")
  /\ alerts' = [alerts EXCEPT ![Current(p).agent] = Resolved(Current(p).agent, Current(p).kind)]
  /\ Done(p)
  /\ UNCHANGED <<agents, alerted, told, dismissed>>

Step(p) == RaiseFirst(p) \/ RaiseStore(p) \/ RaiseMatch(p) \/ ClearFirst(p) \/ ClearStore(p)

-----------------------------------------------------------------------------
(* check and ReportAnomaly.                                                 *)

\* What check calls for one record of its copy.
Checks(a, r) ==
  IF r.approval # "approved" THEN <<>>
  ELSE IF ~r.online THEN IF r.seen = "stale" THEN <<raise(a, "offline")>> ELSE <<>>
  ELSE <<clear(a, "offline")>>
         \o (IF r.metric = "none" THEN <<>>
             ELSE IF r.metric = "high" THEN <<raise(a, "high_cpu")>>
             ELSE <<clear(a, "high_cpu")>>)
         \o (IF r.net THEN <<raise(a, "net_spike")>> ELSE <<>>)

\* The ticker fires: check copies the records, then works on the copy, in the
\* arbitrary order of a map.
CheckBegin ==
  /\ work[Engine] = <<>>
  /\ \E order \in SetToSeqs(Agent) :
       work' = [work EXCEPT ![Engine] =
                  FlattenSeq([i \in 1 .. Len(order) |-> Checks(order[i], agents[order[i]])])]
  /\ UNCHANGED <<agents, alerts, alerted, stage, told, dismissed>>

\* A reader gets an anomaly of an agent that has connected: by now another
\* connection may serve it, and its record be offline or gone.
ReportAnomaly(p, a, k) ==
  /\ agents[a].seen = "never" => ~Known(a)
  /\ work[p] = <<>>
  /\ work' = [work EXCEPT ![p] = <<raise(a, k)>>]
  /\ UNCHANGED <<agents, alerts, alerted, stage, told, dismissed>>

-----------------------------------------------------------------------------
(* The agents, as their connections change the store.                       *)

engineVars == <<alerts, alerted, work, stage, told, dismissed>>

\* Register and UpdateHeartbeat.
Alive(a) ==
  /\ Known(a)
  /\ agents' = [agents EXCEPT ![a].online = TRUE, ![a].seen = "recent"]
  /\ UNCHANGED engineVars

UpdateMetrics(a, m) ==
  /\ Known(a)
  /\ agents' = [agents EXCEPT ![a].metric = m, ![a].online = TRUE, ![a].seen = "recent"]
  /\ UNCHANGED engineVars

\* RecordNet, with the rates handleNet computed from the last two samples.
RecordNet(a, high) ==
  /\ Known(a)
  /\ agents' = [agents EXCEPT ![a].net = high]
  /\ UNCHANGED engineVars

\* The clean-up of a connection: SetOnline(false), AddOfflineEvent.
GoOffline(a) ==
  /\ agents[a].online
  /\ agents' = [agents EXCEPT ![a].online = FALSE, ![a].seen = "recent"]
  /\ UNCHANGED engineVars

\* Discover of a host that is known and offline.
Discover(a) ==
  /\ Known(a) /\ ~agents[a].online
  /\ agents' = [agents EXCEPT ![a].seen = "recent"]
  /\ UNCHANGED engineVars

\* More than 60 seconds pass without a sign of the agent.
Silence(a) ==
  /\ agents[a].seen = "recent"
  /\ agents' = [agents EXCEPT ![a].seen = "stale"]
  /\ UNCHANGED engineVars

SetApproval(a, state) ==
  /\ Known(a)
  /\ agents' = [agents EXCEPT ![a].approval = state]
  /\ UNCHANGED engineVars

\* RemoveAgent drops the record with its alerts; the engine is not told.
RemoveAgent(a) ==
  /\ Known(a)
  /\ agents' = [agents EXCEPT ![a] = [approval |-> "absent", online |-> FALSE,
                                      seen |-> "never", metric |-> "none", net |-> FALSE]]
  /\ alerts' = [alerts EXCEPT ![a] = <<>>]
  /\ dismissed' = dismissed \cup {a}
  /\ UNCHANGED <<alerted, work, stage, told>>

\* handleAlertResolve: only the store is told.
AdminResolve(a, k) ==
  /\ Open(a, k)
  /\ alerts' = [alerts EXCEPT ![a] = Resolved(a, k)]
  /\ dismissed' = IF k = "offline" THEN dismissed \cup {a} ELSE dismissed
  /\ UNCHANGED <<agents, alerted, work, stage, told>>

Next ==
  \/ CheckBegin
  \/ \E p \in Actor : Step(p)
  \/ \E a \in Agent :
       \/ \E p \in Reader, k \in Reported : ReportAnomaly(p, a, k)
       \/ Alive(a) \/ GoOffline(a) \/ Discover(a) \/ Silence(a)
       \/ RemoveAgent(a)
       \/ \E m \in {"low", "high"} : UpdateMetrics(a, m)
       \/ \E high \in BOOLEAN : RecordNet(a, high)
       \/ \E s \in {"approved", "rejected"} : SetApproval(a, s)
       \/ \E k \in Kind : AdminResolve(a, k)

Spec == Init /\ [][Next]_vars

\* The ticker fires for ever and goroutines go on.
FairSpec ==
  /\ Spec /\ WF_vars(CheckBegin \/ Step(Engine))
  /\ \A p \in Reader : WF_vars(Step(p))

-----------------------------------------------------------------------------

\* An alert that is open in the store is one the engine remembers, or is about to
\* resolve: the two memories are changed at different times by different actors,
\* two of which may raise the same alert.
AlertIsRemembered ==
  \A a \in Agent, k \in Kind :
    Open(a, k) => \/ <<a, k>> \in alerted
                  \/ \E p \in Actor : At(p, "clear", "store") /\ KeyOf(p) = <<a, k>>

\* A channel hears of a condition once until the engine has seen it end, also
\* when the check and a reader, or two readers, report it at the same time, and
\* when an administrator resolves the alert while the condition lasts ("避免刷屏").
NotifiedOnce == \A key \in Key, c \in Channel : told[key][c] <= 1

\* The alerts follow the agents.  An approved agent that stays offline has an open
\* alert in the end, unless an administrator put it aside; the offline alert of an
\* agent that stays on line is resolved for good, though the check may have copied
\* its record before it came back.
AlertFollowsAgent ==
  \A a \in Agent :
    /\ <>[](/\ agents[a].approval = "approved" /\ ~agents[a].online /\ agents[a].seen = "stale"
            /\ a \notin dismissed) => <>[]Open(a, "offline")
    /\ <>[](agents[a].approval = "approved" /\ agents[a].online) => <>[]~Open(a, "offline")
=============================================================================
