---------------------------- MODULE Persistence ----------------------------
(***************************************************************************)
(* What survives a restart of ctforge-server: persist.go (approvals.json   *)
(* and approvals.json.uninstall) and the tombstone file of store.go.       *)
(*                                                                         *)
(* The memory is the store; the disk is three files.  approvals.json is    *)
(* written by the goroutines SaveAsync starts, each with the snapshot it   *)
(* took; the uninstall file by the handler that called                     *)
(* NotifyApprovalChange, through one shared temporary file and no lock;    *)
(* the tombstone file is rewritten in place.  A crash may come between any *)
(* two steps, and the restart loads what the files hold.                   *)
(***************************************************************************)
EXTENDS Naturals, FiniteSets

CONSTANTS Agent,
          Notifier,    \* request handlers that can be active at once
          Job,         \* Save goroutines that can be active at once
          Remover,     \* RemoveAgent calls that can be active at once
          Nothing,     \* no agent, no file
          MaxChanges   \* bound on the changes of the memory in a behaviour

ASSUME PersistAssumption ==
  /\ MaxChanges \in Nat
  /\ Nothing \notin Agent \cup Nat
  /\ IsFiniteSet(Notifier)

VARIABLES
  \* the store
  agents,      \* the persistent fields of Agent; approval is "absent" without a record
  request,     \* uninstallReq: none, waiting, approved, rejected
  tombstones,
  \* goroutines
  hpc, hsnap, hfile,  \* handlers: place, snapshot of the requests, open inode
  jpc, jsnap,         \* Save goroutines: place, snapshot of the agents
  rpc, rwho, rsnap,   \* RemoveAgent calls: place, agent, snapshot of the tombstones
  \* the disk
  approvalsFile,      \* approvals.json
  inode, path, tmp,   \* contents; the inodes of the uninstall file and of its .tmp
  tombFile,
  \* history
  everApproved, everConsented,  \* agents an administrator approved, let uninstall
  removed,                      \* agents whose RemoveAgent call has returned
  past,                         \* values the agents' persistent fields have had
  changes

store    == <<agents, request, tombstones>>
notifier == <<hpc, hsnap, hfile>>
job      == <<jpc, jsnap>>
remover  == <<rpc, rwho, rsnap>>
disk     == <<approvalsFile, inode, path, tmp, tombFile>>
history  == <<everApproved, everConsented, removed, past, changes>>
persistVars == <<store, notifier, job, remover, disk, history>>

Approvals == {"absent", "pending", "approved", "rejected"}
Decisions == {"none", "waiting", "approved", "rejected"}
Record    == [approval : Approvals, offline : 0 .. MaxChanges]
Table     == [Agent -> Record]  \* store.agents, the content of approvals.json
Requests  == [Agent -> Decisions]
NoRequest == [a \in Agent |-> "none"]

\* The inodes the uninstall file and its temporary file can have.
Inode == 0 .. Cardinality(Notifier) + 1

PersistTypeOK ==
  /\ agents \in Table
  /\ request \in Requests
  /\ tombstones \subseteq Agent
  /\ hpc \in [Notifier -> {"idle", "notify", "snap", "open", "write", "rename"}]
  /\ hsnap \in [Notifier -> Requests]
  /\ hfile \in [Notifier -> Inode \cup {Nothing}]
  /\ jpc \in [Job -> {"idle", "snap", "write"}]
  /\ jsnap \in [Job -> Table]
  /\ rpc \in [Remover -> {"idle", "tomb", "snap", "truncate", "write"}]
  /\ rwho \in [Remover -> Agent \cup {Nothing}]
  /\ rsnap \in [Remover -> SUBSET Agent]
  /\ approvalsFile \in Table
  /\ inode \in [Inode -> [kind : {"partial", "whole", "garbled"}, data : Requests]]
  /\ path \in Inode \cup {Nothing}
  /\ tmp \in Inode \cup {Nothing}
  /\ tombFile \subseteq Agent
  /\ everApproved \subseteq Agent /\ everConsented \subseteq Agent
  /\ removed \subseteq Agent
  /\ past \subseteq Table
  /\ changes \in 0 .. MaxChanges

NoRecord == [approval |-> "absent", offline |-> 0]
NoTable == [a \in Agent |-> NoRecord]
Partial == [kind |-> "partial", data |-> NoRequest]

\* A first start: the data directory is empty.
PersistInit ==
  /\ agents = NoTable
  /\ request = NoRequest
  /\ tombstones = {}
  /\ hpc = [h \in Notifier |-> "idle"] /\ hsnap = [h \in Notifier |-> NoRequest]
  /\ hfile = [h \in Notifier |-> Nothing]
  /\ jpc = [j \in Job |-> "idle"] /\ jsnap = [j \in Job |-> NoTable]
  /\ rpc = [r \in Remover |-> "idle"] /\ rwho = [r \in Remover |-> Nothing]
  /\ rsnap = [r \in Remover |-> {}]
  /\ approvalsFile = NoTable
  /\ inode = [i \in Inode |-> Partial]
  /\ path = Nothing /\ tmp = Nothing
  /\ tombFile = {}
  /\ everApproved = {} /\ everConsented = {} /\ removed = {}
  /\ past = {NoTable} /\ changes = 0

Change == changes < MaxChanges /\ changes' = changes + 1
Remember == past' = past \cup {agents'}

-----------------------------------------------------------------------------
(* Changes of the store.  The races of registration and discovery are in    *)
(* module AgentRegistry; here a host becomes pending in one step.           *)

BecomesPending(a) ==
  /\ Change
  /\ agents[a] = NoRecord /\ a \notin tombstones
  /\ agents' = [agents EXCEPT ![a].approval = "pending"]
  /\ Remember
  /\ UNCHANGED <<request, tombstones, notifier, job, remover, disk,
                 everApproved, everConsented, removed>>

\* AddOfflineEvent: nothing is saved.
AddOfflineEvent(a) ==
  /\ Change
  /\ agents[a] # NoRecord
  /\ agents' = [agents EXCEPT ![a].offline = @ + 1]
  /\ Remember
  /\ UNCHANGED <<request, tombstones, notifier, job, remover, disk,
                 everApproved, everConsented, removed>>

\* handleApprovalAction up to SetApproval.
SetApproval(h, a, state) ==
  /\ Change
  /\ hpc[h] = "idle" /\ agents[a] # NoRecord
  /\ agents' = [agents EXCEPT ![a].approval = state]
  /\ everApproved' = IF state = "approved" THEN everApproved \cup {a} ELSE everApproved
  /\ hpc' = [hpc EXCEPT ![h] = "notify"]
  /\ Remember
  /\ UNCHANGED <<request, tombstones, hsnap, hfile, job, remover, disk,
                 everConsented, removed>>

\* handleUninstallReq up to AddUninstallRequest.
AddUninstallRequest(h, a) ==
  /\ Change
  /\ hpc[h] = "idle" /\ request[a] \in {"none", "waiting"}
  /\ request' = [request EXCEPT ![a] = "waiting"]
  /\ hpc' = [hpc EXCEPT ![h] = "notify"]
  /\ UNCHANGED <<agents, tombstones, hsnap, hfile, job, remover, disk,
                 everApproved, everConsented, removed, past>>

\* DecideUninstall: nothing is saved.  Approved is assigned before DecidedAt, so
\* a snapshot SaveUninstall takes in between still reads as undecided.
DecideUninstall(a, decision) ==
  /\ Change
  /\ request[a] # "none"
  /\ request' = [request EXCEPT ![a] = decision]
  /\ everConsented' = IF decision = "approved" THEN everConsented \cup {a}
                                               ELSE everConsented
  /\ UNCHANGED <<agents, tombstones, notifier, job, remover, disk,
                 everApproved, removed, past>>

-----------------------------------------------------------------------------
(* NotifyApprovalChange: start a Save goroutine, then SaveUninstall.        *)

SaveAsync(h, j) ==
  /\ hpc[h] = "notify" /\ jpc[j] = "idle"
  /\ hpc' = [hpc EXCEPT ![h] = "snap"]
  /\ jpc' = [jpc EXCEPT ![j] = "snap"]
  /\ UNCHANGED <<store, hsnap, hfile, jsnap, remover, disk, history>>

SaveSnapshot(j) ==
  /\ jpc[j] = "snap"
  /\ jpc' = [jpc EXCEPT ![j] = "write"]
  /\ jsnap' = [jsnap EXCEPT ![j] = agents]
  /\ UNCHANGED <<store, notifier, remover, disk, history>>

\* Mutant: the list keeps the store's records instead of copies, so that some
\* are read when the file is written.
SaveWriteTorn(j) ==
  /\ jpc[j] = "write"
  /\ \E late \in SUBSET Agent :
       approvalsFile' = [a \in Agent |-> IF a \in late THEN agents[a] ELSE jsnap[j][a]]
  /\ jpc' = [jpc EXCEPT ![j] = "idle"]
  /\ jsnap' = [jsnap EXCEPT ![j] = NoTable]
  /\ UNCHANGED <<store, notifier, remover, inode, path, tmp, tombFile, history>>

\* The temporary file is written and renamed under p.mu: one step for the disk.
SaveWrite(j) ==
  /\ jpc[j] = "write"
  /\ approvalsFile' = jsnap[j]
  /\ jpc' = [jpc EXCEPT ![j] = "idle"]
  /\ jsnap' = [jsnap EXCEPT ![j] = NoTable]
  /\ UNCHANGED <<store, notifier, remover, inode, path, tmp, tombFile, history>>

UninstallSnapshot(h) ==
  /\ hpc[h] = "snap"
  /\ hpc' = [hpc EXCEPT ![h] = "open"]
  /\ hsnap' = [hsnap EXCEPT ![h] = request]
  /\ UNCHANGED <<store, hfile, job, remover, disk, history>>

\* An inode nobody refers to.
Unused == Inode \ ({path, tmp} \cup {hfile[h] : h \in Notifier})

\* os.WriteFile opens the temporary file: it is created, or truncated.
UninstallOpen(h) ==
  /\ hpc[h] = "open"
  /\ \E i \in IF tmp = Nothing THEN Unused ELSE {tmp} :
       /\ tmp' = i
       /\ hfile' = [hfile EXCEPT ![h] = i]
       /\ inode' = [inode EXCEPT ![i] = Partial]
  /\ hpc' = [hpc EXCEPT ![h] = "write"]
  /\ UNCHANGED <<store, hsnap, job, remover, approvalsFile, path, tombFile, history>>

\* ... and writes it.  Over what another handler has written the shorter text
\* leaves the end of the longer one.
UninstallWrite(h) ==
  /\ hpc[h] = "write"
  /\ \E k \in {"whole"} \cup (IF inode[hfile[h]].kind = "partial" THEN {} ELSE {"garbled"}) :
       inode' = [inode EXCEPT ![hfile[h]] =
                   [kind |-> k, data |-> IF k = "whole" THEN hsnap[h] ELSE NoRequest]]
  /\ hfile' = [hfile EXCEPT ![h] = Nothing]
  /\ hpc' = [hpc EXCEPT ![h] = "rename"]
  /\ UNCHANGED <<store, hsnap, job, remover, approvalsFile, path, tmp, tombFile, history>>

\* os.Rename fails when another handler has renamed the file already.
UninstallRename(h) ==
  /\ hpc[h] = "rename"
  /\ path' = IF tmp = Nothing THEN path ELSE tmp
  /\ tmp' = Nothing
  /\ hpc' = [hpc EXCEPT ![h] = "idle"]
  /\ hsnap' = [hsnap EXCEPT ![h] = NoRequest]
  /\ UNCHANGED <<store, hfile, job, remover, approvalsFile, inode, tombFile, history>>

-----------------------------------------------------------------------------
(* RemoveAgent and saveTombstones.                                          *)

RemoveRecord(r, a) ==
  /\ Change
  /\ rpc[r] = "idle" /\ agents[a] # NoRecord
  /\ agents' = [agents EXCEPT ![a] = NoRecord]
  /\ rpc' = [rpc EXCEPT ![r] = "tomb"]
  /\ rwho' = [rwho EXCEPT ![r] = a]
  /\ Remember
  /\ UNCHANGED <<request, tombstones, notifier, job, rsnap, disk,
                 everApproved, everConsented, removed>>

AddTombstone(r) ==
  /\ rpc[r] = "tomb"
  /\ tombstones' = tombstones \cup {rwho[r]}
  /\ rpc' = [rpc EXCEPT ![r] = "snap"]
  /\ UNCHANGED <<agents, request, notifier, job, rwho, rsnap, disk, history>>

TombSnapshot(r) ==
  /\ rpc[r] = "snap"
  /\ rsnap' = [rsnap EXCEPT ![r] = tombstones]
  /\ rpc' = [rpc EXCEPT ![r] = "truncate"]
  /\ UNCHANGED <<store, notifier, job, rwho, disk, history>>

\* os.WriteFile truncates tombstones.json in place ...
TombTruncate(r) ==
  /\ rpc[r] = "truncate"
  /\ tombFile' = {}
  /\ rpc' = [rpc EXCEPT ![r] = "write"]
  /\ UNCHANGED <<store, notifier, job, rwho, rsnap, approvalsFile, inode, path, tmp, history>>

\* ... and writes it; then RemoveAgent returns.
TombWrite(r) ==
  /\ rpc[r] = "write"
  /\ tombFile' = rsnap[r]
  /\ rpc' = [rpc EXCEPT ![r] = "idle"]
  /\ removed' = removed \cup {rwho[r]}
  /\ rwho' = [rwho EXCEPT ![r] = Nothing]
  /\ rsnap' = [rsnap EXCEPT ![r] = {}]
  /\ UNCHANGED <<store, notifier, job, approvalsFile, inode, path, tmp,
                 everApproved, everConsented, past, changes>>

-----------------------------------------------------------------------------
(* The server stops, by a crash or an exit, and starts again: New loads the *)
(* tombstones, Load the approvals, LoadUninstall the requests.              *)

\* Mutant: every host of the file is restored as an approved one.
LoadedAsApproved ==
  [a \in Agent |-> IF a \in tombFile \/ approvalsFile[a] = NoRecord THEN NoRecord
                   ELSE [approvalsFile[a] EXCEPT !.approval = "approved"]]

\* Load skips a tombstoned host.
Loaded == [a \in Agent |-> IF a \in tombFile THEN NoRecord ELSE approvalsFile[a]]

\* A file that does not parse is an error: no request is restored.
LoadedRequests ==
  IF path # Nothing /\ inode[path].kind = "whole" THEN inode[path].data ELSE NoRequest

Restart ==
  /\ agents' = Loaded
  /\ request' = LoadedRequests
  /\ tombstones' = tombFile
  /\ hpc' = [h \in Notifier |-> "idle"] /\ hsnap' = [h \in Notifier |-> NoRequest]
  /\ hfile' = [h \in Notifier |-> Nothing]
  /\ jpc' = [j \in Job |-> "idle"] /\ jsnap' = [j \in Job |-> NoTable]
  /\ rpc' = [r \in Remover |-> "idle"] /\ rwho' = [r \in Remover |-> Nothing]
  /\ rsnap' = [r \in Remover |-> {}]
  /\ Remember
  /\ UNCHANGED <<disk, everApproved, everConsented, removed, changes>>

PersistNext ==
  \/ \E a \in Agent :
       \/ BecomesPending(a) \/ AddOfflineEvent(a)
       \/ \E d \in {"approved", "rejected"} : DecideUninstall(a, d)
       \/ \E h \in Notifier : \/ AddUninstallRequest(h, a)
                             \/ \E s \in {"approved", "rejected"} : SetApproval(h, a, s)
       \/ \E r \in Remover : RemoveRecord(r, a)
  \/ \E h \in Notifier : \/ \E j \in Job : SaveAsync(h, j)
                        \/ UninstallSnapshot(h) \/ UninstallOpen(h)
                        \/ UninstallWrite(h) \/ UninstallRename(h)
  \/ \E j \in Job : SaveSnapshot(j) \/ SaveWrite(j)
  \/ \E r \in Remover : AddTombstone(r) \/ TombSnapshot(r) \/ TombTruncate(r) \/ TombWrite(r)
  \/ Restart

PersistSpec == PersistInit /\ [][PersistNext]_persistVars

-----------------------------------------------------------------------------

\* However saves interleave and crashes fall, a restart never brings up an
\* approval or a consent to uninstall that no administrator gave.
RestoreInventsNothing ==
  \A a \in Agent : /\ agents[a].approval = "approved" => a \in everApproved
                   /\ request[a] = "approved" => a \in everConsented

\* approvals.json is never a mixture: it holds what the store held at one moment,
\* for all agents together.
FileIsOneMoment == approvalsFile \in past

\* No goroutine is at work on the store's behalf.
Quiet == /\ \A h \in Notifier : hpc[h] = "idle"
         /\ \A j \in Job : jpc[j] = "idle"
         /\ \A r \in Remover : rpc[r] = "idle"

-----------------------------------------------------------------------------
(* What the comments of the code promise and the code does not keep.        *)

\* Save puts the current approvals on disk: when every save has ended, the file
\* agrees with the store on each agent an administrator decided about.
SavedIsCurrent ==
  Quiet => \A a \in Agent : agents[a].approval \in {"approved", "rejected"}
                              => approvalsFile[a].approval = agents[a].approval

\* The offline count survives a restart with the approval it is stored with.
OfflineCountSaved ==
  Quiet => \A a \in Agent : agents[a].approval \in {"approved", "rejected"}
                              => approvalsFile[a].offline = agents[a].offline

\* The blacklist is not lost by a restart: a host whose removal has completed
\* stays blacklisted.
TombstonesSurvive == removed \subseteq tombstones
=============================================================================
