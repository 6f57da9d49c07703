------------------------------- MODULE Store -------------------------------
(***************************************************************************)
(* The in-memory agent record of internal/store/store.go and the functions *)
(* that rewrite one record.  Every operator is the body of ONE critical    *)
(* section of agentsMu: it maps the record an operation finds (the value   *)
(* NoAgent standing for "no entry in the map") to the record it leaves.    *)
(*                                                                         *)
(* Of Agent's fields the model keeps those that the registration protocol  *)
(* branches on: Approval, BoundServerID, Online and Discovered.  Host      *)
(* facts, metrics, histories and time stamps are data nothing branches on. *)
(***************************************************************************)
CONSTANTS Server,     \* the server ids an agent may be bound to
          MyID,       \* this server's id (identity.Manager)
          NoServer    \* BoundServerID is the empty string

ASSUME ServerAssumption == MyID \in Server /\ NoServer \notin Server

\* "unset" is the empty string of the code.
Approvals == {"unset", "pending", "approved", "rejected"}

\* The value "absent" of approval marks the entry that is not in the map.
AgentRecord == [approval : Approvals \cup {"absent"},
                bound : Server \cup {NoServer},
                online : BOOLEAN, discovered : BOOLEAN]

NoAgent == [approval |-> "absent", bound |-> NoServer,
            online |-> FALSE, discovered |-> FALSE]

Known(r) == r.approval # "absent"

\* ApprovalOf: "unset" for an agent the store does not know.
ApprovalOf(r) == IF Known(r) THEN r.approval ELSE "unset"

\* Mutant: a Register that forgets the binding of the record it replaces.
RegisterRecLosesBinding(old, approval, bound) ==
  [approval   |-> IF Known(old) THEN old.approval ELSE approval,
   bound      |-> bound,
   online     |-> TRUE,
   discovered |-> FALSE]

\* Register keeps the approval and the binding of the record it replaces;
\* only a record that is not there takes the caller's values.  It always
\* sets Online and clears Discovered.
RegisterRec(old, approval, bound) ==
  [approval   |-> IF Known(old) THEN old.approval ELSE approval,
   bound      |-> IF Known(old) THEN old.bound ELSE bound,
   online     |-> TRUE,
   discovered |-> FALSE]

\* Discover: a new host becomes pending; a known one that is offline and not
\* approved is marked discovered again; nothing else is touched.
DiscoverRec(old) ==
  IF ~Known(old)
    THEN [NoAgent EXCEPT !.approval = "pending", !.discovered = TRUE]
  ELSE IF old.online \/ old.approval = "approved"
    THEN old
  ELSE [old EXCEPT !.discovered = TRUE,
                   !.approval = IF @ = "unset" THEN "pending" ELSE @]

\* SetOnline, UpdateHeartbeat and UpdateMetrics write Online only if the
\* record is there.
SetOnlineRec(old, online) ==
  IF Known(old) THEN [old EXCEPT !.online = online] ELSE old

\* AddOfflineEvent: Online is cleared (the count is kept by the caller's model).
AddOfflineRec(old) == SetOnlineRec(old, FALSE)

\* SetApproval: the binding is written by an approval only.
SetApprovalRec(old, state, server) ==
  IF ~Known(old)
    THEN old
    ELSE [old EXCEPT !.approval = state,
                     !.bound = IF state = "approved" THEN server ELSE @]
=============================================================================
