--------------------------- MODULE MCAgentCommands ---------------------------
(* A small instance of AgentCommands. *)
EXTENDS AgentCommands

Command(type, limit, wait, does) == [type |-> type, limit |-> limit, wait |-> wait, does |-> does]

\* An operation, a message without an answer, and programs of every sort: the
\* second is waited for no longer than it may run, the last may run as long as
\* the read deadline.
MCCommands ==
  {Command("quick", 0, 1, "ends"), Command("silent", 0, 1, "ends"),
   Command("popen", 1, 2, "ends"), Command("popen", 1, 1, "escapes"),
   Command("exec", 1, 1, "hangs"),
   Command("task", 1, 1, "floods"), Command("task", 3, 1, "hangs")}
=============================================================================
