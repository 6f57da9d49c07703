------------------------------ MODULE MCDaemon ------------------------------
(* Daemon on four machines. *)
EXTENDS Daemon

Host(listen, unit, pgrep, kernel, log) ==
  [listen |-> listen, unit |-> unit, pgrep |-> pgrep, kernel |-> kernel, log |-> log]

\* One process with all its threads; a service and a second process beside it,
\* over a unix socket and over tcp; a configuration that is refused.
MCHosts == {Host("tcp", FALSE, TRUE, TRUE, TRUE), Host("unix", TRUE, FALSE, TRUE, FALSE),
            Host("tcp", TRUE, FALSE, FALSE, FALSE), Host("bad", TRUE, TRUE, TRUE, FALSE)}
=============================================================================
