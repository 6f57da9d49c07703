------------------------------- MODULE Daemon -------------------------------
(***************************************************************************)
(* The life of a ctforged process: main and start_uv_server, the clean-up  *)
(* list of config.c, the log of log.c, the netlink thread, the signal      *)
(* handler; and who starts and stops it: the service manager               *)
(* (scripts/ctforged.service) and the agent (ctfd.c), which may start a    *)
(* second process beside the service.                                      *)
(*                                                                         *)
(* A process has the threads "main" and "nl" (netlink); "sig" is the       *)
(* signal handler, which Linux runs on top of the main thread, so that     *)
(* main stands still until the handler returns.  printu is called between  *)
(* any two steps of a thread; on a machine where log is FALSE its steps    *)
(* are left out.                                                           *)
(***************************************************************************)
EXTENDS Naturals, Sequences, SequencesExt

CONSTANTS
  Service,      \* the process the service manager runs
  Direct,       \* the process the agent starts itself
  Hosts,        \* the machines: [listen, unit, pgrep, kernel, log]
  MaxFaults,    \* crashes, failures of netlink, full disks
  Nil

Proc == {Service, Direct}
Thread == {"main", "nl", "sig"}
Stale == 0      \* a socket file nobody listens on

ASSUME DaemonAssumption ==
  /\ Service # Direct /\ MaxFaults \in Nat
  /\ {Nil, Stale} \cap Proc = {} /\ Nil # Stale
  /\ Hosts \subseteq [listen : {"unix", "tcp", "bad"}, unit : BOOLEAN,
                      pgrep : BOOLEAN, kernel : BOOLEAN, log : BOOLEAN]

VARIABLES
  host,     \* the machine: what ctforge.cfg says, is there a unit file,
            \* pgrep, the kernel's netlink protocol
  full,     \* writing to the log file fails
  faults,   \* faults that have happened
  want,     \* the service manager wants the service to run
  ag,       \* ctfd_ensure_running: "idle", or "launch" after its probe
  phase,    \* where main is, "down" without a process
  tasks,    \* tasks[0 .. task_count - 1] of config.c
  bound,    \* the listen address: Nil, Stale, or the process listening on it
  nl,       \* the netlink thread: "none", "start", "loop"
  at,       \* where each thread is in printu, "run" outside of it
  todo      \* what the signal handler has still to do, <<>> when it is not running

outside == <<host, want, ag>>
vars == <<host, full, faults, want, ag, phase, tasks, bound, nl, at, todo>>

InHandler(p) == todo[p] # <<>>
Alive(p) == phase[p] # "down"

\* The process is gone; a socket file stays, a port is free again.
End(p) ==
  /\ phase' = [phase EXCEPT ![p] = "down"]
  /\ tasks' = [tasks EXCEPT ![p] = <<>>]
  /\ bound' = IF bound # p THEN bound ELSE IF host.listen = "unix" THEN Stale ELSE Nil
  /\ nl' = [nl EXCEPT ![p] = "none"]
  /\ at' = [at EXCEPT ![p] = [t \in Thread |-> "run"]]
  /\ todo' = [todo EXCEPT ![p] = <<>>]

-----------------------------------------------------------------------------
(* log.c.  The owner of a lock is the thread whose place says so:           *)
(*   fmt    wants the locks of libc    heap    holds them: the time, malloc *)
(*   want   wants output_lock          out     holds it, writes to stderr   *)
(*   mid    wants slog_lock            file    holds it, writes to the file *)
(*   fin    wants the locks of libc    own     holds them: free             *)
(*   errmid wants output_lock again, after a failed write                   *)
(*   err    holds it and calls pr_err, which wants it again: never goes on  *)
(* own is also the place of a malloc or free of main outside of printu.     *)
(* The locks of libc (the heap's, the one of localtime_r) are one.          *)

Place == {"run", "fmt", "heap", "want", "out", "mid", "file", "fin", "own", "errmid", "err"}
LibcHeld == {"heap", "own"}

Free(p, places) == \A t \in Thread : at[p][t] \notin places
LibcFree(p) == Free(p, LibcHeld)
OutputFree(p) == Free(p, {"out", "err"})
SlogFree(p) == Free(p, {"file"})
SlogEnabled(p) == phase[p] \in {"pool", "bind", "register", "serve"}

Runnable(p, t) ==
  \/ t = "main" /\ Alive(p) /\ ~InHandler(p)
  \/ t = "nl" /\ nl[p] # "none"
  \/ t = "sig" /\ InHandler(p)

Go(p, t, from, to) ==
  /\ Runnable(p, t) /\ at[p][t] = from
  /\ at' = [at EXCEPT ![p][t] = to]
  /\ UNCHANGED <<outside, full, faults, phase, tasks, bound, nl>>

\* printu returns; the handler goes on with its next step.
Returned(p, t) ==
  todo' = IF t = "sig" THEN [todo EXCEPT ![p] = Tail(@)] ELSE todo

printu(p, t) == /\ host.log
                /\ t = "sig" => InHandler(p) /\ Head(todo[p]) = "log"
                /\ Go(p, t, "run", "fmt") /\ UNCHANGED todo

\* localtime_r, vasprintf, asprintf and the first free.
FormatLine(p, t) ==
  \/ LibcFree(p) /\ Go(p, t, "fmt", "heap") /\ UNCHANGED todo
  \/ Go(p, t, "heap", "want") /\ UNCHANGED todo
LockOutput(p, t) == OutputFree(p) /\ Go(p, t, "want", "out") /\ UNCHANGED todo

OutputDone(p, t) ==
  IF SlogEnabled(p) THEN Go(p, t, "out", "mid") /\ UNCHANGED todo
  ELSE Go(p, t, "out", "fin") /\ UNCHANGED todo
ctforged_slog_to_file(p, t) ==
  SlogFree(p) /\ Go(p, t, "mid", "file") /\ UNCHANGED todo
SlogDone(p, t) ==
  IF full THEN Go(p, t, "file", "errmid") /\ UNCHANGED todo
  ELSE Go(p, t, "file", "fin") /\ UNCHANGED todo
FreeLine(p, t) == LibcFree(p) /\ Go(p, t, "fin", "own") /\ UNCHANGED todo
Freed(p, t) == Go(p, t, "own", "run") /\ Returned(p, t)
SlogFailed(p, t) == OutputFree(p) /\ Go(p, t, "errmid", "err") /\ UNCHANGED todo

Logging(p, t) == FormatLine(p, t) \/ LockOutput(p, t) \/ OutputDone(p, t)
                 \/ ctforged_slog_to_file(p, t) \/ SlogDone(p, t) \/ SlogFailed(p, t)
                 \/ FreeLine(p, t) \/ Freed(p, t)

\* main allocates and frees for the requests of its clients.
Malloc(p) == /\ host.log /\ phase[p] = "serve" /\ LibcFree(p)
             /\ Go(p, "main", "run", "own") /\ UNCHANGED todo

-----------------------------------------------------------------------------
(* main, one function it calls after the other.                             *)

Main(p, from) == Runnable(p, "main") /\ at[p]["main"] = "run" /\ phase[p] = from
To(p, to) == phase' = [phase EXCEPT ![p] = to]
Env == <<outside, full, faults>>

\* A missing or an empty file means the defaults, with a unix socket.
ctforged_init_config(p) ==
  /\ Main(p, "config")
  /\ IF host.listen = "bad" THEN End(p)
     ELSE /\ To(p, "signal")
          /\ tasks' = [tasks EXCEPT ![p] = Append(@, "config")]
          /\ UNCHANGED <<bound, nl, at, todo>>
  /\ UNCHANGED Env

ctforged_init_signal(p) ==
  /\ Main(p, "signal") /\ To(p, "log")
  /\ UNCHANGED <<Env, tasks, bound, nl, at, todo>>

ctforged_log_init(p) ==
  /\ Main(p, "log")
  /\ \/ To(p, "pool") /\ UNCHANGED <<tasks, bound, nl, at, todo>>
     \/ full /\ End(p)
  /\ UNCHANGED Env

\* threadpool_add of netlink_loop.
threadpoll_init(p) ==
  /\ Main(p, "pool") /\ To(p, "bind")
  /\ nl' = [nl EXCEPT ![p] = "start"]
  /\ UNCHANGED <<Env, tasks, bound, at, todo>>

\* Mutant: the server waits until the netlink thread has its handshake.
BindAfterHandshake(p) ==
  /\ Main(p, "bind") /\ nl[p] = "loop"
  /\ IF bound # Nil THEN End(p)
     ELSE /\ bound' = p
          /\ To(p, IF host.listen = "unix" THEN "register" ELSE "serve")
          /\ UNCHANGED <<tasks, nl, at, todo>>
  /\ UNCHANGED Env

\* Mutant: the clean-up is registered before bind.
RegisterBeforeBind(p) ==
  /\ Main(p, "bind")
  /\ IF "sock" \notin Range(tasks[p])
     THEN /\ tasks' = [tasks EXCEPT ![p] = Append(@, "sock")]
          /\ UNCHANGED <<phase, bound, nl, at, todo>>
     ELSE IF bound # Nil THEN End(p)
     ELSE bound' = p /\ To(p, "serve") /\ UNCHANGED <<tasks, nl, at, todo>>
  /\ UNCHANGED Env

\* bind and listen; when that fails main returns, without the clean-up.
start_uv_server(p) ==
  /\ Main(p, "bind")
  /\ IF bound # Nil THEN End(p)
     ELSE /\ bound' = p
          /\ To(p, IF host.listen = "unix" THEN "register" ELSE "serve")
          /\ UNCHANGED <<tasks, nl, at, todo>>
  /\ UNCHANGED Env

register_cleanup(p) ==
  /\ Main(p, "register") /\ To(p, "serve")
  /\ tasks' = [tasks EXCEPT ![p] = Append(@, "sock")]
  /\ UNCHANGED <<Env, bound, nl, at, todo>>

main(p) == ctforged_init_config(p) \/ ctforged_init_signal(p) \/ ctforged_log_init(p)
           \/ threadpoll_init(p) \/ start_uv_server(p) \/ register_cleanup(p)

\* Without the protocol in the kernel the thread ends; the process goes on.
create_netlink_socket(p) ==
  /\ nl[p] = "start" /\ at[p]["nl"] = "run"
  /\ nl' = [nl EXCEPT ![p] = IF host.kernel THEN "loop" ELSE "none"]
  /\ UNCHANGED <<Env, phase, tasks, bound, at, todo>>

\* A message of the kernel has no other effect than lines in the log.
netlink_loop(p) == printu(p, "nl")

\* bind, sendmsg or recvmsg fails: exit, from the netlink thread.
NetlinkFails(p) ==
  /\ nl[p] # "none" /\ at[p]["nl"] = "run"
  /\ faults < MaxFaults /\ faults' = faults + 1
  /\ End(p) /\ UNCHANGED <<outside, full>>

-----------------------------------------------------------------------------
(* The signal handler.                                                      *)

\* A line of the handler in the log, where that is modelled.
LogLine == IF host.log THEN <<"log">> ELSE <<>>

\* Mutant: the tasks run in the order of their registration.
shutdown_in_order(list) == FlattenSeq([i \in DOMAIN list |-> Append(LogLine, list[i])])

shutdown_cleanup(list) ==
  FlattenSeq([i \in DOMAIN list |-> Append(LogLine, Reverse(list)[i])])

ctforged_sig_handler(list) == LogLine \o shutdown_cleanup(list) \o LogLine \o <<"exit">>

\* SIGTERM or SIGINT.  Before ctforged_init_signal it ends the process; while
\* the handler runs it is blocked.
Signalled(p) ==
  /\ Alive(p) /\ ~InHandler(p)
  /\ IF phase[p] \in {"config", "signal"} THEN End(p)
     ELSE /\ todo' = [todo EXCEPT ![p] = ctforged_sig_handler(tasks[p])]
          /\ UNCHANGED <<phase, tasks, bound, nl, at>>

HandlerStep(p) == InHandler(p) /\ at[p]["sig"] = "run"

\* ctforged_clean_sock: nothing to do over tcp, or once clean_config has run.
ctforged_clean_sock(p) ==
  /\ HandlerStep(p) /\ Head(todo[p]) = "sock"
  /\ bound' = IF host.listen = "unix" /\ "config" \in Range(todo[p]) THEN Nil ELSE bound
  /\ todo' = [todo EXCEPT ![p] = Tail(@)]
  /\ UNCHANGED <<Env, phase, tasks, nl, at>>

\* It frees the strings of the configuration.
ctforged_clean_config(p) ==
  /\ HandlerStep(p) /\ Head(todo[p]) = "config" /\ LibcFree(p)
  /\ todo' = [todo EXCEPT ![p] = Tail(@)]
  /\ UNCHANGED <<Env, phase, tasks, bound, nl, at>>

\* Mutant: the handler joins the netlink thread before it exits.
ExitAfterJoin(p) ==
  /\ HandlerStep(p) /\ Head(todo[p]) = "exit" /\ nl[p] = "none"
  /\ End(p) /\ UNCHANGED Env

do_exit_clean(p) ==
  /\ HandlerStep(p) /\ Head(todo[p]) = "exit"
  /\ End(p) /\ UNCHANGED Env

Handler(p) == ctforged_clean_sock(p) \/ ctforged_clean_config(p) \/ do_exit_clean(p)

-----------------------------------------------------------------------------
(* Outside of the process.                                                  *)

Started(p) ==
  /\ phase' = [phase EXCEPT ![p] = "config"]
  /\ UNCHANGED <<tasks, bound, nl, at, todo>>

\* Restart=always.
ManagerStarts ==
  /\ host.unit /\ want /\ ~Alive(Service) /\ Started(Service)
  /\ UNCHANGED Env

SystemctlStart ==
  /\ host.unit /\ ~want /\ want' = TRUE
  /\ UNCHANGED <<host, ag, full, faults, phase, tasks, bound, nl, at, todo>>

\* SIGTERM, and SIGKILL to what is left after TimeoutStopSec.
SystemctlStop ==
  /\ want /\ want' = FALSE
  /\ IF Alive(Service) /\ ~InHandler(Service) THEN Signalled(Service)
     ELSE UNCHANGED <<phase, tasks, bound, nl, at, todo>>
  /\ UNCHANGED <<host, ag, full, faults>>

ManagerKills == ~want /\ Alive(Service) /\ End(Service) /\ UNCHANGED Env

UserKills == Signalled(Direct) /\ UNCHANGED Env

\* A crash, a SIGKILL, or an exit on the way of a request.
Crash(p) ==
  /\ Alive(p) /\ faults < MaxFaults /\ faults' = faults + 1
  /\ End(p) /\ UNCHANGED <<outside, full>>

DiskFills ==
  /\ ~full /\ full' = TRUE /\ faults < MaxFaults /\ faults' = faults + 1
  /\ UNCHANGED <<outside, phase, tasks, bound, nl, at, todo>>
DiskDrains ==
  /\ full /\ full' = FALSE
  /\ UNCHANGED <<outside, faults, phase, tasks, bound, nl, at, todo>>

\* The agent looks for a process of that name; without pgrep it connects.
ctfd_probe_running ==
  IF host.pgrep THEN \E p \in Proc : Alive(p)
  ELSE bound \in Proc

Probe ==
  /\ ag = "idle" /\ ~ctfd_probe_running /\ ag' = "launch"
  /\ UNCHANGED <<host, want, full, faults, phase, tasks, bound, nl, at, todo>>

\* systemctl start, or else a process of its own.
ctfd_ensure_running ==
  /\ ag = "launch" /\ ag' = "idle"
  /\ \/ host.unit /\ want' = TRUE /\ UNCHANGED <<phase, tasks, bound, nl, at, todo>>
     \/ ~Alive(Direct) /\ Started(Direct) /\ UNCHANGED want
  /\ UNCHANGED <<host, full, faults>>

-----------------------------------------------------------------------------

Init ==
  /\ host \in Hosts
  /\ full = FALSE /\ faults = 0 /\ want = host.unit /\ ag = "idle"
  /\ phase = [p \in Proc |-> "down"]
  /\ tasks = [p \in Proc |-> <<>>]
  /\ bound = Nil
  /\ nl = [p \in Proc |-> "none"]
  /\ at = [p \in Proc |-> [t \in Thread |-> "run"]]
  /\ todo = [p \in Proc |-> <<>>]

Outside == ManagerStarts \/ SystemctlStart \/ SystemctlStop \/ ManagerKills \/ UserKills
           \/ DiskFills \/ DiskDrains \/ Probe \/ ctfd_ensure_running

Next ==
  \/ \E p \in Proc, t \in Thread : Logging(p, t)
  \/ \E p \in Proc : printu(p, "main") \/ Malloc(p) \/ main(p) \/ printu(p, "sig") \/ Handler(p)
  \/ \E p \in Proc : create_netlink_socket(p) \/ netlink_loop(p) \/ NetlinkFails(p) \/ Crash(p)
  \/ Outside

Spec == Init /\ [][Next]_vars

\* Threads run.  A lock is not kept from a thread that wants it for ever: the
\* netlink thread waits for the kernel between two messages.  The service
\* manager restarts the service; nothing else outside is owed.
FairSpec ==
  /\ Spec
  /\ \A p \in Proc :
       /\ \A t \in Thread : SF_vars(Logging(p, t))
       /\ WF_vars(main(p)) /\ WF_vars(create_netlink_socket(p)) /\ SF_vars(Handler(p))
       /\ WF_vars(printu(p, "sig"))
  /\ WF_vars(ManagerStarts)

-----------------------------------------------------------------------------
(* Properties.                                                              *)

TypeOK ==
  /\ host \in Hosts /\ full \in BOOLEAN /\ faults \in 0 .. MaxFaults /\ want \in BOOLEAN
  /\ ag \in {"idle", "launch"}
  /\ phase \in [Proc -> {"down", "config", "signal", "log", "pool", "bind", "register", "serve"}]
  /\ tasks \in [Proc -> {<<>>, <<"config">>, <<"config", "sock">>}]
  /\ bound \in Proc \cup {Nil, Stale}
  /\ nl \in [Proc -> {"none", "start", "loop"}]
  /\ at \in [Proc -> [Thread -> Place]]
  /\ todo \in [Proc -> Seq({"log", "sock", "config", "exit"})]

\* start_uv_server, ctforged_clean_sock: what a serving process listens on
\* leads to it until its own handler removes it, whatever a second process
\* does: fails to bind, is stopped on its way up, cleans up and exits.
KeepsItsAddress ==
  \A p \in Proc : phase[p] \in {"register", "serve"} /\ ~InHandler(p) => bound = p

\* shutdown_cleanup runs clean_sock while the configuration still names the
\* path: a process that was serving and leaves through do_exit_clean leaves no
\* socket file behind, so that the next one can bind.
CleanExit ==
  [][\A p \in Proc : do_exit_clean(p) /\ phase[p] = "serve" /\ bound = p => bound' # Stale]_vars

\* A failed write of the log file has left a thread with output_lock for ever.
Stuck(p) == \E t \in Thread : at[p][t] = "err"

\* printu and ctforged_slog_to_file give back what they lock, unless the log
\* file cannot be written: with no handler on top, what the netlink thread logs
\* comes to its end whatever main logs and allocates, and a signal that finds
\* main with none of the locks the handler takes too (the two of the log, those
\* of malloc and localtime_r) ends the process through the handler, whatever
\* the netlink thread does.  Said of the process the agent starts: on the
\* machine with the log it is the only one.
LocksAreGivenBack ==
  LET p == Direct IN
    /\ at[p]["nl"] = "fmt" ~> at[p]["nl"] = "run" \/ InHandler(p) \/ full \/ Stuck(p)
    /\ InHandler(p) /\ at[p]["main"] \notin LibcHeld \cup {"out", "file"}
         ~> ~Alive(p) \/ full \/ Stuck(p)

\* Over tcp the daemon comes back after any crash, race of two processes for
\* the port or failure of the netlink thread, once the service manager keeps
\* wanting it and nobody is being stopped (start_uv_server, Restart=always).
ComesBack ==
  host.listen = "tcp" /\ [](~full) /\ <>[](want /\ \A p \in Proc : ~InHandler(p))
    => []<>(\E p \in Proc : phase[p] = "serve" /\ bound = p)
=============================================================================
