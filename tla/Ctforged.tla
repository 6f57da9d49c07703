------------------------------ MODULE Ctforged ------------------------------
(***************************************************************************)
(* The request server of ctforged (server.c, the ops_* methods of          *)
(* ctforged.c), the payload modules it loads (payload.c) and its clients:  *)
(* the command line tool ctforgectl, the agent's bridge (ctforge.c) and    *)
(* the agent's probe of the daemon (ctfd.c).                               *)
(*                                                                         *)
(* Everything in the daemon runs on the libuv loop, so one callback is one *)
(* step.  A client of this repository sends one request per connection.    *)
(* File descriptors are 1 .. MaxFd, given out lowest first; RLIMIT_NOFILE  *)
(* is what MaxFd stands for.                                               *)
(***************************************************************************)
EXTENDS Signature, FiniteSets, FiniteSetsExt

CONSTANTS
  Module,        \* module names
  Objects,       \* objects the signature check may be asked about
  Payloads,      \* what ctforge_<name>.so.xz can unpack to
  NoPayload,     \* a missing file, or one the decoder rejects
  Ctl,           \* users of ctforgectl
  Bridge,        \* the agent's bridge
  Requests,      \* [Client -> requests it may send]
  MaxFd,         \* descriptors of the daemon
  MaxEvents,     \* records in a module's log ring buffer
  Nil

Client == Ctl \cup Bridge
Fd == 1 .. MaxFd
Backlog == 0

ObjectType ==
  [mod : Module, parses : BOOLEAN, size : {"tiny", "short", "full"}, magic : BOOLEAN,
   ebpf : BOOLEAN, sections : Seq(SectionType), flag : BOOLEAN,
   sign_len : {"fits", "over", "under"}, body : Bytes, sign : Bytes,
   exit : BOOLEAN, init : STRING, help : STRING]

ASSUME CtforgedAssumption ==
  /\ MaxFd \in Nat /\ MaxEvents \in Nat
  /\ Payloads \subseteq ObjectType /\ Objects \subseteq ObjectType
  /\ NoPayload \notin Payloads
  /\ Ctl \cap Bridge = {}

ASSUME RequestsAssumption ==
  /\ \A c \in Client : Requests[c] \subseteq [method : STRING, names : Seq(Module), long : BOOLEAN]
  /\ \A c \in Client : Nil \notin Requests[c]
  /\ Nil \notin Fd /\ Nil # Backlog

VARIABLES
  up,       \* the daemon runs
  listed,   \* module_list_head: name -> [path, obj] of the listed modules
  mapped,   \* objects of the dynamic linker: path -> [obj, refs]
  leaked,   \* descriptors do_one_insmod has left open
  stale,    \* descriptors of contexts that were left open at end of file
  pc,       \* clients: "idle", "wait" (for the answer), "gone" (has closed)
  req,      \* the request on the connection, Nil once the daemon has handled it
  sock,     \* daemon's side: Nil, Backlog, or the descriptor of its context
  rx,       \* what the daemon has not read yet: "none", "whole", "eof"
  tx,       \* lines on their way to the client; its end is sock = Nil
  said      \* what the bridge reported: Nil, "error" or "answer"

table == <<listed, mapped, leaked>>
conns == <<stale, pc, req, sock, rx, tx, said>>
vars == <<up, listed, mapped, leaked, stale, pc, req, sock, rx, tx, said>>

\* A line the daemon sends.
Result(m, ok) == [mod |-> m, ok |-> ok]
Line(tag, body) == [tag |-> tag, body |-> body]
Cut == Line("cut", "cut")         \* the beginning of a line, then the end

InUse(k) == k.leaked \cup stale \cup {sock[c] : c \in {d \in Client : sock[d] \in Fd}}

-----------------------------------------------------------------------------
(* payload.c.  k is the state of the module table while a request runs:     *)
(* the three variables, whether the process lives, and the results so far.  *)

Answered(k, m, ok) == [k EXCEPT !.results = Append(@, Result(m, ok))]

With(f, x, v) == [y \in DOMAIN f \cup {x} |-> IF y = x THEN v ELSE f[y]]
Without(f, x) == [y \in DOMAIN f \ {x} |-> f[y]]

\* What dlopen("/proc/self/fd/<fd>") returns: an object already loaded under
\* that path, or the payload.
dlopen(k, fd, p) == IF fd \in DOMAIN k.mapped THEN k.mapped[fd].obj ELSE p

\* get_file_size, which the check calls once the tail has its flag, does not
\* close the stream it opens.
Streams(p, free) ==
  IF free # {} /\ p.magic /\ p.size = "full" /\ p.flag THEN {Min(free)} ELSE {}

\* Mutant: the verdict of the signature check is only logged.
LoadUnverified(k, m, p, verdict) ==
  LET free == Fd \ InUse(k)
  IN  IF m \in DOMAIN k.listed THEN "loaded"
      ELSE IF free = {} \/ p = NoPayload THEN "unpack"
      ELSE IF Cardinality(free) < 3 THEN "fail"
      ELSE LET obj == dlopen(k, Min(free), p)
           IN  IF obj.mod # m \/ ~obj.exit THEN "close" ELSE "ok"

\* How far one insmod gets with the file that is installed for m.  The payload
\* takes a descriptor, its verification needs another, and so does dlopen for
\* an object it has not loaded yet.
LoadOutcome(k, m, p, verdict) ==
  LET free == Fd \ InUse(k)
      rest == free \ {Min(free)}
      obj == dlopen(k, Min(free), p)
  IN  IF m \in DOMAIN k.listed THEN "loaded"
      ELSE IF free = {} \/ p = NoPayload THEN "unpack"
      ELSE IF rest = {} THEN "fail"
      ELSE IF verdict # "ok" THEN verdict
      ELSE IF Min(free) \notin DOMAIN k.mapped /\ rest = Streams(p, rest) THEN "fail"
      ELSE IF obj.ebpf THEN "fail"   \* dlopen: wrong machine
      ELSE IF obj.mod # m \/ ~obj.exit \/ obj.init # "object 0" THEN "close"
      ELSE "ok"

\* Mutant: close_handler forgets dlclose.
InsmodKeepsHandle(k, m, p, verdict) ==
  LET fd == Min(Fd \ InUse(k))
      obj == dlopen(k, fd, p)
      refs == IF fd \in DOMAIN k.mapped THEN k.mapped[fd].refs ELSE 0
      kept == With(k.mapped, fd, [obj |-> obj, refs |-> refs + 1])
      outcome == LoadOutcome(k, m, p, verdict)
  IN  IF outcome = "close"
      THEN Answered([k EXCEPT !.leaked = @ \cup {fd}, !.mapped = kept], m, FALSE)
      ELSE IF outcome # "ok" THEN Answered(k, m, FALSE)
      ELSE Answered([k EXCEPT !.mapped = kept,
                              !.listed = With(@, m, [path |-> fd, obj |-> obj])], m, TRUE)

\* Mutant: ret still holds the 0 of the signature check at close_handler.
InsmodReturnsRet(k, m, p, verdict) ==
  Answered(k, m, LoadOutcome(k, m, p, verdict) \in {"close", "ok"})

\* A load that fails after unpacking returns without closing payload_fd.
do_one_insmod(k, m, p, verdict) ==
  LET free == Fd \ InUse(k)
      fd == Min(free)
      streams == Streams(p, free \ {fd})
      obj == dlopen(k, fd, p)
      refs == IF fd \in DOMAIN k.mapped THEN k.mapped[fd].refs ELSE 0
      outcome == LoadOutcome(k, m, p, verdict)
  IN  IF ~k.live THEN k
      ELSE IF outcome \in {"exit", "crash"} THEN [k EXCEPT !.live = FALSE]
      ELSE IF outcome \in {"loaded", "unpack"} THEN Answered(k, m, FALSE)
      ELSE IF outcome \in {"fail", "close"}
      THEN Answered([k EXCEPT !.leaked = @ \cup {fd} \cup streams], m, FALSE)
      ELSE Answered([k EXCEPT !.leaked = @ \cup streams,
                              !.mapped = With(@, fd, [obj |-> obj, refs |-> refs + 1]),
                              !.listed = With(@, m, [path |-> fd, obj |-> obj])], m, TRUE)

\* The debug line for an unknown module has a %s without an argument: the
\* build may crash there.  exit() of the module is called, its result ignored.
do_one_rmmod(k, m, ub) ==
  IF ~k.live THEN k
  ELSE IF m \notin DOMAIN k.listed
  THEN IF ub = "crash" THEN [k EXCEPT !.live = FALSE] ELSE Answered(k, m, FALSE)
  ELSE LET path == k.listed[m].path
           left == k.mapped[path].refs - 1
       IN  Answered([k EXCEPT
             !.mapped = IF left = 0 THEN Without(@, path) ELSE [@ EXCEPT ![path].refs = left],
             !.listed = Without(@, m)], m, TRUE)

-----------------------------------------------------------------------------
(* ctforged.c: the methods.  Each gives the table after it and its answer.  *)

Table == [listed |-> listed, mapped |-> mapped, leaked |-> leaked,
          live |-> TRUE, results |-> <<>>]

\* The files that may be installed for a module by now, and what the signature check says of each:
\* the key may be unreadable, and undefined behaviour has any outcome.
Installed ==
  [m \in Module |->
     {<<NoPayload, "fail">>} \cup
     {<<p, do_safty_verify_sign(p, key, ub)>> :
        p \in {q \in Payloads : q.mod = m}, key \in BOOLEAN, ub \in {"fail", "crash"}}]

\* What the next token of params may make of a table.
OneModule(method, k, m) ==
  IF method = "insmod" THEN {do_one_insmod(k, m, f[1], f[2]) : f \in Installed[m]}
  ELSE {do_one_rmmod(k, m, ub) : ub \in {"fail", "crash"}}

\* One token after the other.
EachModule(method, names) ==
  LET after[n \in 0 .. Len(names)] ==
        IF n = 0 THEN {Table}
        ELSE UNION {OneModule(method, k, names[n]) : k \in after[n - 1]}
  IN  after[Len(names)]

ops_insmod(names) == EachModule("insmod", names)
ops_rmmod(names) == EachModule("rmmod", names)

ops_lsmod == IF DOMAIN listed = {} THEN Line("lsmod", "no module")
             ELSE Line("lsmod", DOMAIN listed)

ops_status == Line("status", "ok")

\* What the function that a module's object has for the symbol returns; help
\* stands for every symbol.
mod_find_sym(m) == listed[m].obj.help

ops_mod(m) ==
  IF m \notin DOMAIN listed THEN Line("mod", "not found")
  ELSE IF mod_find_sym(m) = "absent" THEN Line("mod", "no symbol")
  ELSE IF mod_find_sym(m) = "null" THEN Line("mod", "internal error")
  ELSE Line("mod", mod_find_sym(m))

\* The log lines after the answer of a module that asks for them: one per
\* record of the ring buffer, and one with the count or the error.
handle_log(answer) ==
  IF answer # Line("mod", "log") THEN {<<>>}
  ELSE {[i \in 1 .. n + 1 |-> Line("log", "record")] : n \in 0 .. MaxEvents}

\* The tables do_one_hard_work may leave, each with the lines it queues.
Handled(r) ==
  IF r.method = "insmod" THEN {<<k, <<Line("insmod", k.results)>> >> : k \in ops_insmod(r.names)}
  ELSE IF r.method = "rmmod" THEN {<<k, <<Line("rmmod", k.results)>> >> : k \in ops_rmmod(r.names)}
  ELSE IF r.method = "lsmod" THEN {<<Table, <<ops_lsmod>> >>}
  ELSE IF r.method = "status" THEN {<<Table, <<ops_status>> >>}
  ELSE IF r.method = "mod"
  THEN {<<Table, <<ops_mod(r.names[1])>> \o more>> : more \in handle_log(ops_mod(r.names[1]))}
  ELSE {<<Table, <<Line("error", "method not found")>> >>}

\* uv_close drops what is still queued: a long answer loses its end.
Sent(lines) ==
  {lines} \cup (IF lines[1].tag # "mod" THEN {}
                ELSE {SubSeq(lines, 1, n) \o <<Cut>> : n \in 0 .. Len(lines) - 1})

-----------------------------------------------------------------------------
(* Clients.                                                                 *)

Methods == {"lsmod", "insmod", "rmmod", "mod", "status"}

\* connect, and the request right after it.  A daemon that is down refuses.
Connect(c, r) ==
  /\ pc[c] = "idle" /\ sock[c] = Nil
  /\ IF up
     THEN /\ sock' = [sock EXCEPT ![c] = Backlog]
          /\ rx' = [rx EXCEPT ![c] = "whole"]
          /\ pc' = [pc EXCEPT ![c] = "wait"]
          /\ req' = [req EXCEPT ![c] = r]
          /\ tx' = [tx EXCEPT ![c] = <<>>]
          /\ said' = [b \in Bridge |-> IF b = c THEN Nil ELSE said[b]]
     ELSE /\ said' = [b \in Bridge |-> IF b = c THEN "error" ELSE said[b]]
          /\ UNCHANGED <<pc, req, sock, rx, tx>>
  /\ UNCHANGED <<up, table, stale>>

\* ctforgectl sends the method and the parameters of its command line.
CtlConnect(c, r) == c \in Ctl /\ Connect(c, r)

\* The bridge sends the methods of its list; it refuses any other itself.
BridgeConnect(c, r) ==
  /\ c \in Bridge
  /\ IF r.method \in Methods THEN Connect(c, r)
     ELSE /\ pc[c] = "idle" /\ sock[c] = Nil
          /\ said' = [said EXCEPT ![c] = "error"]
          /\ UNCHANGED <<up, table, stale, pc, req, sock, rx, tx>>

\* on_read of ctforgectl prints the lines it finds, drops a line that has not
\* come to its end, and stops at the end of file.
CtlRead(c) ==
  /\ c \in Ctl /\ pc[c] = "wait" /\ sock[c] = Nil
  /\ tx' = [tx EXCEPT ![c] = <<>>]
  /\ pc' = [pc EXCEPT ![c] = "idle"]
  /\ UNCHANGED <<up, table, stale, req, sock, rx, said>>

\* ctforge_rpc returns the first line, or what it has at the end; nothing
\* read is reported as a failed connection.
BridgeLine(c) ==
  /\ c \in Bridge /\ pc[c] = "wait" /\ (tx[c] # <<>> \/ sock[c] = Nil)
  /\ said' = [said EXCEPT ![c] =
       IF tx[c] = <<>> THEN "error" ELSE "answer"]
  /\ pc' = [pc EXCEPT ![c] = "idle"]
  /\ tx' = [tx EXCEPT ![c] = <<>>]
  /\ UNCHANGED <<up, table, stale, req, sock, rx>>

\* A client that closes first: its user interrupts ctforgectl, or the bridge
\* has waited CTFORGE_IO_TIMEOUT_SEC.
Leave(c) ==
  /\ pc[c] = "wait" /\ sock[c] # Nil
  /\ pc' = [pc EXCEPT ![c] = "gone"]
  /\ rx' = [rx EXCEPT ![c] = IF @ = "none" THEN "eof" ELSE @]
  /\ said' = [b \in Bridge |-> IF b = c THEN "error" ELSE said[b]]
  /\ UNCHANGED <<up, table, stale, req, sock, tx>>

CtlLeave(c) == c \in Ctl /\ Leave(c)
BridgeTimeout(c) == c \in Bridge /\ Leave(c)

-----------------------------------------------------------------------------
(* The daemon's loop.                                                       *)

\* on_new_connection; without a descriptor libuv accepts and closes.
on_new_connection(c) ==
  /\ up /\ sock[c] = Backlog
  /\ LET free == Fd \ InUse(Table)
     IN  sock' = [sock EXCEPT ![c] = IF free = {} THEN Nil ELSE Min(free)]
  /\ IF sock'[c] = Nil
     THEN /\ pc' = [pc EXCEPT ![c] = IF @ = "gone" THEN "idle" ELSE @]
          /\ rx' = [rx EXCEPT ![c] = "none"]
          /\ req' = [req EXCEPT ![c] = Nil]
     ELSE UNCHANGED <<pc, rx, req>>
  /\ UNCHANGED <<up, table, stale, tx, said>>

\* The line is complete; until then on_client_read keeps what it has in
\* recv_buffer.  A request longer than 1024 bytes is dropped and the
\* connection kept; any other is handled and the connection closed.  A process
\* that ends takes all its state along.
Die ==
  /\ up' = FALSE
  /\ listed' = <<>> /\ mapped' = <<>> /\ leaked' = {} /\ stale' = {}
  /\ sock' = [c \in Client |-> Nil]
  /\ rx' = [c \in Client |-> "none"]
  /\ pc' = [c \in Client |-> IF pc[c] = "gone" THEN "idle" ELSE pc[c]]
  /\ req' = [c \in Client |-> Nil]
  /\ UNCHANGED <<tx, said>>

DropLong(c) ==
  /\ req[c].long
  /\ rx' = [rx EXCEPT ![c] = IF pc[c] = "gone" THEN "eof" ELSE "none"]
  /\ req' = [req EXCEPT ![c] = Nil]
  /\ UNCHANGED <<up, table, stale, pc, sock, tx, said>>

\* Mutant: the connection is closed by the client alone.
AnswerAndKeep(c) ==
  /\ ~req[c].long
  /\ \E h \in Handled(req[c]) :
       /\ h[1].live
       /\ listed' = h[1].listed /\ mapped' = h[1].mapped /\ leaked' = h[1].leaked
       /\ rx' = [rx EXCEPT ![c] = "none"]
       /\ req' = [req EXCEPT ![c] = Nil]
       /\ tx' = [tx EXCEPT ![c] = h[2]]
       /\ UNCHANGED <<up, stale, said, pc, sock>>

AnswerAndClose(c) ==
  /\ ~req[c].long
  /\ \E h \in Handled(req[c]) :
       IF ~h[1].live THEN Die
       ELSE /\ listed' = h[1].listed /\ mapped' = h[1].mapped
            /\ leaked' = h[1].leaked
            /\ sock' = [sock EXCEPT ![c] = Nil]
            /\ rx' = [rx EXCEPT ![c] = "none"]
            /\ req' = [req EXCEPT ![c] = Nil]
            /\ pc' = [pc EXCEPT ![c] = IF @ = "gone" THEN "idle" ELSE @]
            /\ \E lines \in Sent(h[2]) :
                 tx' = [tx EXCEPT ![c] = IF pc[c] = "gone" THEN <<>> ELSE lines]
            /\ UNCHANGED <<up, stale, said>>

do_per_request(c) ==
  /\ up /\ sock[c] \in Fd /\ rx[c] = "whole"
  /\ DropLong(c) \/ AnswerAndClose(c)

\* End of file: libuv has stopped the handle before it calls on_client_read,
\* so uv_is_active is false and request_close_client does nothing.
ReadEof(c) ==
  /\ up /\ sock[c] \in Fd /\ rx[c] = "eof"
  /\ stale' = stale \cup {sock[c]}
  /\ sock' = [sock EXCEPT ![c] = Nil]
  /\ rx' = [rx EXCEPT ![c] = "none"]
  /\ pc' = [pc EXCEPT ![c] = "idle"]
  /\ UNCHANGED <<up, table, req, tx, said>>

\* The agent's probe, where pgrep does not find the process, connects and
\* closes.  The daemon accepts it and reads the end of file; nothing is
\* exchanged, so the callbacks are one step.
ctforge_probe ==
  /\ up /\ Fd \ InUse(Table) # {}
  /\ stale' = stale \cup {Min(Fd \ InUse(Table))}
  /\ UNCHANGED <<up, table, pc, req, sock, rx, tx, said>>

-----------------------------------------------------------------------------
(* The environment.                                                         *)

\* The service manager starts the daemon again; payload_init loads nothing.
Restart ==
  /\ ~up
  /\ up' = TRUE
  /\ UNCHANGED <<table, conns>>

Init ==
  /\ up = TRUE
  /\ listed = <<>> /\ mapped = <<>> /\ leaked = {} /\ stale = {}
  /\ pc = [c \in Client |-> "idle"]
  /\ req = [c \in Client |-> Nil]
  /\ sock = [c \in Client |-> Nil]
  /\ rx = [c \in Client |-> "none"]
  /\ tx = [c \in Client |-> <<>>]
  /\ said = [b \in Bridge |-> Nil]

Serve(c) == on_new_connection(c) \/ do_per_request(c) \/ ReadEof(c)
Clients == \E c \in Client : \/ \E r \in Requests[c] : CtlConnect(c, r) \/ BridgeConnect(c, r)
                             \/ CtlRead(c) \/ BridgeLine(c)
                             \/ CtlLeave(c) \/ BridgeTimeout(c)
Next == (\E c \in Client : Serve(c)) \/ Clients \/ ctforge_probe \/ Restart

Spec == Init /\ [][Next]_vars

\* The loop runs every callback that is due, a client reads what arrives, the
\* bridge's timer fires and the service manager restarts the daemon.
FairSpec ==
  /\ Spec
  /\ \A c \in Client : WF_vars(Serve(c))
  /\ \A c \in Ctl : WF_vars(CtlRead(c))
  /\ \A c \in Bridge : WF_vars(BridgeLine(c) \/ BridgeTimeout(c))
  /\ WF_vars(Restart)

-----------------------------------------------------------------------------
(* Properties.                                                              *)

TypeOK ==
  /\ up \in BOOLEAN
  /\ DOMAIN listed \subseteq Module
  /\ \A m \in DOMAIN listed : listed[m].path \in Fd /\ listed[m].obj \in Payloads
  /\ DOMAIN mapped \subseteq Fd
  /\ \A fd \in DOMAIN mapped : mapped[fd].obj \in Payloads /\ mapped[fd].refs \in Nat \ {0}
  /\ leaked \subseteq Fd /\ stale \subseteq Fd
  /\ pc \in [Client -> {"idle", "wait", "gone"}]
  /\ DOMAIN req = Client /\ \A c \in Client : req[c] \in Requests[c] \cup {Nil}
  /\ DOMAIN tx = Client
  /\ sock \in [Client -> Fd \cup {Backlog, Nil}]
  /\ rx \in [Client -> {"none", "whole", "eof"}]

\* A module on module_list_head runs its own code, and that code passed the
\* signature check: do_one_insmod verifies the file it unpacked, but dlopen may
\* hand it an object that is already loaded under the same /proc/self/fd path.
ListedIsTrusted ==
  \A m \in DOMAIN listed :
    LET obj == listed[m].obj
    IN  obj.mod = m /\ obj.flag /\ Certified(obj, TRUE)

\* Every object dlopen keeps mapped is held by the listed modules that use it,
\* once each: no failed insmod and no rmmod of do_one_insmod/do_one_rmmod
\* leaves a handle behind or closes one that is in use.
RefsBalanced ==
  /\ \A m \in DOMAIN listed :
       LET path == listed[m].path
       IN  path \in DOMAIN mapped /\ mapped[path].obj = listed[m].obj
  /\ \A path \in DOMAIN mapped :
       mapped[path].refs = Cardinality({m \in DOMAIN listed : listed[m].path = path})

\* Nobody has asked anything yet: the states in which TLC evaluates what is true
\* of the signature check alone.
Untouched == leaked = {} /\ stale = {} /\ tx = [c \in Client |-> <<>>]
             /\ pc = [c \in Client |-> "idle"] /\ said = [b \in Bridge |-> Nil]

\* The signature check in its two forms, for a file and in memory, accepts
\* what it should (do_safty_verify_sign, do_safety_verify_sign_from_mem), and
\* what create_section makes passes do_verify_ebpf_section_sign.
SignatureCheckIsRight ==
  Untouched => \A p \in Objects : VerdictIsRight(p) /\ SigningPasses(p)

Answers(c, method) ==
  IF tx'[c] # tx[c] /\ tx'[c] # <<>> /\ tx'[c][1].tag = method
  THEN {tx'[c][1].body[i] : i \in DOMAIN tx'[c][1].body} ELSE {}

\* A request of that method is handled in this step, and its client, if it is
\* still there, is told that m succeeded.
AskedBy(m, method) ==
  \E c \in Client :
    /\ req[c] # Nil /\ req'[c] = Nil /\ req[c].method = method
    /\ pc[c] = "wait" => Result(m, TRUE) \in Answers(c, method)

\* The table and the answer of ops_insmod and ops_rmmod agree: what the answer
\* calls loaded is listed when the client is told so and what it calls
\* unloaded is not; a module appears or disappears in no other way, but when
\* the daemon ends.
AnswerIsTrue ==
  [][up' =>
     /\ \A c \in Client :
          /\ \A a \in Answers(c, "insmod") : a.ok => a.mod \in DOMAIN listed'
          /\ \A a \in Answers(c, "rmmod") : a.ok => a.mod \notin DOMAIN listed'
     /\ \A m \in DOMAIN listed' \ DOMAIN listed : AskedBy(m, "insmod")
     /\ \A m \in DOMAIN listed \ DOMAIN listed' : AskedBy(m, "rmmod")]_vars

\* Every client's request comes to an end: the daemon answers and closes, or it
\* ends and takes the connection along, or it has no descriptor left and drops
\* it.  The bridge also ends when the daemon keeps a connection it should have
\* closed (do_per_request of a line over 1024 bytes), and it always has
\* something to report to the server.
RequestEnds ==
  \A c \in Client :
    pc[c] = "wait" /\ req[c] # Nil /\ (req[c].long => c \in Bridge)
      ~> pc[c] # "wait" /\ (c \in Bridge => said[c] # Nil)
=============================================================================
