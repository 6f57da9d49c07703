---------------------------- MODULE Daemon_proofs ----------------------------
(***************************************************************************)
(* Proofs, for every machine and any number of faults, that a serving      *)
(* process keeps its address and that a clean exit leaves no socket file.  *)
(*                                                                         *)
(* The handler's list of steps is one of ten; they fall in two sets,       *)
(* before and after clean_sock.  Before it the address is the process's    *)
(* own, after it the process has none: a second process cannot disturb it. *)
(***************************************************************************)
EXTENDS Daemon, TLAPS

\* What is left of the handler while clean_sock is to be called, and when it has
\* been, or was never registered.
WithSock == {<<"log", "log", "sock", "log", "config", "log", "exit">>,
             <<"log", "sock", "log", "config", "log", "exit">>,
             <<"sock", "log", "config", "log", "exit">>, <<"sock", "config", "exit">>}
NoSock == {<<"log", "log", "config", "log", "exit">>, <<"log", "config", "log", "exit">>,
           <<"config", "log", "exit">>, <<"log", "exit">>, <<"exit">>, <<"config", "exit">>}

\* What a process has registered when it is that far.
Registered(p) ==
  IF phase[p] \in {"down", "config"} THEN <<>>
  ELSE IF phase[p] = "serve" /\ host.listen = "unix" THEN <<"config", "sock">>
  ELSE <<"config">>

AddrInv ==
  \A p \in Proc :
    /\ tasks[p] = Registered(p)
    /\ phase[p] = "register" => host.listen = "unix"
    /\ phase[p] \in {"register", "serve"} /\ todo[p] = <<>> => bound = p
    /\ todo[p] \in {<<>>} \cup WithSock \cup NoSock
    /\ todo[p] # <<>> => phase[p] \notin {"down", "config", "signal"}
    /\ todo[p] \in WithSock => bound = p /\ host.listen = "unix"
    /\ todo[p] \in NoSock => ~(phase[p] = "serve" /\ host.listen = "unix" /\ bound = p)
    /\ at[p]["sig"] # "run" => todo[p] # <<>> /\ Head(todo[p]) = "log"

IndInv == TypeOK /\ AddrInv

\* What CleanExit says of one step.
NoFileLeft == \A p \in Proc : do_exit_clean(p) /\ phase[p] = "serve" /\ bound = p => bound' # Stale

Stays == IndInv'

-----------------------------------------------------------------------------
(* The handler's list.                                                      *)

\* One step of the handler after the other.
LEMMA HandlerLists ==
  /\ \A s \in WithSock : /\ s # <<>> /\ s \notin NoSock
                         /\ s \in Seq({"log", "sock", "config", "exit"})
                         /\ Head(s) \in {"log", "sock"} /\ "config" \in Range(s)
                         /\ Head(s) = "log" => Tail(s) \in WithSock
                         /\ Head(s) = "sock" => Tail(s) \in NoSock
  /\ \A s \in NoSock : /\ s # <<>> /\ s \in Seq({"log", "sock", "config", "exit"})
                       /\ Head(s) \in {"log", "config", "exit"}
                       /\ Head(s) # "exit" => Tail(s) \in NoSock
<1>1. ASSUME NEW s \in WithSock
      PROVE  /\ s # <<>> /\ s \in Seq({"log", "sock", "config", "exit"})
             /\ Head(s) \in {"log", "sock"}
             /\ Head(s) = "log" => Tail(s) \in WithSock
             /\ Head(s) = "sock" => Tail(s) \in NoSock
  <2>1. CASE s = <<"log", "log", "sock", "log", "config", "log", "exit">>
    BY <2>1 DEF WithSock, NoSock
  <2>2. CASE s = <<"log", "sock", "log", "config", "log", "exit">>
    BY <2>2 DEF WithSock, NoSock
  <2>3. CASE s = <<"sock", "log", "config", "log", "exit">>
    BY <2>3 DEF WithSock, NoSock
  <2>4. CASE s = <<"sock", "config", "exit">>
    BY <2>4 DEF WithSock, NoSock
  <2>. QED  BY <2>1, <2>2, <2>3, <2>4 DEF WithSock
<1>2. ASSUME NEW s \in WithSock PROVE "config" \in Range(s)
  <2>1. \E i \in DOMAIN s : s[i] = "config"
    BY DEF WithSock
  <2>. QED  BY <2>1 DEF Range
<1>3. ASSUME NEW s \in WithSock PROVE s \notin NoSock
  BY DEF WithSock, NoSock
<1>4. ASSUME NEW s \in NoSock
      PROVE  /\ s # <<>> /\ s \in Seq({"log", "sock", "config", "exit"})
             /\ Head(s) \in {"log", "config", "exit"}
             /\ Head(s) # "exit" => Tail(s) \in NoSock
  <2>1. CASE s = <<"log", "log", "config", "log", "exit">>
    BY <2>1 DEF NoSock
  <2>2. CASE s = <<"log", "config", "log", "exit">>
    BY <2>2 DEF NoSock
  <2>3. CASE s = <<"config", "log", "exit">>
    BY <2>3 DEF NoSock
  <2>4. CASE s = <<"log", "exit">>
    BY <2>4 DEF NoSock
  <2>5. CASE s = <<"exit">>
    BY <2>5
  <2>6. CASE s = <<"config", "exit">>
    BY <2>6 DEF NoSock
  <2>. QED  BY <2>1, <2>2, <2>3, <2>4, <2>5, <2>6 DEF NoSock
<1>. QED  BY <1>1, <1>2, <1>3, <1>4

\* FlattenSeq of one and of two sequences.
Flattening(seqs, n, f) ==
  f = [i \in 1 .. n |-> IF i = 1 THEN seqs[i] ELSE f[i - 1] \o seqs[i]]

\* FlattenSeq of one list.
LEMMA FlattenOne ==
  ASSUME NEW a
  PROVE  FlattenSeq(<<a>>) = a
<1>. DEFINE seqs == <<a>>
            flat == CHOOSE f : Flattening(seqs, 1, f)
<1>1. Flattening(seqs, 1, [i \in 1 .. 1 |-> a])
  BY DEF Flattening
<1>2. Flattening(seqs, 1, flat)
  BY <1>1
<1>3. flat[1] = a
  <2>. HIDE DEF flat
  <2>. QED  BY <1>2 DEF Flattening
<1>4. FlattenSeq(seqs) = flat[1]
  <2>1. Len(seqs) = 1
    OBVIOUS
  <2>. QED  BY <2>1 DEF FlattenSeq, Flattening
<1>. QED  BY <1>3, <1>4

\* FlattenSeq of two lists.
LEMMA FlattenTwo ==
  ASSUME NEW a, NEW b
  PROVE  FlattenSeq(<<a, b>>) = a \o b
<1>. DEFINE seqs == <<a, b>>
            flat == CHOOSE f : Flattening(seqs, 2, f)
            g == [i \in 1 .. 2 |-> IF i = 1 THEN a ELSE a \o b]
<1>1. Flattening(seqs, 2, g)
  <2>1. \A i \in 1 .. 2 : g[i] = IF i = 1 THEN seqs[i] ELSE g[i - 1] \o seqs[i]
    <3>1. g[1] = a /\ g[2] = a \o b /\ seqs[1] = a /\ seqs[2] = b
      OBVIOUS
    <3>2. \A i \in 1 .. 2 : i = 1 \/ (i = 2 /\ i - 1 = 1 /\ i # 1)
      OBVIOUS
    <3>. HIDE DEF g, seqs
    <3>. QED  BY <3>1, <3>2
  <2>2. g = [i \in 1 .. 2 |-> g[i]]
    OBVIOUS
  <2>. HIDE DEF g, seqs
  <2>. QED  BY <2>1, <2>2 DEF Flattening
<1>2. Flattening(seqs, 2, flat)
  <2>. HIDE DEF g, seqs
  <2>. QED  BY <1>1
<1>3. flat[2] = a \o b
  <2>1. seqs[1] = a /\ seqs[2] = b /\ 2 - 1 = 1 /\ 1 \in 1 .. 2 /\ 2 \in 1 .. 2 /\ 2 # 1
    OBVIOUS
  <2>. HIDE DEF flat, seqs
  <2>2. \A i \in 1 .. 2 : flat[i] = IF i = 1 THEN seqs[i] ELSE flat[i - 1] \o seqs[i]
    BY <1>2 DEF Flattening
  <2>3. flat[1] = a
    BY <2>1, <2>2
  <2>4. flat[2] = flat[2 - 1] \o seqs[2]
    BY <2>1, <2>2
  <2>. QED  BY <2>1, <2>3, <2>4
<1>4. FlattenSeq(seqs) = flat[2]
  <2>1. Len(seqs) = 2
    OBVIOUS
  <2>. QED  BY <2>1 DEF FlattenSeq, Flattening
<1>. QED  BY <1>3, <1>4

\* Tuples put together.
LEMMA Concat22 ==
  ASSUME NEW S, NEW a \in S, NEW b \in S, NEW c \in S, NEW d \in S
  PROVE  <<a, b>> \o <<c, d>> = <<a, b, c, d>>
<1>1. PICK s : s = <<a, b>> \o <<c, d>>
  OBVIOUS
<1>2. s \in Seq(S) /\ Len(s) = 4 /\ s[1] = a /\ s[2] = b /\ s[3] = c /\ s[4] = d
  BY <1>1
<1>3. s = <<a, b, c, d>>
  BY <1>2
<1>. QED  BY <1>1, <1>3

\* A list of one and a list of four.
LEMMA Concat14 ==
  ASSUME NEW S, NEW a \in S, NEW b \in S, NEW c \in S, NEW d \in S, NEW e \in S
  PROVE  <<a>> \o <<b, c, d, e>> = <<a, b, c, d, e>>
<1>1. PICK s : s = <<a>> \o <<b, c, d, e>>
  OBVIOUS
<1>2. s \in Seq(S) /\ Len(s) = 5 /\ s[1] = a /\ s[2] = b /\ s[3] = c /\ s[4] = d /\ s[5] = e
  BY <1>1
<1>3. s = <<a, b, c, d, e>>
  BY <1>2
<1>. QED  BY <1>1, <1>3

\* A list of five and a list of one.
LEMMA Concat51 ==
  ASSUME NEW S, NEW a \in S, NEW b \in S, NEW c \in S, NEW d \in S, NEW e \in S, NEW f \in S
  PROVE  <<a, b, c, d, e>> \o <<f>> = <<a, b, c, d, e, f>>
<1>1. PICK s : s = <<a, b, c, d, e>> \o <<f>>
  OBVIOUS
<1>2. s \in Seq(S) /\ Len(s) = 6 /\ s[1] = a /\ s[2] = b /\ s[3] = c /\ s[4] = d /\ s[5] = e /\ s[6] = f
  BY <1>1
<1>3. s = <<a, b, c, d, e, f>>
  BY <1>2
<1>. QED  BY <1>1, <1>3

\* A list of six and a list of one.
LEMMA Concat61 ==
  ASSUME NEW S, NEW a \in S, NEW b \in S, NEW c \in S, NEW d \in S, NEW e \in S, NEW f \in S, NEW g \in S
  PROVE  <<a, b, c, d, e, f>> \o <<g>> = <<a, b, c, d, e, f, g>>
<1>1. PICK s : s = <<a, b, c, d, e, f>> \o <<g>>
  OBVIOUS
<1>2. s \in Seq(S) /\ Len(s) = 7 /\ s[1] = a /\ s[2] = b /\ s[3] = c /\ s[4] = d /\ s[5] = e /\ s[6] = f /\ s[7] = g
  BY <1>1
<1>3. s = <<a, b, c, d, e, f, g>>
  BY <1>2
<1>. QED  BY <1>1, <1>3

\* shutdown_cleanup takes the tasks from the last to the first: the socket goes
\* while the configuration is still there.
LEMMA HandlerStarts ==
  /\ ctforged_sig_handler(<<"config", "sock">>) \in WithSock
  /\ ctforged_sig_handler(<<"config">>) \in NoSock
<1>1. LogLine \in {<<"log">>, <<>>}
  BY DEF LogLine
<1>2. shutdown_cleanup(<<"config">>) = Append(LogLine, "config")
  <2>1. [i \in DOMAIN <<"config">> |-> Append(LogLine, Reverse(<<"config">>)[i])]
          = <<Append(LogLine, "config")>>
    BY DEF Reverse
  <2>. QED  BY <2>1, FlattenOne DEF shutdown_cleanup
<1>3. shutdown_cleanup(<<"config", "sock">>) = Append(LogLine, "sock") \o Append(LogLine, "config")
  <2>1. [i \in DOMAIN <<"config", "sock">> |-> Append(LogLine, Reverse(<<"config", "sock">>)[i])]
          = <<Append(LogLine, "sock"), Append(LogLine, "config")>>
    <3>1. Reverse(<<"config", "sock">>) = <<"sock", "config">>
      BY DEF Reverse
    <3>. QED  BY <3>1
  <2>. QED  BY <2>1, FlattenTwo DEF shutdown_cleanup
<1>. DEFINE Step == {"log", "sock", "config", "exit"}
            both == ctforged_sig_handler(<<"config", "sock">>)
            one == ctforged_sig_handler(<<"config">>)
<1>4. CASE LogLine = <<"log">>
  <2>1. both = <<"log", "log", "sock", "log", "config", "log", "exit">>
    <3>1. "log" \in Step /\ "sock" \in Step /\ "config" \in Step /\ "exit" \in Step
      OBVIOUS
    <3>. HIDE DEF Step
    <3>2. ASSUME NEW x \in Step PROVE Append(<<"log">>, x) = <<"log", x>>
      <4>1. PICK s : s = Append(<<"log">>, x)
        OBVIOUS
      <4>2. s \in Seq(Step) /\ Len(s) = 2 /\ s[1] = "log" /\ s[2] = x
        BY <3>1, <4>1
      <4>3. s = <<"log", x>>
        BY <4>2
      <4>. QED  BY <4>1, <4>3
    <3>3. shutdown_cleanup(<<"config", "sock">>) = <<"log", "sock", "log", "config">>
      BY <1>3, <1>4, <3>1, <3>2, Concat22
    <3>4. <<"log">> \o <<"log", "sock", "log", "config">> = <<"log", "log", "sock", "log", "config">>
      BY <3>1, Concat14
    <3>5. <<"log", "log", "sock", "log", "config">> \o <<"log">>
            = <<"log", "log", "sock", "log", "config", "log">>
      BY <3>1, Concat51
    <3>6. <<"log", "log", "sock", "log", "config", "log">> \o <<"exit">>
            = <<"log", "log", "sock", "log", "config", "log", "exit">>
      BY <3>1, Concat61
    <3>. QED  BY <1>4, <3>3, <3>4, <3>5, <3>6 DEF ctforged_sig_handler
  <2>2. /\ one \in Seq(Step) /\ Len(one) = 5
        /\ one[1] = "log" /\ one[2] = "log" /\ one[3] = "config" /\ one[4] = "log"
        /\ one[5] = "exit"
    BY <1>2, <1>4 DEF ctforged_sig_handler
  <2>. HIDE DEF both, one
  <2>4. one = <<"log", "log", "config", "log", "exit">>
    BY <2>2
  <2>5. both \in WithSock /\ one \in NoSock
    BY <2>1, <2>4 DEF WithSock, NoSock
  <2>. QED  BY <2>5 DEF both, one
<1>5. CASE LogLine = <<>>
  <2>1. /\ both \in Seq(Step) /\ Len(both) = 3
        /\ both[1] = "sock" /\ both[2] = "config" /\ both[3] = "exit"
    BY <1>3, <1>5 DEF ctforged_sig_handler
  <2>2. one \in Seq(Step) /\ Len(one) = 2 /\ one[1] = "config" /\ one[2] = "exit"
    BY <1>2, <1>5 DEF ctforged_sig_handler
  <2>. HIDE DEF both, one
  <2>3. both = <<"sock", "config", "exit">>
    BY <2>1
  <2>4. one = <<"config", "exit">>
    BY <2>2
  <2>5. both \in WithSock /\ one \in NoSock
    BY <2>3, <2>4 DEF WithSock, NoSock
  <2>. QED  BY <2>5 DEF both, one
<1>. QED  BY <1>1, <1>4, <1>5
-----------------------------------------------------------------------------
(* The steps.  Most leave the address, the lists and the phases alone.       *)

\* What a step may not touch when it does not end a process.
lists == <<host, phase, tasks, bound, todo>>

\* A step that touches neither the file nor the lists keeps the invariant.
LEMMA QuietStep ==
  ASSUME IndInv, TypeOK', UNCHANGED lists,
         \A p \in Proc : at'[p]["sig"] # "run" => todo[p] # <<>> /\ Head(todo[p]) = "log"
  PROVE  Stays
<1>1. AddrInv'
  BY DEF IndInv, AddrInv, lists, Registered
<1>. QED  BY <1>1 DEF Stays, IndInv

\* A process ends.
LEMMA EndStep ==
  ASSUME IndInv, NEW p \in Proc, End(p), UNCHANGED <<host, ag>>,
         want' \in BOOLEAN, full' \in BOOLEAN, faults' \in 0 .. MaxFaults
  PROVE  Stays
<1>0. TypeOK /\ AddrInv
  BY DEF IndInv
<1>1. TypeOK'
  <2>1. /\ phase' \in [Proc -> {"down", "config", "signal", "log", "pool", "bind", "register", "serve"}]
        /\ tasks' \in [Proc -> {<<>>, <<"config">>, <<"config", "sock">>}]
        /\ nl' \in [Proc -> {"none", "start", "loop"}]
    BY <1>0 DEF TypeOK, End
  <2>2. bound' \in Proc \cup {Nil, Stale}
    BY <1>0 DEF TypeOK, End
  <2>3. at' \in [Proc -> [Thread -> Place]]
    BY <1>0 DEF TypeOK, End, Place
  <2>4. todo' \in [Proc -> Seq({"log", "sock", "config", "exit"})]
    BY <1>0 DEF TypeOK, End
  <2>. QED  BY <1>0, <2>1, <2>2, <2>3, <2>4 DEF TypeOK
<1>2. /\ phase'[p] = "down" /\ tasks'[p] = <<>> /\ todo'[p] = <<>>
      /\ \A t \in Thread : at'[p][t] = "run"
      /\ \A q \in Proc \ {p} : /\ phase'[q] = phase[q] /\ tasks'[q] = tasks[q]
                               /\ todo'[q] = todo[q] /\ at'[q] = at[q]
                               /\ bound' = q <=> bound = q
  BY <1>0, DaemonAssumption DEF TypeOK, End
<1>3. <<>> \notin WithSock /\ <<>> \notin NoSock /\ "sig" \in Thread
  BY HandlerLists DEF Thread
<1>4. AddrInv'
  BY <1>0, <1>2, <1>3 DEF AddrInv, Registered
<1>. QED  BY <1>1, <1>4 DEF Stays, IndInv

\* One process goes on; its list does not change.
LEMMA PhaseStep ==
  ASSUME IndInv, NEW p \in Proc, todo[p] = <<>>,
         NEW to \in {"config", "signal", "log", "pool", "bind", "register", "serve"},
         phase' = [phase EXCEPT ![p] = to], NEW list, tasks' = [tasks EXCEPT ![p] = list],
         list = Registered(p)',
         UNCHANGED <<host, full, faults, todo, at>>, want' \in BOOLEAN, ag' \in {"idle", "launch"},
         nl' \in [Proc -> {"none", "start", "loop"}],
         to = "register" => host.listen = "unix",
         \/ bound' = bound /\ (to \in {"register", "serve"} => bound = p)
         \/ bound = Nil /\ bound' = p
  PROVE  Stays
<1>0. TypeOK /\ AddrInv
  BY DEF IndInv
<1>1. list \in {<<>>, <<"config">>, <<"config", "sock">>}
  BY DEF Registered
<1>2. TypeOK'
  <2>1. /\ phase' \in [Proc -> {"down", "config", "signal", "log", "pool", "bind", "register", "serve"}]
        /\ tasks' \in [Proc -> {<<>>, <<"config">>, <<"config", "sock">>}]
        /\ bound' \in Proc \cup {Nil, Stale}
    <3>. HIDE DEF Registered
    <3>. QED  BY <1>0, <1>1 DEF TypeOK
  <2>. QED  BY <1>0, <2>1 DEF TypeOK
<1>3. /\ phase'[p] = to /\ tasks'[p] = list
      /\ \A q \in Proc \ {p} : phase'[q] = phase[q] /\ tasks'[q] = tasks[q]
  BY <1>0 DEF TypeOK
<1>4. <<>> \notin WithSock /\ <<>> \notin NoSock /\ Nil \notin Proc
  BY HandlerLists, DaemonAssumption
<1>5. ASSUME NEW q \in Proc \ {p} PROVE Registered(q)' = Registered(q)
  BY <1>3 DEF Registered
<1>6. AddrInv'
  BY <1>0, <1>3, <1>4, <1>5 DEF AddrInv
<1>. QED  BY <1>2, <1>6 DEF Stays, IndInv

\* The handler is done with a line of the log, or with clean_config.
LEMMA NextTask ==
  ASSUME IndInv, NEW p \in Proc, todo[p] # <<>>, Head(todo[p]) \in {"log", "config"},
         todo' = [todo EXCEPT ![p] = Tail(@)], UNCHANGED <<host, phase, tasks, bound>>, TypeOK',
         at'[p]["sig"] = "run", \A q \in Proc \ {p} : at'[q] = at[q]
  PROVE  Stays
<1>0. TypeOK /\ AddrInv
  BY DEF IndInv
<1>1. /\ todo'[p] = Tail(todo[p])
      /\ \A q \in Proc \ {p} : todo'[q] = todo[q]
  BY <1>0 DEF TypeOK
<1>2. /\ todo[p] \in WithSock => todo'[p] \in WithSock /\ todo'[p] \notin NoSock
      /\ todo[p] \in NoSock => todo'[p] \in NoSock /\ todo'[p] \notin WithSock
      /\ todo[p] \in WithSock \cup NoSock /\ todo'[p] # <<>>
  BY <1>0, <1>1, HandlerLists DEF AddrInv
<1>3. \A q \in Proc : Registered(q)' = Registered(q)
  BY DEF Registered
<1>4. AddrInv'
  BY <1>0, <1>1, <1>2, <1>3 DEF AddrInv
<1>. QED  BY <1>4 DEF Stays, IndInv

\* clean_sock of a process that has its address takes it away.
LEMMA CleanSockStep ==
  ASSUME IndInv, NEW p \in Proc, ctforged_clean_sock(p)
  PROVE  Stays
<1>0. TypeOK /\ AddrInv
  BY DEF IndInv
<1>1. todo[p] # <<>> /\ Head(todo[p]) = "sock" /\ at[p]["sig"] = "run"
  BY DEF ctforged_clean_sock, HandlerStep, InHandler
<1>2. todo[p] \in WithSock /\ "config" \in Range(todo[p]) /\ bound = p /\ host.listen = "unix"
      /\ Tail(todo[p]) \in NoSock
  BY <1>0, <1>1, HandlerLists DEF AddrInv
<1>3. /\ bound' = Nil /\ todo' = [todo EXCEPT ![p] = Tail(@)]
      /\ UNCHANGED <<host, want, ag, full, faults, phase, tasks, nl, at>>
  BY <1>2 DEF ctforged_clean_sock, Env, outside
<1>4. todo'[p] \in NoSock /\ \A q \in Proc \ {p} : todo'[q] = todo[q]
  BY <1>0, <1>2, <1>3 DEF TypeOK
<1>5. TypeOK'
  <2>1. Tail(todo[p]) \in Seq({"log", "sock", "config", "exit"})
    BY <1>2, HandlerLists
  <2>2. todo' \in [Proc -> Seq({"log", "sock", "config", "exit"})]
    BY <1>0, <1>3, <2>1 DEF TypeOK
  <2>. QED  BY <1>0, <1>3, <2>2 DEF TypeOK
<1>6. Nil \notin Proc /\ todo'[p] \notin WithSock /\ todo'[p] # <<>>
  BY <1>4, HandlerLists, DaemonAssumption
<1>7. \A q \in Proc : Registered(q)' = Registered(q)
  BY <1>3 DEF Registered
<1>8. AddrInv'
  BY <1>0, <1>1, <1>2, <1>3, <1>4, <1>6, <1>7 DEF AddrInv
<1>. QED  BY <1>5, <1>8 DEF Stays, IndInv

\* The handler frees the configuration.
LEMMA CleanConfigStep ==
  ASSUME IndInv, NEW p \in Proc, ctforged_clean_config(p)
  PROVE  Stays
<1>0. TypeOK
  BY DEF IndInv
<1>1. /\ todo[p] # <<>> /\ Head(todo[p]) = "config" /\ at[p]["sig"] = "run"
      /\ todo' = [todo EXCEPT ![p] = Tail(@)]
      /\ UNCHANGED <<host, want, ag, full, faults, phase, tasks, bound, nl, at>>
  BY DEF ctforged_clean_config, HandlerStep, InHandler, Env, outside
<1>2. todo' \in [Proc -> Seq({"log", "sock", "config", "exit"})]
  BY <1>0, <1>1 DEF TypeOK
<1>3. TypeOK'
  BY <1>0, <1>1, <1>2 DEF TypeOK
<1>. QED  BY <1>1, <1>3, NextTask

\* SIGTERM or SIGINT.
LEMMA SignalStep ==
  ASSUME IndInv, NEW p \in Proc, Signalled(p), UNCHANGED <<host, ag, full, faults>>,
         want' \in BOOLEAN
  PROVE  Stays
<1>0. TypeOK /\ AddrInv
  BY DEF IndInv
<1>1. todo[p] = <<>> /\ phase[p] # "down"
  BY DEF Signalled, InHandler, Alive
<1>2. CASE phase[p] \in {"config", "signal"}
  <2>1. End(p)
    BY <1>2 DEF Signalled
  <2>2. full' \in BOOLEAN /\ faults' \in 0 .. MaxFaults
    BY <1>0 DEF TypeOK
  <2>. QED  BY <2>1, <2>2, EndStep
<1>3. CASE phase[p] \notin {"config", "signal"}
  <2>1. /\ todo' = [todo EXCEPT ![p] = ctforged_sig_handler(tasks[p])]
        /\ UNCHANGED <<phase, tasks, bound, nl, at>>
    BY <1>3 DEF Signalled
  <2>2. tasks[p] = IF phase[p] = "serve" /\ host.listen = "unix" THEN <<"config", "sock">>
                   ELSE <<"config">>
    BY <1>0, <1>1, <1>3 DEF AddrInv, Registered
  <2>3. PICK list : list = ctforged_sig_handler(tasks[p])
    OBVIOUS
  <2>4. /\ phase[p] = "serve" /\ host.listen = "unix" => list \in WithSock
        /\ ~(phase[p] = "serve" /\ host.listen = "unix") => list \in NoSock
    BY <2>2, <2>3, HandlerStarts
  <2>5. /\ list # <<>> /\ list \in Seq({"log", "sock", "config", "exit"})
        /\ ~(list \in WithSock /\ list \in NoSock)
    BY <2>4, HandlerLists
  <2>6. todo'[p] = list /\ \A q \in Proc \ {p} : todo'[q] = todo[q]
    BY <1>0, <2>1, <2>3 DEF TypeOK
  <2>7. TypeOK'
    <3>1. todo' \in [Proc -> Seq({"log", "sock", "config", "exit"})]
      BY <1>0, <2>1, <2>3, <2>5 DEF TypeOK
    <3>. QED  BY <1>0, <2>1, <3>1 DEF TypeOK
  <2>8. \A q \in Proc : Registered(q)' = Registered(q)
    BY <2>1 DEF Registered
  <2>9. AddrInv'
    BY <1>0, <1>1, <1>3, <2>1, <2>4, <2>5, <2>6, <2>8 DEF AddrInv
  <2>. QED  BY <2>7, <2>9 DEF Stays, IndInv
<1>. QED  BY <1>2, <1>3

\* printu and what it locks.
LEMMA LoggingStep ==
  ASSUME IndInv, NEW p \in Proc, NEW t \in Thread,
         Logging(p, t) \/ printu(p, t) \/ (t = "main" /\ Malloc(p))
  PROVE  Stays
<1>0. TypeOK /\ AddrInv
  BY DEF IndInv
<1>1. PICK from \in Place, to \in Place :
        /\ Go(p, t, from, to)
        /\ from = "run" /\ t = "sig" => todo[p] # <<>> /\ Head(todo[p]) = "log"
        /\ \/ UNCHANGED todo
           \/ from # "run" /\ to = "run" /\ Returned(p, t)
  <2>1. CASE printu(p, t)
    BY <2>1 DEF printu, InHandler, Place
  <2>2. CASE Logging(p, t)
    BY <2>2 DEF Logging, FormatLine, LockOutput, OutputDone, ctforged_slog_to_file, SlogDone,
                SlogFailed, FreeLine, Freed, Place
  <2>3. CASE t = "main" /\ Malloc(p)
    BY <2>3 DEF Malloc, Place
  <2>. QED  BY <2>1, <2>2, <2>3
<1>2. /\ at[p][t] = from /\ at' = [at EXCEPT ![p][t] = to]
      /\ UNCHANGED <<host, want, ag, full, faults, phase, tasks, bound, nl>>
  BY <1>1 DEF Go, outside
<1>3. /\ at' \in [Proc -> [Thread -> Place]] /\ at'[p][t] = to
      /\ \A u \in Thread \ {t} : at'[p][u] = at[p][u]
      /\ \A q \in Proc \ {p} : at'[q] = at[q]
  BY <1>0, <1>1, <1>2 DEF TypeOK
<1>4. "sig" \in Thread
  BY DEF Thread
<1>5. CASE UNCHANGED todo
  <2>1. TypeOK'
    BY <1>0, <1>2, <1>3, <1>5 DEF TypeOK
  <2>2. \A q \in Proc : at'[q]["sig"] # "run" => todo[q] # <<>> /\ Head(todo[q]) = "log"
    <3>1. \A q \in Proc : at[q]["sig"] # "run" => todo[q] # <<>> /\ Head(todo[q]) = "log"
      BY <1>0 DEF AddrInv
    <3>2. t = "sig" => todo[p] # <<>> /\ Head(todo[p]) = "log"
      BY <1>1, <1>2, <3>1
    <3>. QED  BY <1>3, <1>4, <3>1, <3>2
  <2>. QED  BY <1>2, <1>5, <2>1, <2>2, QuietStep DEF lists
<1>6. CASE ~UNCHANGED todo
  <2>1. t = "sig" /\ from # "run" /\ to = "run" /\ todo' = [todo EXCEPT ![p] = Tail(@)]
    BY <1>1, <1>6 DEF Returned
  <2>2. todo[p] # <<>> /\ Head(todo[p]) = "log"
    BY <1>0, <1>2, <2>1 DEF AddrInv
  <2>3. todo' \in [Proc -> Seq({"log", "sock", "config", "exit"})]
    BY <1>0, <2>1, <2>2 DEF TypeOK
  <2>4. TypeOK'
    BY <1>0, <1>2, <1>3, <2>3 DEF TypeOK
  <2>. QED  BY <1>2, <1>3, <2>1, <2>2, <2>4, NextTask
<1>. QED  BY <1>5, <1>6

\* main, from one function to the next.
LEMMA MainStep ==
  ASSUME IndInv, NEW p \in Proc, main(p)
  PROVE  Stays
<1>0. TypeOK /\ AddrInv
  BY DEF IndInv
<1>1. /\ UNCHANGED <<host, want, ag, full, faults>> /\ todo[p] = <<>>
      /\ want' \in BOOLEAN /\ ag' \in {"idle", "launch"} /\ full' \in BOOLEAN
      /\ faults' \in 0 .. MaxFaults
  <2>1. UNCHANGED Env /\ Runnable(p, "main")
    BY DEF main, ctforged_init_config, ctforged_init_signal, ctforged_log_init, threadpoll_init,
           start_uv_server, register_cleanup, Main, Env
  <2>. QED  BY <1>0, <2>1 DEF Env, outside, Runnable, InHandler, TypeOK
<1>2. CASE End(p)
  BY <1>1, <1>2, EndStep
<1>3. tasks[p] = Registered(p)
  BY <1>0 DEF AddrInv
<1>4. Append(<<>>, "config") = <<"config">> /\ Append(<<"config">>, "sock") = <<"config", "sock">>
  <2>1. PICK s : s = Append(<<"config">>, "sock")
    OBVIOUS
  <2>2. s \in Seq({"config", "sock"}) /\ Len(s) = 2 /\ s[1] = "config" /\ s[2] = "sock"
    BY <2>1
  <2>3. s = <<"config", "sock">>
    BY <2>2
  <2>4. Append(<<>>, "config") = <<"config">>
    OBVIOUS
  <2>. QED  BY <2>1, <2>3, <2>4
<1>5. CASE ~End(p) /\ ctforged_init_config(p)
  <2>1. /\ phase[p] = "config" /\ phase' = [phase EXCEPT ![p] = "signal"]
        /\ tasks' = [tasks EXCEPT ![p] = Append(@, "config")] /\ UNCHANGED <<bound, nl, at, todo>>
    BY <1>5 DEF ctforged_init_config, Main, To
  <2>2. tasks[p] = <<>> /\ phase'[p] = "signal"
    BY <1>0, <1>3, <2>1 DEF Registered, TypeOK
  <2>3. /\ tasks' = [tasks EXCEPT ![p] = <<"config">>] /\ <<"config">> = Registered(p)'
        /\ nl' \in [Proc -> {"none", "start", "loop"}]
    BY <1>0, <1>4, <2>1, <2>2 DEF Registered, TypeOK
  <2>. QED  BY <1>1, <2>1, <2>3, PhaseStep
<1>6. CASE ctforged_init_signal(p) \/ (~End(p) /\ ctforged_log_init(p)) \/ threadpoll_init(p)
  <2>1. PICK to \in {"log", "pool", "bind"} :
          /\ phase[p] \in {"signal", "log", "pool"} /\ phase' = [phase EXCEPT ![p] = to]
          /\ UNCHANGED <<tasks, bound, at, todo>> /\ nl' \in [Proc -> {"none", "start", "loop"}]
    BY <1>0, <1>6 DEF ctforged_init_signal, ctforged_log_init, threadpoll_init, Main, To, TypeOK
  <2>2. tasks[p] = <<"config">> /\ phase'[p] = to
    BY <1>0, <1>3, <2>1 DEF Registered, TypeOK
  <2>3. /\ tasks' = [tasks EXCEPT ![p] = <<"config">>] /\ <<"config">> = Registered(p)'
    BY <1>0, <2>1, <2>2 DEF Registered, TypeOK
  <2>. QED  BY <1>1, <2>1, <2>3, PhaseStep
<1>7. CASE ~End(p) /\ start_uv_server(p)
  <2>1. /\ phase[p] = "bind" /\ bound = Nil /\ bound' = p
        /\ phase' = [phase EXCEPT ![p] = IF host.listen = "unix" THEN "register" ELSE "serve"]
        /\ UNCHANGED <<tasks, nl, at, todo>>
    BY <1>7 DEF start_uv_server, Main, To
  <2>2. PICK to \in {"register", "serve"} :
          /\ phase' = [phase EXCEPT ![p] = to] /\ (to = "register" <=> host.listen = "unix")
    BY <2>1
  <2>3. tasks[p] = <<"config">> /\ phase'[p] = to
    BY <1>0, <1>3, <2>1, <2>2 DEF Registered, TypeOK
  <2>4. /\ tasks' = [tasks EXCEPT ![p] = <<"config">>] /\ <<"config">> = Registered(p)'
        /\ nl' \in [Proc -> {"none", "start", "loop"}]
    BY <1>0, <1>1, <2>1, <2>2, <2>3 DEF Registered, TypeOK
  <2>5. /\ to \in {"config", "signal", "log", "pool", "bind", "register", "serve"}
        /\ phase' = [phase EXCEPT ![p] = to] /\ (to = "register" => host.listen = "unix")
    BY <2>2
  <2>6. bound = Nil /\ bound' = p /\ UNCHANGED <<host, full, faults, todo, at>>
    BY <1>1, <2>1
  <2>. QED  BY <1>1, <2>4, <2>5, <2>6, PhaseStep
<1>8. CASE register_cleanup(p)
  <2>1. /\ phase[p] = "register" /\ phase' = [phase EXCEPT ![p] = "serve"]
        /\ tasks' = [tasks EXCEPT ![p] = Append(@, "sock")] /\ UNCHANGED <<bound, nl, at, todo>>
    BY <1>8 DEF register_cleanup, Main, To
  <2>2. /\ tasks[p] = <<"config">> /\ phase'[p] = "serve" /\ host.listen = "unix" /\ bound = p
    BY <1>0, <1>1, <1>3, <2>1 DEF Registered, TypeOK, AddrInv
  <2>3. /\ tasks' = [tasks EXCEPT ![p] = <<"config", "sock">>]
        /\ <<"config", "sock">> = Registered(p)'
        /\ nl' \in [Proc -> {"none", "start", "loop"}]
    BY <1>0, <1>1, <1>4, <2>1, <2>2 DEF Registered, TypeOK
  <2>. QED  BY <1>1, <2>1, <2>2, <2>3, PhaseStep
<1>. QED  BY <1>2, <1>5, <1>6, <1>7, <1>8 DEF main

\* A process is started.
LEMMA StartStep ==
  ASSUME IndInv, NEW p \in Proc, ~Alive(p), Started(p), UNCHANGED <<host, full, faults>>,
         want' \in BOOLEAN, ag' \in {"idle", "launch"}
  PROVE  Stays
<1>0. TypeOK /\ AddrInv
  BY DEF IndInv
<1>1. phase[p] = "down" /\ phase' = [phase EXCEPT ![p] = "config"] /\ UNCHANGED <<tasks, bound, nl, at, todo>>
  BY DEF Started, Alive
<1>2. todo[p] = <<>> /\ tasks[p] = <<>> /\ phase'[p] = "config"
  BY <1>0, <1>1 DEF AddrInv, Registered, TypeOK
<1>3. /\ tasks' = [tasks EXCEPT ![p] = <<>>] /\ <<>> = Registered(p)'
      /\ nl' \in [Proc -> {"none", "start", "loop"}]
  BY <1>0, <1>1, <1>2 DEF Registered, TypeOK
<1>. QED  BY <1>1, <1>2, <1>3, PhaseStep

\* The netlink thread, and faults.
LEMMA ThreadStep ==
  ASSUME IndInv, NEW p \in Proc,
         create_netlink_socket(p) \/ NetlinkFails(p) \/ Crash(p) \/ do_exit_clean(p)
  PROVE  Stays
<1>0. TypeOK /\ AddrInv
  BY DEF IndInv
<1>1. CASE create_netlink_socket(p)
  <2>1. UNCHANGED <<host, want, ag, full, faults, phase, tasks, bound, at, todo>>
        /\ nl' \in [Proc -> {"none", "start", "loop"}]
    BY <1>0, <1>1 DEF create_netlink_socket, Env, outside, TypeOK
  <2>2. TypeOK'
    BY <1>0, <2>1 DEF TypeOK
  <2>3. \A q \in Proc : at'[q]["sig"] # "run" => todo[q] # <<>> /\ Head(todo[q]) = "log"
    BY <1>0, <2>1 DEF AddrInv
  <2>. QED  BY <2>1, <2>2, <2>3, QuietStep DEF lists
<1>2. CASE NetlinkFails(p) \/ Crash(p) \/ do_exit_clean(p)
  <2>1. /\ End(p) /\ UNCHANGED <<host, want, ag, full>>
        /\ faults' = faults \/ (faults < MaxFaults /\ faults' = faults + 1)
    BY <1>2 DEF NetlinkFails, Crash, do_exit_clean, Env, outside
  <2>2. want' \in BOOLEAN /\ full' \in BOOLEAN /\ faults' \in 0 .. MaxFaults
    BY <1>0, <2>1, DaemonAssumption DEF TypeOK
  <2>. QED  BY <2>1, <2>2, EndStep
<1>. QED  BY <1>1, <1>2

\* The service manager, the agent, a user, the disk.
LEMMA OutsideStep ==
  ASSUME IndInv, Outside
  PROVE  Stays
<1>0. TypeOK /\ AddrInv /\ Service \in Proc /\ Direct \in Proc
  BY DEF IndInv, Proc
<1>1. want \in BOOLEAN /\ ag \in {"idle", "launch"} /\ full \in BOOLEAN /\ faults \in 0 .. MaxFaults
  BY <1>0 DEF TypeOK
<1>2. ASSUME UNCHANGED <<host, phase, tasks, bound, nl, at, todo>>, want' \in BOOLEAN,
             ag' \in {"idle", "launch"}, full' \in BOOLEAN, faults' \in 0 .. MaxFaults
      PROVE  Stays
  <2>1. TypeOK'
    BY <1>0, <1>2 DEF TypeOK
  <2>2. \A q \in Proc : at'[q]["sig"] # "run" => todo[q] # <<>> /\ Head(todo[q]) = "log"
    BY <1>0, <1>2 DEF AddrInv
  <2>. QED  BY <1>2, <2>1, <2>2, QuietStep DEF lists
<1>3. CASE ManagerStarts
  BY <1>0, <1>1, <1>3, StartStep DEF ManagerStarts, Env, outside
<1>4. CASE SystemctlStart
  BY <1>1, <1>2, <1>4 DEF SystemctlStart
<1>5. CASE SystemctlStop
  <2>1. want' \in BOOLEAN /\ UNCHANGED <<host, ag, full, faults>>
    BY <1>5 DEF SystemctlStop
  <2>2. Signalled(Service) \/ UNCHANGED <<phase, tasks, bound, nl, at, todo>>
    BY <1>5 DEF SystemctlStop
  <2>. QED  BY <1>0, <1>1, <1>2, <2>1, <2>2, SignalStep
<1>6. CASE ManagerKills
  BY <1>0, <1>1, <1>6, EndStep DEF ManagerKills, Env, outside
<1>7. CASE UserKills
  BY <1>0, <1>1, <1>7, SignalStep DEF UserKills, Env, outside
<1>8. CASE DiskFills
  <2>1. faults' \in 0 .. MaxFaults /\ full' \in BOOLEAN
    BY <1>1, <1>8, DaemonAssumption DEF DiskFills
  <2>. QED  BY <1>1, <1>2, <1>8, <2>1 DEF DiskFills, outside
<1>9. CASE DiskDrains
  BY <1>1, <1>2, <1>9 DEF DiskDrains, outside
<1>10. CASE Probe
  BY <1>1, <1>2, <1>10 DEF Probe
<1>11. CASE ctfd_ensure_running
  <2>1. want' \in BOOLEAN /\ ag' \in {"idle", "launch"} /\ UNCHANGED <<host, full, faults>>
    BY <1>1, <1>11 DEF ctfd_ensure_running
  <2>2. UNCHANGED <<phase, tasks, bound, nl, at, todo>> \/ (~Alive(Direct) /\ Started(Direct))
    BY <1>11 DEF ctfd_ensure_running
  <2>. QED  BY <1>0, <1>1, <1>2, <2>1, <2>2, StartStep
<1>. QED  BY <1>3, <1>4, <1>5, <1>6, <1>7, <1>8, <1>9, <1>10, <1>11 DEF Outside

-----------------------------------------------------------------------------
(* The theorems.                                                            *)

\* No process runs at the start.
LEMMA InitIndInv ==
  ASSUME Init
  PROVE  IndInv
<1>1. /\ host \in Hosts /\ full = FALSE /\ faults = 0 /\ want = host.unit /\ ag = "idle"
      /\ phase = [p \in Proc |-> "down"] /\ tasks = [p \in Proc |-> <<>>] /\ bound = Nil
      /\ nl = [p \in Proc |-> "none"]
      /\ at = [p \in Proc |-> [t \in Thread |-> "run"]] /\ todo = [p \in Proc |-> <<>>]
  BY DEF Init
<1>2. want \in BOOLEAN /\ 0 \in 0 .. MaxFaults
  BY <1>1, DaemonAssumption
<1>3. todo \in [Proc -> Seq({"log", "sock", "config", "exit"})]
  BY <1>1
<1>4. TypeOK
  BY <1>1, <1>2, <1>3 DEF TypeOK, Place
<1>5. <<>> \notin WithSock /\ <<>> \notin NoSock /\ "sig" \in Thread
  BY HandlerLists DEF Thread
<1>6. AddrInv
  BY <1>1, <1>5 DEF AddrInv, Registered
<1>. QED  BY <1>4, <1>6 DEF IndInv

\* Every step keeps the inductive invariant.
LEMMA NextStays ==
  ASSUME IndInv, Next
  PROVE  Stays
<1>1. "main" \in Thread /\ "nl" \in Thread /\ "sig" \in Thread
  BY DEF Thread
<1>2. ASSUME NEW p \in Proc,
             printu(p, "main") \/ Malloc(p) \/ printu(p, "sig") \/ netlink_loop(p)
      PROVE  Stays
  BY <1>1, <1>2, LoggingStep DEF netlink_loop
<1>3. ASSUME NEW p \in Proc, Handler(p) PROVE Stays
  BY <1>3, CleanSockStep, CleanConfigStep, ThreadStep DEF Handler
<1>. QED  BY <1>2, <1>3, LoggingStep, MainStep, ThreadStep, OutsideStep DEF Next

\* The inductive invariant holds in every state of the processes.
THEOREM Invariance == Spec => []IndInv
<1>1. Init => IndInv
  BY InitIndInv
<1>2. IndInv /\ [Next]_vars => IndInv'
  <2>1. CASE Next
    BY <2>1, NextStays DEF Stays
  <2>2. CASE UNCHANGED vars
    BY <2>2 DEF IndInv, TypeOK, AddrInv, Registered, vars
  <2>. QED  BY <2>1, <2>2
<1>. QED  BY <1>1, <1>2, PTL DEF Spec

\* Type correctness of main, the signal handler and the log.
THEOREM TypeCorrect == Spec => []TypeOK
<1>1. IndInv => TypeOK
  BY DEF IndInv
<1>. QED  BY <1>1, Invariance, PTL

\* The address of a serving process leads to it until its own handler removes
\* it, whatever a second process does (start_uv_server, ctforged_clean_sock).
THEOREM AddressSafety == Spec => []KeepsItsAddress
<1>1. IndInv => KeepsItsAddress
  BY DEF IndInv, AddrInv, KeepsItsAddress, InHandler
<1>. QED  BY <1>1, Invariance, PTL

\* A process that was serving and exits through its handler leaves no socket
\* file behind (shutdown_cleanup, do_exit_clean).
THEOREM ExitIsClean == Spec => CleanExit
<1>1. ASSUME IndInv PROVE NoFileLeft
  <2>1. SUFFICES ASSUME NEW p \in Proc, do_exit_clean(p), phase[p] = "serve", bound = p
                 PROVE  bound' # Stale
    BY DEF NoFileLeft
  <2>2. todo[p] # <<>> /\ Head(todo[p]) = "exit" /\ End(p)
    BY <2>1 DEF do_exit_clean, HandlerStep, InHandler
  <2>3. host.listen # "unix"
    BY <1>1, <2>1, <2>2, HandlerLists DEF IndInv, AddrInv
  <2>. QED  BY <2>1, <2>2, <2>3, DaemonAssumption DEF End
<1>2. IndInv /\ [Next]_vars => [NoFileLeft]_vars
  BY <1>1
<1>. QED  BY <1>2, Invariance, PTL DEF Spec, CleanExit, NoFileLeft

=============================================================================
