---------------------------- MODULE MCCtforged ----------------------------
(* A small instance of Ctforged. *)
EXTENDS Ctforged, SequencesExt

CONSTANTS m1, m2

Section(name, data) == [name |-> name, data |-> data]

\* A signed module that loads.
Good(m) == [mod |-> m, parses |-> TRUE, size |-> "full", magic |-> TRUE,
            ebpf |-> FALSE, sections |-> <<>>, flag |-> TRUE, sign_len |-> "fits",
            body |-> <<"code">>, sign |-> sm2_sign(<<"code">>),
            exit |-> TRUE, init |-> "object 0", help |-> "log"]

MCPayloads ==
  {Good(m1), Good(m2),
   [Good(m1) EXCEPT !.size = "short"],
   [Good(m1) EXCEPT !.sign_len = "over"],
   [Good(m1) EXCEPT !.sign = <<"other">>],
   [Good(m1) EXCEPT !.exit = FALSE]}

\* Every header, and every eBPF object of up to three sections.
MCSections ==
  {Section(n, d) : n \in {<<>>, <<".", "text">>, <<"prog">>, <<"SIGN_", "prog">>},
                   d \in {Empty, <<"code">>, sm2_sign(<<"code">>)}}
MCObjects ==
  {[Good(m1) EXCEPT !.parses = a, !.size = b, !.magic = c, !.ebpf = d, !.flag = e,
                    !.sign_len = f, !.sign = g] :
     a \in BOOLEAN, b \in {"tiny", "short", "full"}, c \in BOOLEAN, d \in BOOLEAN,
     e \in BOOLEAN, f \in {"fits", "over", "under"}, g \in {<<"other">>, sm2_sign(<<"code">>)}}
  \cup
  {[Good(m1) EXCEPT !.ebpf = TRUE, !.sections = s] :
     s \in BoundedSeq(MCSections, 3)}

Request(method, names, long) == [method |-> method, names |-> names, long |-> long]
MCRequests ==
  [c \in Client |->
     IF c \in Ctl
     THEN {Request("insmod", <<m2>>, FALSE), Request("rmmod", <<m1>>, FALSE),
           Request("mod", <<m1>>, FALSE)}
     ELSE {Request("insmod", <<m1, m2>>, FALSE), Request("lsmod", <<>>, TRUE),
           Request("bogus", <<>>, FALSE)}]
=============================================================================
