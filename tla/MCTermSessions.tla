--------------------------- MODULE MCTermSessions ---------------------------
(* Instances of TermSessions for TLC.                                       *)
EXTENDS TermSessions, TLC

\* Browser connections, session ids and slots are interchangeable.
TermSymmetry == Permutations(Ws) \cup Permutations(Sid) \cup Permutations(Slot)
=============================================================================
