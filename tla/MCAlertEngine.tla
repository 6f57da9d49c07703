--------------------------- MODULE MCAlertEngine ---------------------------
(* Instances of AlertEngine for TLC.                                        *)
EXTENDS AlertEngine

\* Rules that name the same channel: two for an alert that the check and the
\* readers raise, and one for critical alerts, which its level is below.
MCRules == {[kinds |-> {"offline", "net_spike"}, min |-> 0, channels |-> Channel],
            [kinds |-> {"net_spike"}, min |-> 1, channels |-> Channel],
            [kinds |-> {"net_spike"}, min |-> 2, channels |-> Channel]}
=============================================================================
