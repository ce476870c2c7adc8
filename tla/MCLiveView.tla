------------------------------ MODULE MCLiveView ------------------------------
(* Instances of LiveView for TLC. *)
EXTENDS LiveView

\* A draft that will announce its posts, and one that listens to everybody.
MCSettings == {<<TRUE, FALSE>>, <<FALSE, TRUE>>}

Budget(some) == [k \in Kinds |-> IF k \in DOMAIN some THEN some[k] ELSE 0]

\* What may happen in one behaviour: posts edited over a close and a dead link;
\* a close and a reopen in quick succession; a beacon, a restart; a post moved,
\* renamed and removed; polls of the log that overlap writes, and a delete;
\* stations of both kinds on an open map; the other stations turned off.
MCBudgets == {
    Budget([life |-> 2, edit |-> 2, break |-> 1]),
    Budget([life |-> 3, edit |-> 1, break |-> 1]),
    Budget([life |-> 2, edit |-> 1, beacon |-> 1, break |-> 1, restart |-> 1]),
    Budget([life |-> 1, edit |-> 3]),
    Budget([life |-> 1, log |-> 2, ask |-> 3]),
    Budget([life |-> 2, log |-> 1, ask |-> 2]),
    Budget([life |-> 1, checkin |-> 1, hear |-> 3, map |-> 2]),
    Budget([life |-> 1, edit |-> 1, hear |-> 2, map |-> 2])}
===============================================================================
