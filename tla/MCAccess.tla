------------------------------- MODULE MCAccess -------------------------------
(* Instances of Access for TLC. *)
EXTENDS Access, TLC

CONSTANTS ada, bob, W1AW, K2XY, ANON1, PENDING

MCPeople == {ada, bob}
MCCalls == {W1AW, K2XY}
MCAnons == {ANON1}

\* Two subjects of one provider whose first characters agree.
MCPlaceholder == [p \in MCPeople |-> PENDING]

Budget(some) == [k \in Kinds |-> IF k \in DOMAIN some THEN some[k] ELSE 0]

\* What may happen in one behaviour: a setup that crashes and overlaps another;
\* accounts with and without it; tokens of accounts that are renamed or
\* anonymized; nets and tokens; recovery and repairs.
MCBudgets == {
    Budget([wizard |-> 4, signin |-> 1, restart |-> 1]),
    Budget([signin |-> 2, account |-> 3, wizard |-> 2]),
    Budget([signin |-> 3, account |-> 3]),
    Budget([signin |-> 2, account |-> 5]),
    Budget([signin |-> 2, account |-> 2, token |-> 4]),
    Budget([signin |-> 2, account |-> 1, net |-> 3, token |-> 1]),
    Budget([signin |-> 1, recovery |-> 8, config |-> 1, restart |-> 1])}

Symmetries == Permutations(MCPeople) \cup Permutations(MCCalls)
===============================================================================
