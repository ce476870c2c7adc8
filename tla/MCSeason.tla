------------------------------- MODULE MCSeason -------------------------------
(* Instances of Season for TLC. *)
EXTENDS Season

Weekly(first, last, dow, cadence) ==
    [start |-> first, end |-> last, dow |-> dow, weekLong |-> FALSE, cadence |-> cadence]
Weeks(first, last, cadence) ==
    [start |-> first, end |-> last, dow |-> 0, weekLong |-> TRUE, cadence |-> cadence]

\* Seasons that begin before, on and after the day of the week and end on, just
\* before and just after it; weeks that end on, before and after a week's end.
Wide == {Weekly(first, last, dow, cadence) :
            first \in 1..3, last \in {3, 8, 9, 10, 17}, dow \in {1, 2, 5}, cadence \in 0..3}
        \cup {Weeks(first, last, cadence) : first \in {1, 2}, last \in {2, 7, 8, 9, 15, 16}, cadence \in 0..3}

\* Few of them where sessions live on: days 1 and 8, a single day, a week, and
\* two weeks of which the second is one day.
Few == {Weekly(1, 8, 1, 2), Weekly(1, 2, 2, 0), Weeks(1, 7, 2)}

MCStandalone == {[start |-> 1, end |-> None, type |-> "real_event"],
                 [start |-> 1, end |-> 2, type |-> "activity"]}

MCLeadTime == [k \in DraftKinds |-> IF k = "reminder" THEN 2 ELSE 1]

Budget(some, asked_for) ==
    [left |-> [k \in Sorts |-> IF k \in DOMAIN some THEN some[k] ELSE 0],
     plans |-> asked_for]

\* What may happen in one behaviour: every season once; the mail loop with
\* edits and a crash; the mail loop with seasons that come and go; drafts over
\* the life of a session; templates; drafts of seasons that come and go; chats;
\* drafts and mails while the last admin is let go and made one again.
MCBudgets == {
    Budget([plan |-> 1], {p \in Wide : p.start <= p.end}),
    Budget([plan |-> 1, edit |-> 1, cycle |-> 3, clock |-> 2, restart |-> 1], {Weekly(1, 8, 1, 2)}),
    Budget([plan |-> 3, single |-> 1, cycle |-> 2, clock |-> 1], Few),
    Budget([single |-> 1, edit |-> 2, draft |-> 3, clock |-> 1, restart |-> 1, notice |-> 1], {}),
    Budget([single |-> 1, template |-> 2, draft |-> 2, edit |-> 1], {}),
    Budget([plan |-> 3, draft |-> 2, edit |-> 1, clock |-> 1, notice |-> 1], {Weekly(1, 8, 1, 2)}),
    Budget([plan |-> 3, draft |-> 2, edit |-> 1, clock |-> 1, cycle |-> 1], {Weekly(1, 2, 2, 0)}),
    Budget([chat |-> 5, clock |-> 1, restart |-> 1], {}),
    Budget([single |-> 1, edit |-> 1, draft |-> 2, clock |-> 1, role |-> 2], {}),
    Budget([plan |-> 1, cycle |-> 2, clock |-> 2, role |-> 2], {Weekly(1, 8, 1, 2)})}

\* A season in which every week is to be an activity.
EveryWeek == {Budget([plan |-> 1], {Weekly(1, 15, 1, 1)})}
===============================================================================
