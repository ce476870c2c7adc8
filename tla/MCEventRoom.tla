----------------------------- MODULE MCEventRoom -----------------------------
(* Instances of EventRoom for TLC. *)
EXTENDS EventRoom, TLC

Symmetry == Permutations(Requests) \cup Permutations(Raws)

\* Bounds of the run on the event's life, its log and its roster.  Two sets of
\* states are searched: mail and pins (in a short log) with the details left as
\* they were ...
Untouched(row) == row = None \/ row.details = "old"
MailAndPins ==
    /\ Len(log) <= 4
    /\ Len(log) > 2 => \A i \in 1..Len(log) : ~log[i].pinned
    /\ \A p \in PostIds : posts[p] = None
    /\ \A c \in Callsigns : participants[c].status \notin FieldStatuses
    /\ \A i \in 1..Len(log) : log[i].new_status \notin FieldStatuses
    /\ Untouched(event)
    /\ \A r \in Requests : Untouched(requests[r].row)

\* ... and posts, field statuses and edited details with an empty mailbox.
PostsAndFields ==
    /\ mailbox = {}
    /\ \A s \in Scanners : scans[s].pc = "idle"
    /\ \A i \in 1..Len(log) : ~log[i].pinned

RoomBounds == MailAndPins \/ PostsAndFields
==============================================================================
