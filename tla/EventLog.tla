------------------------------- MODULE EventLog -------------------------------
(***************************************************************************)
(* What an event's log promises to the people who read it, independently   *)
(* of how requests, sessions and sequence numbers produce it: the log only *)
(* grows; a lifecycle entry is written exactly when the event changes its  *)
(* status; operators write only while the event is active; and the only    *)
(* entry that can follow a close, other than a reopen, is an inbound       *)
(* Winlink message whose scan had started before the close.                *)
(*                                                                         *)
(* EventRoom, the model of src/backend/modules/events, implements it.      *)
(***************************************************************************)
EXTENDS Naturals, Sequences

VARIABLES status,   \* none | draft | active | closed | deleted
          entries   \* the kinds of the log's entries, in order

logVars == <<status, entries>>
Init == status = "none" /\ entries = <<>>
Create == /\ status = "none"
          /\ status' = "draft"
          /\ UNCHANGED entries

\* A lifecycle change and the entry that announces it are one step.
Transition(from, to, kind) == /\ status = from
                              /\ status' = to
                              /\ entries' = Append(entries, kind)

\* An operator's write: one to three entries, on an active event.
Record == /\ status = "active"
          /\ \E n \in 1..3 : entries' = entries \o [i \in 1..n |-> "operator"]
          /\ UNCHANGED status

\* A scan writes one breadcrumb; a close may have overtaken it.
Receive == /\ status \in {"active", "closed"}
           /\ entries' = Append(entries, "inbound")
           /\ UNCHANGED status

\* Deleting the event deletes its log.
Delete == /\ status \in {"draft", "active", "closed"}
          /\ status' = "deleted"
          /\ entries' = <<>>

Next == \/ Create
        \/ Transition("draft", "active", "activated")
        \/ Transition("active", "closed", "closed")
        \/ Transition("closed", "active", "reopened")
        \/ Record
        \/ Receive
        \/ Delete

Spec == Init /\ [][Next]_logVars
===============================================================================
