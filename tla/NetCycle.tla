------------------------------- MODULE NetCycle -------------------------------
(***************************************************************************)
(* What a net sends out: the roster and the reminder of each session, from *)
(* draft over approval to delivery through several backends.               *)
(*                                                                         *)
(* The handlers of rosters, reminders and check-in approval run on the     *)
(* event loop and await nothing, so one of them is at work at a time, but  *)
(* it commits several times and the process can stop between two commits.  *)
(* A retry of failed deliveries runs in a thread beside it.                *)
(*                                                                         *)
(* Text is left out: templates, rendering, edits of a draft, the table of  *)
(* check-ins.  Notifications are left out too.                             *)
(***************************************************************************)
EXTENDS Naturals, FiniteSets

CONSTANTS
    Sessions,   \* net sessions
    Backends,   \* delivery backends the net has enabled
    Retriers,   \* retry requests in flight, each in a thread
    Templates,  \* which kinds of default template a net may have: sets of kinds
    MaxId,      \* bound: row ids of rosters and reminders
    MayRestart, \* the process may stop and boot again
    None

ASSUME IdAssumption == MaxId \in Nat
ASSUME TemplateAssumption == Templates \subseteq SUBSET {"roster", "reminder"}
ASSUME RestartAssumption == MayRestart \in BOOLEAN
VARIABLES
    templates, \* the kinds the net has a default template for; it cannot be deleted
    sessions,  \* net_sessions: [status, finalized]
    credits,   \* times members were credited with a session's check-ins, up to 2
    files,     \* sessions whose messages are still in the PAT mailbox
    logs,      \* roster_logs, reminder_logs by session: [id, status] or None
    rows,      \* delivery_logs by kind, id and backend
    work,      \* the handler that holds the event loop
    retries,   \* retry_delivery threads
    accepted,  \* times a backend took the content since its approval, up to 2
    disturbed  \* contents that lost track of a delivery since their approval, or
               \* were delivered again by request

tables == <<templates, sessions, credits, files, logs>>
vars == <<tables, rows, work, retries, accepted, disturbed>>

Kinds == {"roster", "reminder"}
Ids == 1..MaxId
Statuses == {"draft", "approved", "sent", "skipped"}
Log == [id: Ids, status: Statuses]
Content == Kinds \X Sessions

ASSUME NoneAssumption == None \notin Sessions \cup Backends \cup Log

\* Delivered stands for QUEUED and SENT, which a retry does not tell apart.
RowStatus == {"none", "failed", "delivered"}

Work == [pc: {"idle", "drafting", "approving", "dispatching", "purging"},
         kind: Kinds, session: Sessions \cup {None}, todo: SUBSET Backends,
         sending: Backends \cup {None}, success: BOOLEAN, ok: BOOLEAN,
         sends: BOOLEAN, resend: BOOLEAN]

Retry == [pc: {"idle", "running"}, kind: Kinds, session: Sessions \cup {None},
          id: 0..MaxId, todo: SUBSET Backends, sending: Backends \cup {None},
          success: BOOLEAN]

TypeOK ==
    /\ templates \subseteq Kinds
    /\ sessions \in [Sessions -> [status: {"scheduled", "completed", "cancelled"},
                                  finalized: BOOLEAN]]
    /\ credits \in [Sessions -> 0..2]
    /\ files \subseteq Sessions
    /\ logs \in [Kinds -> [Sessions -> Log \cup {None}]]
    /\ rows \in [Kinds -> [Ids -> [Backends -> RowStatus]]]
    /\ work \in Work
    /\ retries \in [Retriers -> Retry]
    /\ accepted \in [Kinds -> [Sessions -> [Backends -> 0..2]]]
    /\ disturbed \subseteq Content

IdleWork == [pc |-> "idle", kind |-> "roster", session |-> None, todo |-> {},
             sending |-> None, success |-> FALSE, ok |-> FALSE,
             sends |-> FALSE, resend |-> FALSE]

IdleRetry == [pc |-> "idle", kind |-> "roster", session |-> None, id |-> 0,
              todo |-> {}, sending |-> None, success |-> FALSE]

Init ==
    /\ templates \in Templates
    /\ sessions = [s \in Sessions |-> [status |-> "scheduled", finalized |-> FALSE]]
    /\ credits = [s \in Sessions |-> 0]
    /\ files = Sessions
    /\ logs = [k \in Kinds |-> [s \in Sessions |-> None]]
    /\ rows = [k \in Kinds |-> [i \in Ids |-> [b \in Backends |-> "none"]]]
    /\ work = IdleWork
    /\ retries = [r \in Retriers |-> IdleRetry]
    /\ accepted = [k \in Kinds |-> [s \in Sessions |-> [b \in Backends |-> 0]]]
    /\ disturbed = {}

Status(k, s) == IF logs[k][s] = None THEN "none" ELSE logs[k][s].status

Saturated(n) == IF n = 2 THEN 2 ELSE n + 1

LoopFree == work.pc = "idle"

\* A handler goes on with a session after a commit.
Busy(pc, s) == [IdleWork EXCEPT !.pc = pc, !.session = s]

Approving(s, sends) == [IdleWork EXCEPT !.pc = "approving", !.session = s, !.sends = sends]

------------------------------------------------------------------------------
(* Drafts *)

SetStatus(k, s, status) == logs' = [logs EXCEPT ![k][s] = [id |-> @.id, status |-> status]]

\* SQLite numbers a row after the largest id the table holds, so the id of a
\* deleted row can come back, and with it the delivery rows of that id.
NextId(k, i) ==
    /\ \A s \in Sessions : logs[k][s] # None => logs[k][s].id < i
    /\ i = 1 \/ \E s \in Sessions : logs[k][s] # None /\ logs[k][s].id = i - 1

\* generate_draft: keeps a live log, revives a skipped one in place, and does
\* nothing without a default template.
Drafted(k, s) ==
    \/ /\ logs[k][s] = None
       /\ k \in templates
       /\ \E i \in Ids :
             /\ NextId(k, i)
             /\ logs' = [logs EXCEPT ![k][s] = [id |-> i, status |-> "draft"]]
    \/ /\ Status(k, s) = "skipped"
       /\ k \in templates
       /\ SetStatus(k, s, "draft")
    \/ /\ k \notin templates \/ Status(k, s) \in {"draft", "approved", "sent"}
       /\ UNCHANGED logs

GenerateRoster(s) ==
    /\ LoopFree
    /\ Drafted("roster", s)
    /\ UNCHANGED <<templates, sessions, credits, files, rows, work, retries, accepted, disturbed>>

GenerateReminder(s) ==
    /\ LoopFree
    /\ Drafted("reminder", s)
    /\ UNCHANGED <<templates, sessions, credits, files, rows, work, retries, accepted, disturbed>>

\* generate_due_drafts drafts one session per commit; how many days are left or
\* gone by is not modelled.
RosterDue(s) ==
    /\ sessions[s].status = "completed"
    /\ logs["roster"][s] = None
    /\ GenerateRoster(s)

ReminderDue(s) ==
    /\ sessions[s].status = "scheduled"
    /\ logs["reminder"][s] = None
    /\ GenerateReminder(s)

------------------------------------------------------------------------------
(* Approval *)

\* Mutant: members are credited at every approval.
FinalizeAgain(s) ==
    /\ sessions' = [sessions EXCEPT ![s] = [status |-> "completed", finalized |-> TRUE]]
    /\ credits' = [credits EXCEPT ![s] = Saturated(@)]

\* approve_session_checkins: one commit for the members and the stamp.
Finalize(s) ==
    /\ sessions' = [sessions EXCEPT ![s] = [status |-> "completed", finalized |-> TRUE]]
    /\ credits' = [credits EXCEPT ![s] = IF sessions[s].finalized THEN @ ELSE Saturated(@)]

\* The check-ins page closes the session; the handler then drafts its roster.
CloseSession(s) ==
    /\ LoopFree
    /\ Finalize(s)
    /\ work' = Busy("drafting", s)
    /\ UNCHANGED <<templates, files, logs, rows, retries, accepted, disturbed>>

DraftAfterClose ==
    /\ work.pc = "drafting"
    /\ Drafted("roster", work.session)
    /\ work' = IdleWork
    /\ UNCHANGED <<templates, sessions, credits, files, rows, retries, accepted, disturbed>>

UpdateSession(s) ==
    /\ LoopFree
    /\ \E status \in {"scheduled", "completed", "cancelled"} :
          sessions' = [sessions EXCEPT ![s].status = status]
    /\ UNCHANGED <<templates, credits, files, logs, rows, work, retries, accepted, disturbed>>

\* dispatch_delivery starts.
Dispatching(k, s) ==
    [IdleWork EXCEPT !.pc = "dispatching", !.kind = k, !.session = s, !.todo = Backends]

\* A retry is at work on the session's content, or on the rows of its log.
Retrying(k, s) ==
    \E r \in Retriers :
        /\ retries[r].pc = "running"
        /\ retries[r].kind = k
        /\ retries[r].session = s \/ retries[r].id = logs[k][s].id

\* The approval is committed; a submit goes on to dispatch.
Approved(k, s, sends) ==
    /\ SetStatus(k, s, "approved")
    /\ accepted' = [accepted EXCEPT ![k][s] = [b \in Backends |-> 0]]
    /\ disturbed' = IF Retrying(k, s) THEN disturbed \cup {<<k, s>>} ELSE disturbed \ {<<k, s>>}
    /\ work' = IF sends THEN Dispatching(k, s) ELSE IdleWork

\* Mutant: the roster is approved without closing the session.
ApproveUncounted(s, sends) ==
    /\ LoopFree
    /\ Status("roster", s) = "draft"
    /\ Approved("roster", s, sends)
    /\ UNCHANGED <<templates, sessions, credits, files, rows, retries>>

\* approve_roster, and submit_roster on a draft: the session is closed by a
\* commit of its own.
ApproveRoster(s, sends) ==
    /\ LoopFree
    /\ Status("roster", s) = "draft"
    /\ Finalize(s)
    /\ work' = Approving(s, sends)
    /\ UNCHANGED <<templates, files, logs, rows, retries, accepted, disturbed>>

RosterApproved ==
    /\ work.pc = "approving"
    /\ Approved("roster", work.session, work.sends)
    /\ UNCHANGED <<templates, sessions, credits, files, rows, retries>>

\* approve_reminder, and submit_reminder on a draft.
ApproveReminder(s, sends) ==
    /\ LoopFree
    /\ Status("reminder", s) = "draft"
    /\ Approved("reminder", s, sends)
    /\ UNCHANGED <<templates, sessions, credits, files, rows, retries>>

------------------------------------------------------------------------------
(* Delivery *)

\* mark_sent's guard.
Sendable == {"approved"}

\* mark_sent by the send and submit routes.
SendRoster(s) ==
    /\ LoopFree
    /\ Status("roster", s) \in Sendable
    /\ work' = Dispatching("roster", s)
    /\ UNCHANGED <<tables, rows, retries, accepted, disturbed>>

SendReminder(s) ==
    /\ LoopFree
    /\ Status("reminder", s) \in Sendable
    /\ work' = Dispatching("reminder", s)
    /\ UNCHANGED <<tables, rows, retries, accepted, disturbed>>

\* resend_roster repeats on purpose what was sent.
ResendRoster(s) ==
    /\ LoopFree
    /\ Status("roster", s) = "sent"
    /\ work' = [Dispatching("roster", s) EXCEPT !.resend = TRUE]
    /\ disturbed' = disturbed \cup {<<"roster", s>>}
    /\ UNCHANGED <<tables, rows, retries, accepted>>

Takes(k, s, b) == accepted' = [accepted EXCEPT ![k][s][b] = Saturated(@)]

Records(k, i, b, status) == rows' = [rows EXCEPT ![k][i][b] = status]

\* The row is flushed as PENDING, which takes the database's write lock but
\* shows to nobody, and the backend is called.  Its answer may get lost.
DispatchSend(b) ==
    /\ work.pc = "dispatching"
    /\ work.sending = None
    /\ b \in work.todo
    /\ \E took, success \in BOOLEAN :
          /\ success => took
          /\ IF took THEN Takes(work.kind, work.session, b) ELSE UNCHANGED accepted
          /\ disturbed' = IF took /\ ~success
                          THEN disturbed \cup {<<work.kind, work.session>>} ELSE disturbed
          /\ work' = [work EXCEPT !.sending = b, !.success = success]
    /\ UNCHANGED <<tables, rows, retries>>

\* Mutant: one backend's success is recorded for the ones after it.
OutcomeOfAny == IF work.success \/ work.ok THEN "delivered" ELSE "failed"

Outcome == IF work.success THEN "delivered" ELSE "failed"

DispatchCommit ==
    /\ work.pc = "dispatching"
    /\ work.sending # None
    /\ Records(work.kind, logs[work.kind][work.session].id, work.sending, Outcome)
    /\ work' = [work EXCEPT !.todo = @ \ {work.sending}, !.sending = None,
                            !.success = FALSE, !.ok = @ \/ work.success]
    /\ UNCHANGED <<tables, retries, accepted, disturbed>>

DispatchOver == work.pc = "dispatching" /\ work.todo = {}

\* Mutant: the source files go even if nothing was delivered.
FailPurged ==
    /\ DispatchOver
    /\ ~work.ok
    /\ work' = Busy("purging", work.session)
    /\ UNCHANGED <<tables, rows, retries, accepted, disturbed>>

\* No backend took it: the log stays as it was.
DispatchFailed ==
    /\ DispatchOver
    /\ ~work.ok
    /\ work' = IdleWork
    /\ UNCHANGED <<tables, rows, retries, accepted, disturbed>>

\* Mutant: a dispatch counts however it ended.
EndedAnyhow == DispatchOver

\* dispatch_delivery returned True.
Delivered == DispatchOver /\ work.ok

RosterSent ==
    /\ Delivered
    /\ work.kind = "roster"
    /\ ~work.resend
    /\ SetStatus("roster", work.session, "sent")
    /\ work' = Busy("purging", work.session)
    /\ UNCHANGED <<templates, sessions, credits, files, rows, retries, accepted, disturbed>>

ReminderSent ==
    /\ Delivered
    /\ work.kind = "reminder"
    /\ SetStatus("reminder", work.session, "sent")
    /\ work' = IdleWork
    /\ UNCHANGED <<templates, sessions, credits, files, rows, retries, accepted, disturbed>>

Resent ==
    /\ Delivered
    /\ work.resend
    /\ work' = IdleWork
    /\ UNCHANGED <<tables, rows, retries, accepted, disturbed>>

------------------------------------------------------------------------------
(* Skip, delete, purge *)

SkipRoster(s) ==
    /\ LoopFree
    /\ Status("roster", s) \in {"draft", "approved"}
    /\ SetStatus("roster", s, "skipped")
    /\ work' = Busy("purging", s)
    /\ UNCHANGED <<templates, sessions, credits, files, rows, retries, accepted, disturbed>>

SkipReminder(s) ==
    /\ LoopFree
    /\ Status("reminder", s) \in {"draft", "approved"}
    /\ SetStatus("reminder", s, "skipped")
    /\ UNCHANGED <<templates, sessions, credits, files, rows, work, retries, accepted, disturbed>>

\* The delivery rows of the deleted log stay.
DeleteRoster(s) ==
    /\ LoopFree
    /\ logs["roster"][s] # None
    /\ logs' = [logs EXCEPT !["roster"][s] = None]
    /\ work' = Busy("purging", s)
    /\ UNCHANGED <<templates, sessions, credits, files, rows, retries, accepted, disturbed>>

DeleteReminder(s) ==
    /\ LoopFree
    /\ logs["reminder"][s] # None
    /\ logs' = [logs EXCEPT !["reminder"][s] = None]
    /\ UNCHANGED <<templates, sessions, credits, files, rows, work, retries, accepted, disturbed>>

\* purge_session_source_files, after the commit; an OSError is only logged.
Purge ==
    /\ work.pc = "purging"
    /\ files' \in {files, files \ {work.session}}
    /\ work' = IdleWork
    /\ UNCHANGED <<templates, sessions, credits, logs, rows, retries, accepted, disturbed>>

------------------------------------------------------------------------------
(* Retries in threads *)

\* Mutant: a retry repeats every delivery, not only the failed ones.
AllBackends(k, s) == {b \in Backends : rows[k][logs[k][s].id][b] # "none"}

FailedBackends(k, s) == {b \in Backends : rows[k][logs[k][s].id][b] = "failed"}

\* retry_delivery checks that the log exists, then reads the failed rows once.
StartRetry(r, k, s) ==
    /\ retries[r].pc = "idle"
    /\ logs[k][s] # None
    /\ FailedBackends(k, s) # {}
    /\ retries' = [retries EXCEPT ![r] =
          [pc |-> "running", kind |-> k, session |-> s, id |-> logs[k][s].id,
           todo |-> FailedBackends(k, s), sending |-> None, success |-> FALSE]]
    /\ disturbed' = IF Status(k, s) # "sent" \/ Retrying(k, s)
                    THEN disturbed \cup {<<k, s>>} ELSE disturbed
    /\ UNCHANGED <<tables, rows, work, accepted>>

RetrySend(r, b) ==
    LET t == retries[r] IN
    /\ t.pc = "running"
    /\ t.sending = None
    /\ b \in t.todo
    /\ \E took, success \in BOOLEAN :
          /\ success => took
          /\ IF took THEN Takes(t.kind, t.session, b) ELSE UNCHANGED accepted
          /\ disturbed' = IF took /\ ~success
                          THEN disturbed \cup {<<t.kind, t.session>>} ELSE disturbed
          /\ retries' = [retries EXCEPT ![r].sending = b, ![r].success = success]
    /\ UNCHANGED <<tables, rows, work>>

\* The row is written by its id, whatever it says by then; a failure changes
\* only its error message.  While a dispatch holds the write lock, it waits.
RetryCommit(r) ==
    LET t == retries[r] IN
    /\ t.sending # None
    /\ work.sending = None
    /\ IF t.success THEN Records(t.kind, t.id, t.sending, "delivered") ELSE UNCHANGED rows
    /\ retries' = [retries EXCEPT ![r] =
          IF t.todo = {t.sending} THEN IdleRetry
          ELSE [t EXCEPT !.todo = @ \ {t.sending}, !.sending = None, !.success = FALSE]]
    /\ UNCHANGED <<tables, work, accepted, disturbed>>

\* The contents a retry has sent without having committed it.
Unrecorded(r) ==
    {c \in Content : retries[r].success /\ c = <<retries[r].kind, retries[r].session>>}

\* The lock is not free in time: the thread's transaction is lost.
RetryLocked(r) ==
    /\ retries[r].sending # None
    /\ work.sending # None
    /\ retries' = [retries EXCEPT ![r] = IdleRetry]
    /\ disturbed' = disturbed \cup Unrecorded(r)
    /\ UNCHANGED <<tables, rows, work, accepted>>

------------------------------------------------------------------------------

Restart ==
    /\ MayRestart
    /\ work' = IdleWork
    /\ retries' = [r \in Retriers |-> IdleRetry]
    /\ disturbed' = disturbed
                    \cup {c \in Content : work.pc = "dispatching" /\ c = <<work.kind, work.session>>}
                    \cup UNION {Unrecorded(r) : r \in Retriers}
    /\ UNCHANGED <<tables, rows, accepted>>

RosterRequest(s) ==
    \/ GenerateRoster(s) \/ RosterDue(s)
    \/ \E sends \in BOOLEAN : ApproveRoster(s, sends)
    \/ SendRoster(s) \/ ResendRoster(s) \/ SkipRoster(s) \/ DeleteRoster(s)

ReminderRequest(s) ==
    \/ GenerateReminder(s) \/ ReminderDue(s)
    \/ \E sends \in BOOLEAN : ApproveReminder(s, sends)
    \/ SendReminder(s) \/ SkipReminder(s) \/ DeleteReminder(s)

Handler ==
    \/ DraftAfterClose \/ RosterApproved
    \/ \E b \in Backends : DispatchSend(b)
    \/ DispatchCommit \/ DispatchFailed \/ RosterSent \/ ReminderSent \/ Resent
    \/ Purge

RetryStep(r) ==
    \/ \E k \in Kinds, s \in Sessions : StartRetry(r, k, s)
    \/ \E b \in Backends : RetrySend(r, b)
    \/ RetryCommit(r) \/ RetryLocked(r)

Next ==
    \/ \E s \in Sessions : RosterRequest(s) \/ ReminderRequest(s)
                           \/ CloseSession(s) \/ UpdateSession(s)
    \/ Handler
    \/ \E r \in Retriers : RetryStep(r)
    \/ Restart

Spec == Init /\ [][Next]_vars

------------------------------------------------------------------------------
(* Properties *)

\* Members are credited with a session's check-ins exactly when it is stamped
\* as finalized, and once, whichever of the check-ins page, approve and submit
\* gets there first, and wherever the process stops.
CountedOnce ==
    \A s \in Sessions : credits[s] = IF sessions[s].finalized THEN 1 ELSE 0

\* No roster is approved or sent before its session's members were credited,
\* although the two are committed one after the other.
ApprovedIsCounted ==
    \A s \in Sessions :
        Status("roster", s) \in {"approved", "sent"} => sessions[s].finalized

\* A log that says SENT was taken by at least one backend since it was approved.
SentWasAccepted ==
    \A k \in Kinds, s \in Sessions :
        Status(k, s) = "sent" => \E b \in Backends : accepted[k][s][b] > 0

\* A backend takes a content at most once per approval, however the dispatch and
\* the retries after it end, unless the content is resent, is retried when it is
\* not SENT or while another retry of it is at work, or lost track of a delivery:
\* its answer, its commit, or the process that was to record it.
AtMostOnce ==
    \A k \in Kinds, s \in Sessions :
        <<k, s>> \notin disturbed => \A b \in Backends : accepted[k][s][b] <= 1

\* A retry of the content has sent it to the backend and not committed yet.
InRetry(k, s, b) ==
    \E r \in Retriers :
        retries[r].kind = k /\ retries[r].session = s /\ retries[r].sending = b

\* With the same exceptions, the delivery rows of a sent log say which backends
\* took it, before and after retries, so that a retry is offered exactly the ones
\* that did not.
RowsTell ==
    \A k \in Kinds, s \in Sessions :
        (Status(k, s) = "sent" /\ <<k, s>> \notin disturbed) =>
            \A b \in Backends :
                \/ InRetry(k, s, b)
                \/ rows[k][logs[k][s].id][b] =
                      IF accepted[k][s][b] = 1 THEN "delivered" ELSE "failed"

\* A session's messages leave the mailbox only when its roster is sent, skipped
\* or deleted, never while a failed dispatch may still be repeated.
FilesKept ==
    [][\A s \in Sessions : (s \in files /\ s \notin files') =>
           Status("roster", s) \in {"none", "sent", "skipped"}]_vars

\* A draft is not taken by any backend: only what was approved goes out.
DraftsStayHome ==
    [][\A k \in Kinds, s \in Sessions :
           Status(k, s) = "draft" =>
               \A b \in Backends : accepted'[k][s][b] <= accepted[k][s][b]]_vars

==============================================================================
