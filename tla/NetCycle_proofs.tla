---------------------------- MODULE NetCycle_proofs ----------------------------
(***************************************************************************)
(* Proofs about NetCycle, for any sessions, backends, retries and ids.     *)
(*                                                                         *)
(* One inductive invariant serves all of them.  It says of the handler at  *)
(* work which log it is about and what state that log is in (WorkFits),    *)
(* that logs of a kind have ids of their own (OwnIds), and, for contents   *)
(* that lost track of nothing, what the backends took at every point of a  *)
(* dispatch (Ledger), and that a retry of one is alone and repeats nothing *)
(* a backend took (Alone).                                                 *)
(***************************************************************************)
EXTENDS NetCycle, TLAPS

\* A running retry has a session and the id of a row; it sends to a backend that
\* is left, and has an answer only for what it sends.
RetriesFit ==
    \A r \in Retriers :
        /\ retries[r].pc = "idle" => retries[r].sending = None
        /\ retries[r].sending # None => retries[r].sending \in retries[r].todo
        /\ retries[r].sending = None => ~retries[r].success
        /\ retries[r].pc = "running" => retries[r].session \in Sessions /\ retries[r].id \in Ids

\* What the handler at work may count on about its log.
WorkFits ==
    /\ work.pc # "idle" => work.session \in Sessions
    /\ work.pc = "approving" =>
          Status("roster", work.session) = "draft" /\ sessions[work.session].finalized
    /\ work.pc = "dispatching" /\ ~work.resend => Status(work.kind, work.session) = "approved"
    /\ work.pc = "dispatching" /\ work.resend =>
          /\ work.kind = "roster"
          /\ Status("roster", work.session) = "sent"
          /\ <<"roster", work.session>> \in disturbed
    /\ work.pc = "purging" => Status("roster", work.session) \in {"none", "sent", "skipped"}
    /\ work.sending # None => work.pc = "dispatching" /\ work.sending \in work.todo

\* Logs of a kind have ids of their own.
OwnIds ==
    \A k \in Kinds, s, t \in Sessions :
        (s # t /\ logs[k][s] # None /\ logs[k][t] # None) => logs[k][s].id # logs[k][t].id

\* A success that the dispatch goes by is one of a backend that took it.
SuccessIsReal ==
    work.pc = "dispatching" =>
        /\ work.ok => \E b \in Backends : accepted[work.kind][work.session][b] > 0
        /\ work.sending # None /\ work.success =>
              accepted[work.kind][work.session][work.sending] > 0

Dispatched(k, s) == work.pc = "dispatching" /\ work.kind = k /\ work.session = s

\* A retry of the content was told that the backend took it, and will say so.
Pending(k, s, b) ==
    \E r \in Retriers :
        /\ retries[r].kind = k /\ retries[r].session = s
        /\ retries[r].sending = b /\ retries[r].success

\* The delivery row of one backend says whether it took the content.
RowTells(k, s, b) ==
    \/ Pending(k, s, b)
    \/ rows[k][logs[k][s].id][b] = IF accepted[k][s][b] = 1 THEN "delivered" ELSE "failed"

\* What the backends took of a content that lost track of nothing.
InLedger(k, s) ==
    /\ \A b \in Backends : accepted[k][s][b] <= 1
    /\ Status(k, s) = "sent" => \A b \in Backends : RowTells(k, s, b)
    /\ Status(k, s) = "approved" /\ ~Dispatched(k, s) => \A b \in Backends : accepted[k][s][b] = 0
    /\ Dispatched(k, s) =>
          /\ \A b \in work.todo : b # work.sending => accepted[k][s][b] = 0
          /\ work.sending # None =>
                accepted[k][s][work.sending] = IF work.success THEN 1 ELSE 0
          /\ \A b \in Backends \ work.todo :
                RowTells(k, s, b) /\ (accepted[k][s][b] = 1 => work.ok)

Ledger == \A k \in Kinds, s \in Sessions : <<k, s>> \notin disturbed => InLedger(k, s)

\* A retry works on the session's content, or on the rows of its log.
Concerns(r, k, s) ==
    /\ retries[r].pc = "running" /\ retries[r].kind = k
    /\ \/ retries[r].session = s
       \/ logs[k][s] # None /\ retries[r].id = logs[k][s].id

\* What a retry may count on about a content that lost track of nothing: it is
\* not about to be dispatched, and if it is sent it is the retry's own.
RetryFits(r, k, s) ==
    /\ Status(k, s) # "approved"
    /\ Status(k, s) = "sent" => retries[r].session = s /\ retries[r].id = logs[k][s].id
    /\ retries[r].session = s =>
          /\ \A q \in Retriers :
                retries[q].pc = "running" /\ retries[q].kind = k /\ retries[q].session = s => q = r
          /\ \A b \in retries[r].todo :
                accepted[k][s][b] = IF b = retries[r].sending /\ retries[r].success THEN 1 ELSE 0

Alone ==
    \A k \in Kinds, s \in Sessions : <<k, s>> \notin disturbed =>
        \A r \in Retriers : Concerns(r, k, s) => RetryFits(r, k, s)

Inv ==
    /\ TypeOK
    /\ RetriesFit
    /\ WorkFits
    /\ OwnIds
    /\ CountedOnce
    /\ ApprovedIsCounted
    /\ SentWasAccepted
    /\ SuccessIsReal
    /\ Ledger
    /\ Alone

------------------------------------------------------------------------------
(* Types *)

LEMMA IdleTyped == IdleWork \in Work /\ IdleRetry \in Retry
  BY IdAssumption DEF IdleWork, IdleRetry, Work, Retry, Kinds

\* A log that exists is a log.
LEMMA LogExists ==
    ASSUME TypeOK, NEW k \in Kinds, NEW s \in Sessions
    PROVE  /\ logs[k][s] # None => logs[k][s] \in Log
           /\ Status(k, s) = "none" <=> logs[k][s] = None
           /\ Status(k, s) \in Statuses \cup {"none"}
  BY NoneAssumption DEF TypeOK, Status, Log, Statuses

\* The other logs are as they were.
OnlyLog(k, s) ==
    \A l \in Kinds, t \in Sessions : <<l, t>> # <<k, s>> => logs'[l][t] = logs[l][t]

\* What a step makes of one log.
BecomesLog(k, s, status) ==
    /\ logs' \in [Kinds -> [Sessions -> Log \cup {None}]]
    /\ OnlyLog(k, s)
    /\ Status(k, s)' = status

\* A status that is set leaves the id and every other log alone.
LEMMA StatusSet ==
    ASSUME TypeOK, NEW k \in Kinds, NEW s \in Sessions, NEW status \in Statuses,
           logs[k][s] # None, SetStatus(k, s, status)
    PROVE  /\ BecomesLog(k, s, status)
           /\ logs'[k][s] # None /\ logs'[k][s].id = logs[k][s].id
  <1>1. logs[k][s] \in Log
    BY LogExists
  <1> DEFINE new == [id |-> logs[k][s].id, status |-> status]
  <1>2. new \in Log /\ new.id = logs[k][s].id /\ new.status = status
    BY <1>1 DEF Log
  <1>3. logs' = [logs EXCEPT ![k] = [logs[k] EXCEPT ![s] = new]]
    BY DEF SetStatus
  <1> HIDE DEF new
  <1>4. logs'[k][s] = new /\ OnlyLog(k, s) /\ logs' \in [Kinds -> [Sessions -> Log \cup {None}]]
    BY <1>2, <1>3 DEF TypeOK, OnlyLog
  <1> QED BY <1>2, <1>4, NoneAssumption DEF BecomesLog, Status

\* A draft that appears has an id above those of its kind, or was skipped before.
LEMMA DraftAppears ==
    ASSUME TypeOK, NEW k \in Kinds, NEW s \in Sessions, Drafted(k, s)
    PROVE  \/ UNCHANGED logs
           \/ /\ BecomesLog(k, s, "draft")
              /\ Status(k, s) \in {"none", "skipped"}
              /\ logs'[k][s] # None
              /\ \/ logs[k][s] # None /\ logs'[k][s].id = logs[k][s].id
                 \/ \A t \in Sessions : t # s /\ logs[k][t] # None => logs[k][t].id < logs'[k][s].id
  <1>1. CASE Status(k, s) = "skipped" /\ SetStatus(k, s, "draft")
    <2>1. logs[k][s] # None
      BY <1>1 DEF Status
    <2> QED BY <1>1, <2>1, StatusSet DEF Statuses
  <1>2. ASSUME NEW i \in Ids, NextId(k, i), logs[k][s] = None,
               logs' = [logs EXCEPT ![k][s] = [id |-> i, status |-> "draft"]]
        PROVE  /\ BecomesLog(k, s, "draft")
               /\ Status(k, s) \in {"none", "skipped"}
               /\ logs'[k][s] # None
               /\ \A t \in Sessions : t # s /\ logs[k][t] # None => logs[k][t].id < logs'[k][s].id
    <2> DEFINE new == [id |-> i, status |-> "draft"]
    <2>1. new \in Log
      BY DEF Log, Statuses
    <2>2. logs' = [logs EXCEPT ![k] = [logs[k] EXCEPT ![s] = new]]
      BY <1>2
    <2>3. logs'[k][s] = new /\ OnlyLog(k, s) /\ logs' \in [Kinds -> [Sessions -> Log \cup {None}]]
      BY <2>1, <2>2 DEF TypeOK, OnlyLog
    <2>4. new # None
      BY <2>1, NoneAssumption
    <2> QED BY <1>2, <2>3, <2>4 DEF BecomesLog, Status, NextId
  <1> QED BY <1>1, <1>2 DEF Drafted

\* A backend that takes a content, and a row that is written, keep their types.
LEMMA TakeTyped ==
    ASSUME TypeOK, NEW k \in Kinds, NEW s \in Sessions, NEW b \in Backends, Takes(k, s, b)
    PROVE  /\ accepted' \in [Kinds -> [Sessions -> [Backends -> 0..2]]]
           /\ accepted'[k][s][b] = Saturated(accepted[k][s][b])
           /\ \A l \in Kinds, t \in Sessions, c \in Backends :
                 <<l, t, c>> # <<k, s, b>> => accepted'[l][t][c] = accepted[l][t][c]
  <1>1. accepted[k][s][b] \in 0..2
    BY DEF TypeOK
  <1>2. Saturated(accepted[k][s][b]) \in 0..2
    BY <1>1 DEF Saturated
  <1> QED BY <1>2 DEF Takes, TypeOK

LEMMA RowTyped ==
    ASSUME TypeOK, NEW k \in Kinds, NEW i \in Ids, NEW b \in Backends,
           NEW status \in RowStatus, Records(k, i, b, status)
    PROVE  /\ rows' \in [Kinds -> [Ids -> [Backends -> RowStatus]]]
           /\ rows'[k][i][b] = status
           /\ \A l \in Kinds, j \in Ids, c \in Backends :
                 <<l, j, c>> # <<k, i, b>> => rows'[l][j][c] = rows[l][j][c]
  BY DEF TypeOK, Records

\* The handler's state at the start of each of its jobs.
LEMMA JobsTyped ==
    ASSUME NEW s \in Sessions
    PROVE  /\ \A pc \in {"drafting", "purging"} : Busy(pc, s) \in Work
           /\ \A sends \in BOOLEAN : Approving(s, sends) \in Work
           /\ \A k \in Kinds :
                 /\ Dispatching(k, s) \in Work
                 /\ [Dispatching(k, s) EXCEPT !.resend = TRUE] \in Work
  BY DEF IdleWork, Work, Kinds, Busy, Approving, Dispatching

\* The steps on sessions, drafts, approvals, skips, deletions and mail files.
LEMMA TableStepsTyped ==
    ASSUME TypeOK, WorkFits, NEW s \in Sessions,
           \/ GenerateRoster(s) \/ GenerateReminder(s) \/ RosterDue(s) \/ ReminderDue(s)
           \/ CloseSession(s) \/ DraftAfterClose \/ UpdateSession(s)
           \/ \E sends \in BOOLEAN : ApproveRoster(s, sends) \/ ApproveReminder(s, sends)
           \/ RosterApproved \/ SkipRoster(s) \/ SkipReminder(s)
           \/ DeleteRoster(s) \/ DeleteReminder(s) \/ Purge
    PROVE  TypeOK' /\ UNCHANGED retries
  <1> USE DEF Kinds
  <1>0. IdleWork \in Work
    BY IdleTyped
  <1>1. ASSUME NEW k \in Kinds, NEW t \in Sessions, Drafted(k, t)
        PROVE  logs' \in [Kinds -> [Sessions -> Log \cup {None}]]
    BY <1>1, DraftAppears DEF BecomesLog, TypeOK
  <1>2. ASSUME NEW k \in Kinds, NEW t \in Sessions, NEW sends \in BOOLEAN,
               Status(k, t) = "draft", Approved(k, t, sends)
        PROVE  /\ logs' \in [Kinds -> [Sessions -> Log \cup {None}]]
               /\ accepted' \in [Kinds -> [Sessions -> [Backends -> 0..2]]]
               /\ work' \in Work
               /\ disturbed' \subseteq Content
    <2>1. logs[k][t] # None /\ <<k, t>> \in Content
      BY <1>2 DEF Status, Content
    <2>2. logs' \in [Kinds -> [Sessions -> Log \cup {None}]]
      BY <1>2, <2>1, StatusSet DEF Approved, BecomesLog, Statuses
    <2>3. accepted' \in [Kinds -> [Sessions -> [Backends -> 0..2]]]
      BY <1>2 DEF Approved, TypeOK
    <2>4. work' \in Work
      BY <1>0, <1>2, JobsTyped DEF Approved
    <2>5. disturbed' \subseteq disturbed \cup {<<k, t>>}
      BY <1>2 DEF Approved
    <2>6. disturbed' \subseteq Content
      BY <2>1, <2>5 DEF TypeOK
    <2> QED BY <2>2, <2>3, <2>4, <2>6
  <1>3. ASSUME NEW k \in Kinds, NEW t \in Sessions, Status(k, t) \in {"draft", "approved"},
               SetStatus(k, t, "skipped")
        PROVE  logs' \in [Kinds -> [Sessions -> Log \cup {None}]]
    <2>1. logs[k][t] # None
      BY <1>3 DEF Status
    <2> QED BY <1>3, <2>1, StatusSet DEF BecomesLog, Statuses
  <1>4. ASSUME NEW k \in Kinds, logs' = [logs EXCEPT ![k][s] = None]
        PROVE  logs' \in [Kinds -> [Sessions -> Log \cup {None}]]
    BY <1>4 DEF TypeOK
  <1>5. ASSUME Finalize(s)
        PROVE  /\ sessions' \in [Sessions -> [status: {"scheduled", "completed", "cancelled"},
                                              finalized: BOOLEAN]]
               /\ credits' \in [Sessions -> 0..2]
    <2>1. credits[s] \in 0..2
      BY DEF TypeOK
    <2>2. Saturated(credits[s]) \in 0..2
      BY <2>1 DEF Saturated
    <2> QED BY <1>5, <2>2 DEF Finalize, TypeOK
  <1>6. CASE GenerateRoster(s) \/ GenerateReminder(s) \/ RosterDue(s) \/ ReminderDue(s)
    BY <1>1, <1>6 DEF GenerateRoster, GenerateReminder, RosterDue, ReminderDue, TypeOK
  <1>7. CASE CloseSession(s)
    BY <1>5, <1>7, JobsTyped DEF CloseSession, TypeOK
  <1>8. CASE DraftAfterClose
    BY <1>0, <1>1, <1>8 DEF DraftAfterClose, TypeOK, WorkFits
  <1>9. CASE UpdateSession(s)
    <2>1. PICK status \in {"scheduled", "completed", "cancelled"} :
             sessions' = [sessions EXCEPT ![s].status = status]
      BY <1>9 DEF UpdateSession
    <2>2. sessions' \in [Sessions -> [status: {"scheduled", "completed", "cancelled"},
                                      finalized: BOOLEAN]]
      BY <2>1 DEF TypeOK
    <2> QED BY <1>9, <2>2 DEF UpdateSession, TypeOK
  <1>10. ASSUME NEW sends \in BOOLEAN, ApproveRoster(s, sends) PROVE TypeOK' /\ UNCHANGED retries
    BY <1>5, <1>10, JobsTyped DEF ApproveRoster, TypeOK
  <1>11. ASSUME NEW sends \in BOOLEAN, ApproveReminder(s, sends) PROVE TypeOK' /\ UNCHANGED retries
    BY <1>2, <1>11 DEF ApproveReminder, TypeOK
  <1>12. CASE RosterApproved
    <2>1. work.session \in Sessions /\ work.sends \in BOOLEAN /\ Status("roster", work.session) = "draft"
      BY <1>12 DEF RosterApproved, WorkFits, TypeOK, Work
    <2> QED BY <1>2, <1>12, <2>1 DEF RosterApproved, TypeOK
  <1>13. CASE SkipRoster(s) \/ SkipReminder(s)
    BY <1>3, <1>13, JobsTyped DEF SkipRoster, SkipReminder, TypeOK
  <1>14. CASE DeleteRoster(s) \/ DeleteReminder(s)
    BY <1>4, <1>14, JobsTyped DEF DeleteRoster, DeleteReminder, TypeOK
  <1>15. CASE Purge
    BY <1>0, <1>15 DEF Purge, TypeOK
  <1> QED BY <1>6, <1>7, <1>8, <1>9, <1>10, <1>11, <1>12, <1>13, <1>14, <1>15

\* The steps of a dispatch.
LEMMA DispatchTyped ==
    ASSUME TypeOK, WorkFits,
           \/ \E s \in Sessions : SendRoster(s) \/ SendReminder(s) \/ ResendRoster(s)
           \/ \E b \in Backends : DispatchSend(b)
           \/ DispatchCommit \/ DispatchFailed \/ RosterSent \/ ReminderSent \/ Resent
    PROVE  TypeOK' /\ UNCHANGED retries
  <1> USE DEF Kinds
  <1>0. IdleWork \in Work
    BY IdleTyped
  <1>1. ASSUME NEW s \in Sessions, SendRoster(s) \/ SendReminder(s) \/ ResendRoster(s)
        PROVE  TypeOK' /\ UNCHANGED retries
    <2>1. work' \in Work
      BY <1>1, JobsTyped DEF SendRoster, SendReminder, ResendRoster
    <2>2. disturbed' \subseteq Content
      <3>1. <<"roster", s>> \in Content
        BY DEF Content
      <3>2. disturbed' \subseteq disturbed \cup {<<"roster", s>>}
        BY <1>1 DEF SendRoster, SendReminder, ResendRoster
      <3> QED BY <3>1, <3>2 DEF TypeOK
    <2> QED BY <1>1, <2>1, <2>2 DEF SendRoster, SendReminder, ResendRoster, tables, TypeOK
  <1>2. ASSUME work.pc = "dispatching"
        PROVE  /\ work.kind \in Kinds /\ work.session \in Sessions
               /\ logs[work.kind][work.session] # None
               /\ logs[work.kind][work.session].id \in Ids
    <2>1. work.kind \in Kinds /\ work.session \in Sessions
      BY <1>2 DEF TypeOK, Work, WorkFits
    <2>2. Status(work.kind, work.session) \in {"approved", "sent"}
      BY <1>2 DEF TypeOK, Work, WorkFits
    <2> QED BY <2>1, <2>2, LogExists DEF Log, Status
  <1>3. ASSUME NEW b \in Backends, DispatchSend(b) PROVE TypeOK' /\ UNCHANGED retries
    <2>1. PICK took, success \in BOOLEAN :
              /\ IF took THEN Takes(work.kind, work.session, b) ELSE UNCHANGED accepted
              /\ disturbed' = IF took /\ ~success
                              THEN disturbed \cup {<<work.kind, work.session>>} ELSE disturbed
              /\ work' = [work EXCEPT !.sending = b, !.success = success]
      BY <1>3 DEF DispatchSend
    <2>2. work.kind \in Kinds /\ work.session \in Sessions
      BY <1>2, <1>3 DEF DispatchSend
    <2> HIDE DEF Kinds
    <2>3. accepted' \in [Kinds -> [Sessions -> [Backends -> 0..2]]]
      BY <2>1, <2>2, TakeTyped DEF TypeOK
    <2>4. work' \in Work
      BY <2>1 DEF TypeOK, Work
    <2>5. disturbed' \subseteq Content
      BY <2>1, <2>2 DEF TypeOK, Content
    <2> QED BY <1>3, <2>3, <2>4, <2>5 DEF DispatchSend, tables, TypeOK
  <1>4. CASE DispatchCommit
    <2>1. work.sending \in Backends /\ Outcome \in RowStatus
      BY <1>4 DEF DispatchCommit, TypeOK, Work, RowStatus, Outcome
    <2>2. rows' \in [Kinds -> [Ids -> [Backends -> RowStatus]]]
      BY <1>2, <1>4, <2>1, RowTyped DEF DispatchCommit
    <2>3. work' \in Work
      BY <1>4 DEF DispatchCommit, TypeOK, Work
    <2> QED BY <1>4, <2>2, <2>3 DEF DispatchCommit, tables, TypeOK
  <1>5. CASE DispatchFailed \/ Resent
    BY <1>0, <1>5 DEF DispatchFailed, Resent, tables, TypeOK
  <1>6. CASE RosterSent \/ ReminderSent
    <2>1. work.pc = "dispatching" /\ SetStatus(work.kind, work.session, "sent")
      BY <1>6 DEF RosterSent, ReminderSent, Delivered, DispatchOver
    <2>2. logs' \in [Kinds -> [Sessions -> Log \cup {None}]]
      BY <1>2, <2>1, StatusSet DEF BecomesLog, Statuses
    <2> QED BY <1>0, <1>2, <1>6, <2>1, <2>2, JobsTyped DEF RosterSent, ReminderSent, TypeOK
  <1> QED BY <1>1, <1>3, <1>4, <1>5, <1>6

\* Retries, and all steps.
LEMMA TypeKeeps ==
    ASSUME TypeOK, RetriesFit, WorkFits, [Next]_vars
    PROVE  TypeOK' /\ RetriesFit'
  <1>0. /\ IdleWork \in Work /\ IdleRetry \in Retry
        /\ IdleRetry.pc = "idle" /\ IdleRetry.sending = None /\ ~IdleRetry.success
    BY IdleTyped DEF IdleRetry
  <1>1. ASSUME NEW r \in Retriers, NEW k \in Kinds, NEW s \in Sessions, StartRetry(r, k, s)
        PROVE  TypeOK' /\ RetriesFit'
    <2>1. logs[k][s].id \in Ids
      BY <1>1, LogExists DEF StartRetry, Log
    <2>2. retries' \in [Retriers -> Retry]
      BY <1>1, <2>1 DEF StartRetry, FailedBackends, TypeOK, Retry, Ids
    <2>3. RetriesFit'
      BY <1>1, <2>1 DEF StartRetry, RetriesFit, TypeOK
    <2>4. disturbed' \subseteq Content
      BY <1>1 DEF StartRetry, TypeOK, Content
    <2> QED BY <1>1, <2>2, <2>3, <2>4 DEF StartRetry, tables, TypeOK
  <1>2. ASSUME NEW r \in Retriers, NEW b \in Backends, RetrySend(r, b)
        PROVE  TypeOK' /\ RetriesFit'
    <2>1. PICK took, success \in BOOLEAN :
              /\ IF took THEN Takes(retries[r].kind, retries[r].session, b) ELSE UNCHANGED accepted
              /\ disturbed' = IF took /\ ~success
                              THEN disturbed \cup {<<retries[r].kind, retries[r].session>>}
                              ELSE disturbed
              /\ b \in retries[r].todo /\ b # None
              /\ retries' = [retries EXCEPT ![r] = [retries[r] EXCEPT !.sending = b, !.success = success]]
      BY <1>2, NoneAssumption DEF RetrySend, TypeOK
    <2>2. retries[r].kind \in Kinds /\ retries[r].session \in Sessions /\ retries[r].pc = "running"
      BY <1>2 DEF RetrySend, TypeOK, RetriesFit, Retry
    <2>3. accepted' \in [Kinds -> [Sessions -> [Backends -> 0..2]]]
      BY <2>1, <2>2, TakeTyped DEF TypeOK
    <2>4. retries' \in [Retriers -> Retry]
      <3>1. retries[r] \in Retry
        BY DEF TypeOK
      <3>2. [retries[r] EXCEPT !.sending = b, !.success = success] \in Retry
        BY <2>1, <3>1 DEF Retry
      <3> QED BY <2>1, <3>2 DEF TypeOK
    <2>5. RetriesFit'
      BY <2>1, <2>2 DEF TypeOK, Retry, RetriesFit
    <2>6. disturbed' \subseteq Content
      BY <2>1, <2>2 DEF TypeOK, Content
    <2> QED BY <1>2, <2>3, <2>4, <2>5, <2>6 DEF RetrySend, tables, TypeOK
  <1>3. ASSUME NEW r \in Retriers, RetryCommit(r)
        PROVE  TypeOK' /\ RetriesFit'
    <2>1. retries[r] \in Retry
      BY DEF TypeOK
    <2>2. retries[r].sending \in Backends /\ retries[r].kind \in Kinds /\ retries[r].id \in Ids
      BY <1>3, <2>1 DEF RetryCommit, RetriesFit, Retry
    <2>3. rows' \in [Kinds -> [Ids -> [Backends -> RowStatus]]]
      BY <1>3, <2>2, RowTyped DEF RetryCommit, RowStatus, TypeOK
    <2> DEFINE next == [retries[r] EXCEPT !.todo = @ \ {retries[r].sending},
                                          !.sending = None, !.success = FALSE]
    <2>4. next \in Retry /\ next.sending = None /\ ~next.success
          /\ next.pc = retries[r].pc /\ next.session = retries[r].session /\ next.id = retries[r].id
      BY <2>1 DEF Retry
    <2>5. retries' = [retries EXCEPT ![r] = IF retries[r].todo = {retries[r].sending}
                                            THEN IdleRetry ELSE next]
      BY <1>3 DEF RetryCommit
    <2> HIDE DEF next
    <2>6. retries' \in [Retriers -> Retry]
      BY <1>0, <2>4, <2>5 DEF TypeOK
    <2>7. RetriesFit'
      BY <1>0, <2>4, <2>5 DEF TypeOK, RetriesFit
    <2> QED BY <1>3, <2>3, <2>6, <2>7 DEF RetryCommit, tables, TypeOK
  <1>4. ASSUME NEW r \in Retriers, RetryLocked(r)
        PROVE  TypeOK' /\ RetriesFit'
    <2>1. disturbed' \subseteq Content
      BY <1>4 DEF RetryLocked, Unrecorded, TypeOK
    <2> QED BY <1>0, <1>4, <2>1 DEF RetryLocked, tables, TypeOK, RetriesFit
  <1>5. CASE Restart
    <2>1. disturbed' \subseteq Content
      BY <1>5 DEF Restart, Unrecorded, TypeOK
    <2> QED BY <1>0, <1>5, <2>1 DEF Restart, tables, TypeOK, RetriesFit
  <1>6. CASE UNCHANGED vars
    BY <1>6 DEF vars, tables, TypeOK, RetriesFit
  <1>7. ASSUME UNCHANGED retries PROVE RetriesFit'
    BY <1>7 DEF RetriesFit
  <1>8. ASSUME NEW s \in Sessions, RosterRequest(s) \/ ReminderRequest(s) \/ CloseSession(s) \/ UpdateSession(s)
        PROVE  TypeOK' /\ RetriesFit'
    BY <1>7, <1>8, TableStepsTyped, DispatchTyped DEF RosterRequest, ReminderRequest
  <1>9. CASE DraftAfterClose \/ RosterApproved \/ Purge
    <2>1. work.session \in Sessions
      BY <1>9 DEF DraftAfterClose, RosterApproved, Purge, WorkFits
    <2> QED BY <1>7, <1>9, <2>1, TableStepsTyped
  <1>10. CASE \/ \E b \in Backends : DispatchSend(b)
              \/ DispatchCommit \/ DispatchFailed \/ RosterSent \/ ReminderSent \/ Resent
    BY <1>7, <1>10, DispatchTyped
  <1> QED BY <1>1, <1>2, <1>3, <1>4, <1>5, <1>6, <1>8, <1>9, <1>10 DEF Next, Handler, RetryStep

------------------------------------------------------------------------------
(* The handler and its log *)

\* What those states hold.
LEMMA JobsStart ==
    /\ IdleWork.pc = "idle" /\ IdleWork.sending = None
    /\ \A pc, s : Busy(pc, s).pc = pc /\ Busy(pc, s).session = s /\ Busy(pc, s).sending = None
    /\ \A s : \A sends \in BOOLEAN :
          /\ Approving(s, sends).pc = "approving" /\ Approving(s, sends).session = s
          /\ Approving(s, sends).sending = None
    /\ \A k, s :
          /\ Dispatching(k, s).pc = "dispatching" /\ Dispatching(k, s).kind = k
          /\ Dispatching(k, s).session = s /\ Dispatching(k, s).todo = Backends
          /\ Dispatching(k, s).sending = None
          /\ ~Dispatching(k, s).ok /\ ~Dispatching(k, s).success /\ ~Dispatching(k, s).resend
  BY DEF IdleWork, Busy, Approving, Dispatching

\* A dispatch that starts fits the log it is about.
LEMMA DispatchFits ==
    ASSUME NEW k \in Kinds, NEW s \in Sessions, work' = Dispatching(k, s),
           Status(k, s)' = "approved"
    PROVE  WorkFits'
  <1>1. /\ work'.pc = "dispatching" /\ work'.kind = k /\ work'.session = s
        /\ work'.sending = None /\ ~work'.resend
    BY JobsStart
  <1>2. Status(work.kind, work.session)' = "approved"
    BY <1>1
  <1> QED BY <1>1, <1>2 DEF WorkFits

\* A log that is submitted, sent or resent: the handler goes on to dispatch it,
\* or stops.
LEMMA ApprovalFits ==
    ASSUME TypeOK, NEW k \in Kinds, NEW s \in Sessions, NEW sends \in BOOLEAN,
           Status(k, s) = "draft", Approved(k, s, sends)
    PROVE  /\ WorkFits'
           /\ BecomesLog(k, s, "approved")
           /\ logs'[k][s] # None /\ logs'[k][s].id = logs[k][s].id
           /\ accepted' = [accepted EXCEPT ![k][s] = [b \in Backends |-> 0]]
           /\ disturbed' = IF Retrying(k, s) THEN disturbed \cup {<<k, s>>}
                           ELSE disturbed \ {<<k, s>>}
           /\ \/ work'.pc = "idle"
              \/ /\ work' = Dispatching(k, s)
                 /\ work'.pc = "dispatching" /\ work'.kind = k /\ work'.session = s
                 /\ work'.todo = Backends /\ work'.sending = None
                 /\ ~work'.ok /\ ~work'.success /\ ~work'.resend
  <1>1. logs[k][s] # None
    BY DEF Status
  <1>2. BecomesLog(k, s, "approved") /\ logs'[k][s] # None /\ logs'[k][s].id = logs[k][s].id
    BY <1>1, StatusSet DEF Approved, Statuses
  <1>3. CASE sends
    <2>1. work' = Dispatching(k, s)
      BY <1>3 DEF Approved
    <2> QED BY <1>2, <2>1, DispatchFits, JobsStart DEF Approved, BecomesLog
  <1>4. CASE ~sends
    BY <1>2, <1>4, JobsStart DEF Approved, WorkFits
  <1> QED BY <1>3, <1>4

\* What the handler counts on about its log stays true: nothing else writes it.
LEMMA WorkKeeps ==
    ASSUME TypeOK, RetriesFit, WorkFits, [Next]_vars
    PROVE  WorkFits'
  <1> USE DEF Kinds
  <1>0. ASSUME work'.pc = "idle", work'.sending = None PROVE WorkFits'
    BY <1>0 DEF WorkFits
  <1>1. ASSUME UNCHANGED <<work, logs, sessions>>, disturbed \subseteq disturbed'
        PROVE  WorkFits'
    BY <1>1 DEF WorkFits, Status
  <1>2. ASSUME UNCHANGED work, LoopFree PROVE WorkFits'
    BY <1>2 DEF WorkFits, LoopFree
  <1>3. ASSUME NEW s \in Sessions, RosterRequest(s) PROVE WorkFits'
    <2>1. CASE GenerateRoster(s) \/ RosterDue(s)
      BY <1>2, <2>1 DEF GenerateRoster, RosterDue
    <2>2. ASSUME NEW sends \in BOOLEAN, ApproveRoster(s, sends) PROVE WorkFits'
      BY <2>2, JobsStart DEF ApproveRoster, Finalize, WorkFits, Status, TypeOK
    <2>3. CASE SendRoster(s)
      BY <2>3, DispatchFits DEF SendRoster, Sendable, tables, Status
    <2>4. CASE ResendRoster(s)
      <3>1. /\ work'.pc = "dispatching" /\ work'.kind = "roster" /\ work'.session = s
            /\ work'.sending = None /\ work'.resend
        BY <2>4 DEF ResendRoster, Dispatching, IdleWork
      <3>2. Status("roster", s)' = "sent" /\ <<"roster", s>> \in disturbed'
        BY <2>4 DEF ResendRoster, tables, Status
      <3> QED BY <3>1, <3>2 DEF WorkFits
    <2>5. CASE SkipRoster(s)
      <3>1. logs["roster"][s] # None
        BY <2>5 DEF SkipRoster, Status
      <3>2. Status("roster", s)' = "skipped"
        BY <2>5, <3>1, StatusSet DEF SkipRoster, BecomesLog, Statuses
      <3> QED BY <2>5, <3>2, JobsStart DEF SkipRoster, WorkFits
    <2>6. CASE DeleteRoster(s)
      <3>1. Status("roster", s)' = "none"
        BY <2>6 DEF DeleteRoster, Status, TypeOK
      <3> QED BY <2>6, <3>1, JobsStart DEF DeleteRoster, WorkFits
    <2> QED BY <1>3, <2>1, <2>2, <2>3, <2>4, <2>5, <2>6 DEF RosterRequest
  <1>4. ASSUME NEW s \in Sessions, ReminderRequest(s) PROVE WorkFits'
    <2>1. CASE GenerateReminder(s) \/ ReminderDue(s) \/ SkipReminder(s) \/ DeleteReminder(s)
      BY <1>2, <2>1 DEF GenerateReminder, ReminderDue, SkipReminder, DeleteReminder
    <2>2. ASSUME NEW sends \in BOOLEAN, ApproveReminder(s, sends) PROVE WorkFits'
      BY <2>2, ApprovalFits DEF ApproveReminder
    <2>3. CASE SendReminder(s)
      BY <2>3, DispatchFits DEF SendReminder, Sendable, tables, Status
    <2> QED BY <1>4, <2>1, <2>2, <2>3 DEF ReminderRequest
  <1>5. ASSUME NEW s \in Sessions, CloseSession(s) PROVE WorkFits'
    BY <1>5, JobsStart DEF CloseSession, WorkFits
  <1>6. ASSUME NEW s \in Sessions, UpdateSession(s) PROVE WorkFits'
    BY <1>2, <1>6 DEF UpdateSession
  <1>7. CASE RosterApproved
    <2>1. /\ work.session \in Sessions /\ work.sends \in BOOLEAN
          /\ Status("roster", work.session) = "draft"
      BY <1>7 DEF RosterApproved, WorkFits, TypeOK, Work
    <2>2. Approved("roster", work.session, work.sends)
      BY <1>7 DEF RosterApproved
    <2> QED BY <2>1, <2>2, ApprovalFits
  <1>8. ASSUME NEW b \in Backends, DispatchSend(b) PROVE WorkFits'
    <2>1. work' = [work EXCEPT !.sending = b, !.success = work'.success] /\ disturbed \subseteq disturbed'
      BY <1>8 DEF DispatchSend, TypeOK, Work
    <2>2. /\ work'.pc = work.pc /\ work'.session = work.session /\ work'.kind = work.kind
          /\ work'.resend = work.resend /\ work'.todo = work.todo /\ work'.sending = b
      BY <2>1 DEF TypeOK, Work
    <2> QED BY <1>8, <2>1, <2>2 DEF DispatchSend, WorkFits, tables, Status
  <1>9. CASE DispatchCommit
    <2>1. /\ work'.pc = work.pc /\ work'.session = work.session /\ work'.kind = work.kind
          /\ work'.resend = work.resend /\ work'.sending = None
      BY <1>9 DEF DispatchCommit, TypeOK, Work
    <2> QED BY <1>9, <2>1 DEF DispatchCommit, WorkFits, tables, Status
  <1>10. CASE RosterSent
    <2>1. work.session \in Sessions /\ Status("roster", work.session) = "approved"
      BY <1>10 DEF RosterSent, Delivered, DispatchOver, WorkFits
    <2>2. logs["roster"][work.session] # None /\ SetStatus("roster", work.session, "sent")
      BY <1>10, <2>1 DEF RosterSent, Status
    <2>3. Status("roster", work.session)' = "sent"
      <3> HIDE DEF Kinds
      <3>1. "roster" \in Kinds /\ "sent" \in Statuses
        BY DEF Kinds, Statuses
      <3>2. BecomesLog("roster", work.session, "sent")
        BY <2>1, <2>2, <3>1, StatusSet
      <3> QED BY <3>2 DEF BecomesLog
    <2> QED BY <1>10, <2>1, <2>3, JobsStart DEF RosterSent, WorkFits
  <1>11. CASE DraftAfterClose \/ DispatchFailed \/ ReminderSent \/ Resent \/ Purge \/ Restart
    <2>1. IdleWork.pc = "idle" /\ IdleWork.sending = None
      BY DEF IdleWork
    <2> QED BY <1>0, <1>11, <2>1
        DEF DraftAfterClose, DispatchFailed, ReminderSent, Resent, Purge, Restart
  <1>12. ASSUME NEW r \in Retriers, RetryStep(r) PROVE WorkFits'
    BY <1>1, <1>12 DEF RetryStep, StartRetry, RetrySend, RetryCommit, RetryLocked, tables
  <1>13. CASE UNCHANGED vars
    BY <1>1, <1>13 DEF vars, tables
  <1> QED BY <1>3, <1>4, <1>5, <1>6, <1>7, <1>8, <1>9, <1>10, <1>11, <1>12, <1>13
      DEF Next, Handler
------------------------------------------------------------------------------
(* What a step does to the logs *)

\* A new draft, or one that was skipped.
Redrafted(k, s) ==
    /\ Status(k, s)' = "draft"
    /\ logs'[k][s] # None
    /\ \/ logs[k][s] # None /\ logs'[k][s].id = logs[k][s].id
       \/ \A t \in Sessions : t # s /\ logs[k][t] # None => logs[k][t].id < logs'[k][s].id

\* A log that stays where it was with another status.
Moved(k, s, status) ==
    /\ Status(k, s)' = status
    /\ logs[k][s] # None /\ logs'[k][s] # None /\ logs'[k][s].id = logs[k][s].id

\* A log that is deleted, drafted, skipped, or sent after a dispatch.
LogStep(k, s) ==
    /\ OnlyLog(k, s)
    /\ UNCHANGED <<sessions, rows, retries, accepted, disturbed>>
    /\ work'.pc # "dispatching"
    /\ \/ /\ work.pc # "dispatching"
          /\ Status(k, s)' = "none" \/ Redrafted(k, s) \/ Moved(k, s, "skipped")
       \/ /\ Moved(k, s, "sent")
          /\ Dispatched(k, s) /\ ~work.resend /\ work.ok /\ work.todo = {}

\* A dispatch that starts.
StartsDispatch(k, s) ==
    /\ work'.pc = "dispatching" /\ work'.kind = k /\ work'.session = s
    /\ work'.todo = Backends /\ work'.sending = None
    /\ ~work'.ok /\ ~work'.success /\ ~work'.resend

\* A log that is approved, and may go on to dispatch.
ApprovalStep(k, s) ==
    /\ OnlyLog(k, s)
    /\ Moved(k, s, "approved")
    /\ Status(k, s) = "draft"
    /\ k = "roster" => sessions[s].finalized
    /\ UNCHANGED <<sessions, rows, retries>>
    /\ accepted' = [accepted EXCEPT ![k][s] = [b \in Backends |-> 0]]
    /\ disturbed' = IF Retrying(k, s) THEN disturbed \cup {<<k, s>>} ELSE disturbed \ {<<k, s>>}
    /\ work.pc # "dispatching"
    /\ work'.pc = "idle" \/ StartsDispatch(k, s)

\* An approved log that is sent.
SendStep(k, s) ==
    /\ UNCHANGED <<logs, rows, retries, accepted, disturbed>>
    /\ work.pc # "dispatching"
    /\ Status(k, s) = "approved"
    /\ StartsDispatch(k, s)

\* Nothing about any content changes.
Quiet ==
    /\ UNCHANGED <<logs, rows, retries, accepted, disturbed>>
    /\ work.pc # "dispatching" /\ work'.pc # "dispatching"

\* Every step is one of these or one of the actions of a dispatch or a retry.
LEMMA Steps ==
    ASSUME TypeOK, WorkFits, [Next]_vars
    PROVE  \/ \E k \in Kinds, s \in Sessions :
                 LogStep(k, s) \/ ApprovalStep(k, s) \/ SendStep(k, s)
           \/ Quiet
           \/ \E s \in Sessions : ResendRoster(s)
           \/ \E b \in Backends : DispatchSend(b)
           \/ DispatchCommit \/ DispatchFailed \/ Resent \/ Restart
           \/ \E r \in Retriers : RetryStep(r)
           \/ UNCHANGED vars
  <1>0. "roster" \in Kinds /\ "reminder" \in Kinds /\ Statuses = {"draft", "approved", "sent", "skipped"}
    BY DEF Kinds, Statuses
  <1>1. ASSUME NEW k \in Kinds, NEW s \in Sessions, Drafted(k, s),
               UNCHANGED <<sessions, rows, retries, accepted, disturbed>>,
               work.pc # "dispatching", work'.pc # "dispatching"
        PROVE  Quiet \/ LogStep(k, s)
    BY <1>1, DraftAppears DEF Quiet, LogStep, Redrafted, BecomesLog
  <1>2. ASSUME NEW k \in Kinds, NEW s \in Sessions, Status(k, s) \in {"draft", "approved"},
               SetStatus(k, s, "skipped"), UNCHANGED <<sessions, rows, retries, accepted, disturbed>>,
               work.pc # "dispatching", work'.pc # "dispatching"
        PROVE  LogStep(k, s)
    <2>1. logs[k][s] # None
      BY <1>2 DEF Status
    <2> QED BY <1>0, <1>2, <2>1, StatusSet DEF LogStep, Moved, BecomesLog
  <1>3. ASSUME NEW k \in Kinds, NEW s \in Sessions, NEW sends \in BOOLEAN,
               Status(k, s) = "draft", Approved(k, s, sends), work.pc # "dispatching",
               k = "roster" => sessions[s].finalized, UNCHANGED <<sessions, rows, retries>>
        PROVE  ApprovalStep(k, s)
    <2>1. logs[k][s] # None
      BY <1>3 DEF Status
    <2> QED BY <1>3, <2>1, ApprovalFits DEF ApprovalStep, StartsDispatch, Moved, BecomesLog
  <1>4. ASSUME NEW k \in Kinds, NEW s \in Sessions, logs' = [logs EXCEPT ![k][s] = None],
               UNCHANGED <<sessions, rows, retries, accepted, disturbed>>,
               work.pc # "dispatching", work'.pc # "dispatching"
        PROVE  LogStep(k, s)
    <2>1. OnlyLog(k, s) /\ logs'[k][s] = None
      BY <1>4 DEF OnlyLog, TypeOK
    <2> QED BY <1>4, <2>1 DEF LogStep, Status
  <1>5. ASSUME NEW k \in Kinds, NEW s \in Sessions, Status(k, s) = "approved",
               work' = Dispatching(k, s), UNCHANGED <<logs, rows, retries, accepted, disturbed>>,
               work.pc # "dispatching"
        PROVE  SendStep(k, s)
    BY <1>5, JobsStart DEF SendStep, StartsDispatch
  <1>6. ASSUME NEW s \in Sessions, RosterRequest(s)
        PROVE  Quiet \/ LogStep("roster", s) \/ SendStep("roster", s) \/ ResendRoster(s)
    <2>1. CASE GenerateRoster(s) \/ RosterDue(s)
      BY <1>0, <1>1, <2>1 DEF GenerateRoster, RosterDue, LoopFree
    <2>2. ASSUME NEW sends \in BOOLEAN, ApproveRoster(s, sends) PROVE Quiet
      BY <2>2, JobsStart DEF ApproveRoster, Quiet, LoopFree
    <2>3. CASE SendRoster(s)
      BY <1>0, <1>5, <2>3 DEF SendRoster, Sendable, LoopFree, tables
    <2>4. CASE SkipRoster(s)
      <3>1. work'.pc = "purging" /\ work.pc = "idle"
        BY <2>4, JobsStart DEF SkipRoster, LoopFree
      <3> QED BY <1>0, <1>2, <2>4, <3>1 DEF SkipRoster
    <2>5. CASE DeleteRoster(s)
      <3>1. work'.pc = "purging" /\ work.pc = "idle"
        BY <2>5, JobsStart DEF DeleteRoster, LoopFree
      <3> QED BY <1>0, <1>4, <2>5, <3>1 DEF DeleteRoster
    <2> QED BY <1>6, <2>1, <2>2, <2>3, <2>4, <2>5 DEF RosterRequest
  <1>7. ASSUME NEW s \in Sessions, ReminderRequest(s)
        PROVE  \/ Quiet \/ LogStep("reminder", s)
               \/ ApprovalStep("reminder", s) \/ SendStep("reminder", s)
    <2>1. CASE GenerateReminder(s) \/ ReminderDue(s)
      BY <1>0, <1>1, <2>1 DEF GenerateReminder, ReminderDue, LoopFree
    <2>2. ASSUME NEW sends \in BOOLEAN, ApproveReminder(s, sends) PROVE ApprovalStep("reminder", s)
      BY <1>0, <1>3, <2>2 DEF ApproveReminder, LoopFree
    <2>3. CASE SendReminder(s)
      BY <1>0, <1>5, <2>3 DEF SendReminder, Sendable, LoopFree, tables
    <2>4. CASE SkipReminder(s)
      BY <1>0, <1>2, <2>4 DEF SkipReminder, LoopFree
    <2>5. CASE DeleteReminder(s)
      BY <1>0, <1>4, <2>5 DEF DeleteReminder, LoopFree
    <2> QED BY <1>7, <2>1, <2>2, <2>3, <2>4, <2>5 DEF ReminderRequest
  <1>8. CASE DraftAfterClose
    <2>1. work.session \in Sessions /\ work.pc = "drafting" /\ work'.pc = "idle"
      BY <1>8, JobsStart DEF DraftAfterClose, WorkFits
    <2> QED BY <1>0, <1>1, <1>8, <2>1 DEF DraftAfterClose
  <1>9. CASE RosterApproved
    <2>1. /\ work.session \in Sessions /\ work.sends \in BOOLEAN /\ work.pc = "approving"
          /\ Status("roster", work.session) = "draft" /\ sessions[work.session].finalized
      BY <1>9 DEF RosterApproved, WorkFits, TypeOK, Work
    <2> QED BY <1>0, <1>3, <1>9, <2>1 DEF RosterApproved
  <1>10. CASE RosterSent \/ ReminderSent
    <2>1. /\ work.pc = "dispatching" /\ work.ok /\ work.todo = {}
          /\ work.kind \in Kinds /\ work.session \in Sessions
          /\ SetStatus(work.kind, work.session, "sent")
          /\ UNCHANGED <<rows, retries, accepted, disturbed, sessions>>
      BY <1>10 DEF RosterSent, ReminderSent, Delivered, DispatchOver, WorkFits, TypeOK, Work
    <2>2. ~work.resend
      BY <1>10 DEF RosterSent, ReminderSent, Delivered, DispatchOver, WorkFits
    <2>3. logs[work.kind][work.session] # None
      BY <2>1, <2>2 DEF WorkFits, Status
    <2>4. work'.pc # "dispatching"
      BY <1>10, JobsStart DEF RosterSent, ReminderSent
    <2>5. BecomesLog(work.kind, work.session, "sent")
          /\ logs'[work.kind][work.session] # None
          /\ logs'[work.kind][work.session].id = logs[work.kind][work.session].id
      BY <1>0, <2>1, <2>3, StatusSet
    <2>6. LogStep(work.kind, work.session)
      BY <2>1, <2>2, <2>3, <2>4, <2>5 DEF LogStep, Moved, Dispatched, BecomesLog
    <2> QED BY <2>1, <2>6
  <1>11. ASSUME NEW s \in Sessions, CloseSession(s) \/ UpdateSession(s) PROVE Quiet
    BY <1>11, JobsStart DEF CloseSession, UpdateSession, Quiet, LoopFree
  <1>12. CASE Purge
    BY <1>12, JobsStart DEF Purge, Quiet
  <1> QED BY <1>0, <1>6, <1>7, <1>8, <1>9, <1>10, <1>11, <1>12 DEF Next, Handler

\* A step writes one log at most.
LEMMA LogSteps ==
    ASSUME TypeOK, WorkFits, [Next]_vars
    PROVE  UNCHANGED logs \/ \E k \in Kinds, s \in Sessions : LogStep(k, s) \/ ApprovalStep(k, s)
  <1>1. ASSUME NEW k \in Kinds, NEW s \in Sessions, SendStep(k, s) PROVE UNCHANGED logs
    BY <1>1 DEF SendStep
  <1>2. ASSUME Quiet PROVE UNCHANGED logs
    BY <1>2 DEF Quiet
  <1>3. ASSUME \/ \E s \in Sessions : ResendRoster(s)
               \/ \E b \in Backends : DispatchSend(b)
               \/ DispatchCommit \/ DispatchFailed \/ Resent \/ Restart
               \/ \E r \in Retriers : RetryStep(r)
               \/ UNCHANGED vars
        PROVE  UNCHANGED logs
    BY <1>3 DEF ResendRoster, DispatchSend, DispatchCommit, DispatchFailed, Resent, Restart,
       RetryStep, StartRetry, RetrySend, RetryCommit, RetryLocked, vars, tables
  <1> QED BY <1>1, <1>2, <1>3, Steps

\* Logs of a kind keep ids of their own.
LEMMA IdsKeep ==
    ASSUME TypeOK, TypeOK', WorkFits, OwnIds, [Next]_vars
    PROVE  OwnIds'
  <1>1. CASE UNCHANGED logs
    BY <1>1 DEF OwnIds
  <1>2. ASSUME NEW k \in Kinds, NEW s \in Sessions, LogStep(k, s) \/ ApprovalStep(k, s)
        PROVE  OwnIds'
    <2> SUFFICES ASSUME NEW l \in Kinds, NEW t \in Sessions, NEW u \in Sessions, t # u,
                        logs'[l][t] # None, logs'[l][u] # None
                 PROVE  logs'[l][t].id # logs'[l][u].id
      BY DEF OwnIds
    <2>1. CASE l # k \/ (t # s /\ u # s)
      BY <1>2, <2>1 DEF LogStep, ApprovalStep, OnlyLog, OwnIds
    <2>2. ASSUME NEW v \in Sessions, v # s, logs[k][v] # None, logs'[k][s] # None
          PROVE  logs[k][v].id # logs'[k][s].id
      <3>1. logs[k][v].id \in Nat
        BY <2>2, LogExists DEF Log, Ids
      <3>2. logs'[k][s].id \in Nat
        BY <2>2 DEF TypeOK, Log, Ids
      <3>3. \/ Redrafted(k, s)
            \/ logs[k][s] # None /\ logs'[k][s].id = logs[k][s].id
        <4>1. logs'[k][s] \in Log
          BY <2>2 DEF TypeOK
        <4>2. Status(k, s)' # "none"
          BY <2>2, <4>1 DEF Status, Log, Statuses
        <4> QED BY <1>2, <4>2 DEF LogStep, ApprovalStep, Moved
      <3>4. CASE logs[k][s] # None /\ logs'[k][s].id = logs[k][s].id
        BY <2>2, <3>4 DEF OwnIds
      <3>5. CASE \A w \in Sessions : w # s /\ logs[k][w] # None => logs[k][w].id < logs'[k][s].id
        BY <2>2, <3>1, <3>2, <3>5
      <3> QED BY <3>3, <3>4, <3>5 DEF Redrafted
    <2>3. CASE l = k /\ (t = s \/ u = s)
      BY <1>2, <2>2, <2>3 DEF LogStep, ApprovalStep, OnlyLog
    <2> QED BY <2>1, <2>3
  <1> QED BY <1>1, <1>2, LogSteps
------------------------------------------------------------------------------
(* Members, approvals and acceptances *)

\* What a backend took is forgotten only by an approval.
LEMMA AcceptedGrows ==
    ASSUME TypeOK, RetriesFit, WorkFits, [Next]_vars, NEW k \in Kinds, NEW s \in Sessions
    PROVE  \/ Status(k, s) = "draft" /\ Status(k, s)' = "approved"
           \/ \A b \in Backends : accepted'[k][s][b] >= accepted[k][s][b]
  <1>0. ASSUME UNCHANGED accepted
        PROVE  \A b \in Backends : accepted'[k][s][b] >= accepted[k][s][b]
    <2>1. \A b \in Backends : accepted[k][s][b] \in 0..2
      BY DEF TypeOK
    <2> QED BY <1>0, <2>1
  <1>1. ASSUME NEW l \in Kinds, NEW t \in Sessions, NEW c \in Backends, Takes(l, t, c)
        PROVE  \A b \in Backends : accepted'[k][s][b] >= accepted[k][s][b]
    <2> SUFFICES ASSUME NEW b \in Backends PROVE accepted'[k][s][b] >= accepted[k][s][b]
      OBVIOUS
    <2>1. accepted[k][s][b] \in 0..2
      BY DEF TypeOK
    <2>2. Saturated(accepted[k][s][b]) >= accepted[k][s][b]
      BY <2>1 DEF Saturated
    <2>3. \/ accepted'[k][s][b] = accepted[k][s][b]
          \/ accepted'[k][s][b] = Saturated(accepted[k][s][b])
      BY <1>1, TakeTyped
    <2> QED BY <2>1, <2>2, <2>3
  <1>2. ASSUME NEW l \in Kinds, NEW t \in Sessions, NEW sends \in BOOLEAN,
               Status(l, t) = "draft", Approved(l, t, sends)
        PROVE  \/ Status(k, s) = "draft" /\ Status(k, s)' = "approved"
               \/ \A b \in Backends : accepted'[k][s][b] >= accepted[k][s][b]
    <2>1. CASE l = k /\ t = s
      BY <1>2, <2>1, ApprovalFits DEF BecomesLog
    <2>2. CASE l # k \/ t # s
      <3>1. accepted' = [accepted EXCEPT ![l][t] = [b \in Backends |-> 0]]
        BY <1>2 DEF Approved
      <3>2. accepted'[k][s] = accepted[k][s]
        BY <2>2, <3>1 DEF TypeOK
      <3>3. \A b \in Backends : accepted[k][s][b] \in 0..2
        BY DEF TypeOK
      <3> QED BY <3>2, <3>3
    <2> QED BY <2>1, <2>2
  <1>3. ASSUME NEW t \in Sessions, NEW sends \in BOOLEAN, ApproveReminder(t, sends)
        PROVE  \/ Status(k, s) = "draft" /\ Status(k, s)' = "approved"
               \/ \A b \in Backends : accepted'[k][s][b] >= accepted[k][s][b]
    BY <1>2, <1>3 DEF ApproveReminder, Kinds
  <1>4. CASE RosterApproved
    <2>1. /\ work.session \in Sessions /\ work.sends \in BOOLEAN
          /\ Status("roster", work.session) = "draft"
          /\ Approved("roster", work.session, work.sends) /\ "roster" \in Kinds
      BY <1>4 DEF RosterApproved, WorkFits, TypeOK, Work, Kinds
    <2> QED BY <1>2, <2>1
  <1>5. ASSUME NEW b \in Backends, DispatchSend(b)
        PROVE  \A c \in Backends : accepted'[k][s][c] >= accepted[k][s][c]
    <2>1. work.kind \in Kinds /\ work.session \in Sessions
      BY <1>5 DEF DispatchSend, WorkFits, TypeOK, Work
    <2> QED BY <1>0, <1>1, <1>5, <2>1 DEF DispatchSend
  <1>6. ASSUME NEW r \in Retriers, RetryStep(r)
        PROVE  \A c \in Backends : accepted'[k][s][c] >= accepted[k][s][c]
    <2>1. ASSUME NEW b \in Backends, RetrySend(r, b)
          PROVE  \A c \in Backends : accepted'[k][s][c] >= accepted[k][s][c]
      <3>1. retries[r].kind \in Kinds /\ retries[r].session \in Sessions
        BY <2>1 DEF RetrySend, RetriesFit, TypeOK, Retry
      <3> QED BY <1>0, <1>1, <2>1, <3>1 DEF RetrySend
    <2> QED BY <1>0, <1>6, <2>1 DEF RetryStep, StartRetry, RetryCommit, RetryLocked
  <1>7. ASSUME NEW t \in Sessions, RosterRequest(t) PROVE UNCHANGED accepted
    BY <1>7 DEF RosterRequest, GenerateRoster, RosterDue, ApproveRoster, SendRoster,
       ResendRoster, SkipRoster, DeleteRoster
  <1>8. ASSUME NEW t \in Sessions, ReminderRequest(t),
               ~ \E sends \in BOOLEAN : ApproveReminder(t, sends)
        PROVE  UNCHANGED accepted
    BY <1>8 DEF ReminderRequest, GenerateReminder, ReminderDue, SendReminder, SkipReminder,
       DeleteReminder
  <1>9. ASSUME NEW t \in Sessions, CloseSession(t) \/ UpdateSession(t) PROVE UNCHANGED accepted
    BY <1>9 DEF CloseSession, UpdateSession
  <1>10. CASE \/ DraftAfterClose \/ DispatchCommit \/ DispatchFailed \/ RosterSent
              \/ ReminderSent \/ Resent \/ Purge \/ Restart \/ UNCHANGED vars
    BY <1>0, <1>10 DEF DraftAfterClose, DispatchCommit, DispatchFailed, RosterSent,
       ReminderSent, Resent, Purge, Restart, vars
  <1> QED BY <1>0, <1>3, <1>4, <1>5, <1>6, <1>7, <1>8, <1>9, <1>10 DEF Next, Handler

\* Members are credited by Finalize and nothing else, and it looks at the stamp.
LEMMA CountKeeps ==
    ASSUME TypeOK, CountedOnce, [Next]_vars
    PROVE  CountedOnce' /\ \A s \in Sessions : sessions[s].finalized => sessions'[s].finalized
  <1>1. ASSUME NEW s \in Sessions, Finalize(s)
        PROVE  CountedOnce' /\ \A t \in Sessions : sessions[t].finalized => sessions'[t].finalized
    <2>1. ~sessions[s].finalized => Saturated(credits[s]) = 1
      BY DEF CountedOnce, Saturated
    <2> QED BY <1>1, <2>1 DEF Finalize, CountedOnce, TypeOK
  <1>2. ASSUME NEW s \in Sessions, UpdateSession(s)
        PROVE  CountedOnce' /\ \A t \in Sessions : sessions[t].finalized => sessions'[t].finalized
    BY <1>2 DEF UpdateSession, CountedOnce, TypeOK
  <1>3. ASSUME UNCHANGED <<sessions, credits>>
        PROVE  CountedOnce' /\ \A t \in Sessions : sessions[t].finalized => sessions'[t].finalized
    BY <1>3 DEF CountedOnce
  <1>4. ASSUME NEW s \in Sessions, CloseSession(s) PROVE Finalize(s)
    BY <1>4 DEF CloseSession
  <1>5. ASSUME NEW s \in Sessions, RosterRequest(s) PROVE Finalize(s) \/ UNCHANGED <<sessions, credits>>
    BY <1>5 DEF RosterRequest, GenerateRoster, RosterDue, ApproveRoster, SendRoster,
       ResendRoster, SkipRoster, DeleteRoster, tables
  <1>6. ASSUME NEW s \in Sessions, ReminderRequest(s) PROVE UNCHANGED <<sessions, credits>>
    BY <1>6 DEF ReminderRequest, GenerateReminder, ReminderDue, ApproveReminder, SendReminder,
       SkipReminder, DeleteReminder, tables
  <1>7. ASSUME Handler \/ Restart \/ UNCHANGED vars \/ \E r \in Retriers : RetryStep(r)
        PROVE  UNCHANGED <<sessions, credits>>
    BY <1>7 DEF Handler, DraftAfterClose, RosterApproved, DispatchSend, DispatchCommit,
       DispatchFailed, RosterSent, ReminderSent, Resent, Purge, Restart, vars, RetryStep,
       StartRetry, RetrySend, RetryCommit, RetryLocked, tables
  <1> QED BY <1>1, <1>2, <1>3, <1>4, <1>5, <1>6, <1>7 DEF Next

\* A roster that becomes approved has a finalized session; no stamp is removed.
LEMMA ApprovedKeeps ==
    ASSUME TypeOK, WorkFits, CountedOnce, ApprovedIsCounted, [Next]_vars
    PROVE  ApprovedIsCounted'
  <1> SUFFICES ASSUME NEW s \in Sessions, Status("roster", s)' \in {"approved", "sent"}
               PROVE  sessions'[s].finalized
    BY DEF ApprovedIsCounted
  <1>0. "roster" \in Kinds
    BY DEF Kinds
  <1>1. CASE logs'["roster"][s] = logs["roster"][s]
    BY <1>1, CountKeeps DEF ApprovedIsCounted, Status
  <1>2. ASSUME LogStep("roster", s) PROVE sessions'[s].finalized
    <2>1. Dispatched("roster", s) /\ ~work.resend /\ UNCHANGED sessions
      BY <1>2 DEF LogStep, Redrafted, Moved
    <2>2. Status("roster", s) = "approved"
      BY <2>1 DEF WorkFits, Dispatched
    <2> QED BY <2>1, <2>2 DEF ApprovedIsCounted
  <1>3. ASSUME ApprovalStep("roster", s) PROVE sessions'[s].finalized
    BY <1>3 DEF ApprovalStep
  <1> QED BY <1>0, <1>1, <1>2, <1>3, LogSteps DEF LogStep, ApprovalStep, OnlyLog

------------------------------------------------------------------------------
(* Deliveries *)

\* Where a dispatch can be after a step.
LEMMA DispatchSteps ==
    ASSUME TypeOK, WorkFits, [Next]_vars, work'.pc = "dispatching"
    PROVE  \/ UNCHANGED work
           \/ work'.todo = Backends /\ work'.sending = None /\ ~work'.ok /\ ~work'.success
           \/ \E b \in Backends : DispatchSend(b)
           \/ DispatchCommit
  <1>1. ASSUME NEW k \in Kinds, NEW s \in Sessions, LogStep(k, s) PROVE FALSE
    BY <1>1 DEF LogStep
  <1>2. ASSUME NEW k \in Kinds, NEW s \in Sessions, ApprovalStep(k, s) \/ SendStep(k, s)
        PROVE  work'.todo = Backends /\ work'.sending = None /\ ~work'.ok /\ ~work'.success
    BY <1>2 DEF ApprovalStep, SendStep, StartsDispatch
  <1>3. ASSUME Quiet \/ DispatchFailed \/ Resent \/ Restart PROVE FALSE
    BY <1>3, JobsStart DEF Quiet, DispatchFailed, Resent, Restart
  <1>4. ASSUME NEW s \in Sessions, ResendRoster(s)
        PROVE  work'.todo = Backends /\ work'.sending = None /\ ~work'.ok /\ ~work'.success
    BY <1>4 DEF ResendRoster, Dispatching, IdleWork
  <1>5. ASSUME UNCHANGED vars \/ \E r \in Retriers : RetryStep(r) PROVE UNCHANGED work
    BY <1>5 DEF vars, RetryStep, StartRetry, RetrySend, RetryCommit, RetryLocked
  <1> QED BY <1>1, <1>2, <1>3, <1>4, <1>5, Steps

\* A success on record stays real, because nothing is forgotten meanwhile.
LEMMA SuccessKeeps ==
    ASSUME TypeOK, TypeOK', RetriesFit, WorkFits, SuccessIsReal, [Next]_vars
    PROVE  SuccessIsReal'
  <1> SUFFICES ASSUME work'.pc = "dispatching"
               PROVE  /\ work'.ok => \E b \in Backends : accepted'[work'.kind][work'.session][b] > 0
                      /\ work'.sending # None /\ work'.success =>
                            accepted'[work'.kind][work'.session][work'.sending] > 0
    BY DEF SuccessIsReal
  <1>1. CASE work'.todo = Backends /\ work'.sending = None /\ ~work'.ok /\ ~work'.success
    BY <1>1
  <1>2. ASSUME work.pc = "dispatching"
        PROVE  /\ work.kind \in Kinds /\ work.session \in Sessions
               /\ \A b \in Backends :
                     accepted'[work.kind][work.session][b] >= accepted[work.kind][work.session][b]
    <2>1. work.kind \in Kinds /\ work.session \in Sessions /\ Status(work.kind, work.session) # "draft"
      BY <1>2 DEF WorkFits, TypeOK, Work
    <2> QED BY <2>1, AcceptedGrows
  <1>3. ASSUME NEW k \in Kinds, NEW s \in Sessions, NEW b \in Backends
        PROVE  accepted[k][s][b] \in 0..2 /\ accepted'[k][s][b] \in 0..2
    BY DEF TypeOK
  <1>4. CASE UNCHANGED work
    <2>1. work.sending # None => work.sending \in Backends
      BY DEF TypeOK, Work
    <2> QED BY <1>2, <1>3, <1>4, <2>1 DEF SuccessIsReal
  <1>5. ASSUME NEW b \in Backends, DispatchSend(b)
        PROVE  /\ work'.ok => \E c \in Backends : accepted'[work'.kind][work'.session][c] > 0
               /\ work'.success => accepted'[work'.kind][work'.session][work'.sending] > 0
    <2>1. PICK took, success \in BOOLEAN :
              /\ success => took
              /\ IF took THEN Takes(work.kind, work.session, b) ELSE UNCHANGED accepted
              /\ work' = [work EXCEPT !.sending = b, !.success = success]
      BY <1>5 DEF DispatchSend
    <2>2. /\ work'.kind = work.kind /\ work'.session = work.session /\ work'.ok = work.ok
          /\ work'.sending = b /\ work'.success = success
      BY <2>1 DEF TypeOK, Work
    <2>3. work.kind \in Kinds /\ work.session \in Sessions /\ work.pc = "dispatching"
      BY <1>2, <1>5 DEF DispatchSend
    <2>4. success => accepted'[work.kind][work.session][b] = Saturated(accepted[work.kind][work.session][b])
      BY <2>1, <2>3, TakeTyped
    <2>5. Saturated(accepted[work.kind][work.session][b]) > 0
      BY <1>3, <2>3 DEF Saturated
    <2> QED BY <1>2, <1>3, <2>2, <2>3, <2>4, <2>5 DEF SuccessIsReal
  <1>6. CASE DispatchCommit
    <2>1. /\ work'.kind = work.kind /\ work'.session = work.session /\ work'.sending = None
          /\ work'.ok => work.ok \/ work.success
          /\ work.sending \in Backends /\ work.sending # None
          /\ work.pc = "dispatching" /\ UNCHANGED accepted
      BY <1>6 DEF DispatchCommit, TypeOK, Work
    <2>2. CASE work.ok
      BY <2>1, <2>2 DEF SuccessIsReal
    <2>3. CASE work.success
      BY <2>1, <2>3 DEF SuccessIsReal
    <2> QED BY <2>1, <2>2, <2>3
  <1>7. ASSUME NEW b \in Backends, DispatchSend(b) PROVE work'.sending = b
    BY <1>7 DEF DispatchSend, TypeOK, Work
  <1> QED BY <1>1, <1>4, <1>5, <1>6, DispatchSteps

\* A log becomes SENT after a dispatch that had a success, and is not approved again.
LEMMA SentKeeps ==
    ASSUME TypeOK, TypeOK', RetriesFit, WorkFits, SuccessIsReal, SentWasAccepted, [Next]_vars
    PROVE  SentWasAccepted'
  <1> SUFFICES ASSUME NEW k \in Kinds, NEW s \in Sessions, Status(k, s)' = "sent"
               PROVE  \E b \in Backends : accepted'[k][s][b] > 0
    BY DEF SentWasAccepted
  <1>1. ASSUME NEW b \in Backends
        PROVE  accepted[k][s][b] \in 0..2 /\ accepted'[k][s][b] \in 0..2
    BY DEF TypeOK
  <1>2. \A b \in Backends : accepted'[k][s][b] >= accepted[k][s][b]
    BY AcceptedGrows
  <1>3. CASE Status(k, s) = "sent"
    BY <1>1, <1>2, <1>3 DEF SentWasAccepted
  <1>4. CASE LogStep(k, s)
    <2>1. Dispatched(k, s) /\ work.ok
      BY <1>4 DEF LogStep, Redrafted, Moved
    <2> QED BY <1>1, <1>2, <2>1 DEF SuccessIsReal, Dispatched
  <1>6. ASSUME ApprovalStep(k, s) PROVE FALSE
    BY <1>6 DEF ApprovalStep, Moved
  <1>5. CASE logs'[k][s] = logs[k][s]
    BY <1>3, <1>5 DEF Status
  <1> QED BY <1>4, <1>5, <1>6, LogSteps DEF LogStep, ApprovalStep, OnlyLog

------------------------------------------------------------------------------
(* The ledger *)

\* What a step leaves as it was of one content.
Kept(k, s) ==
    /\ Status(k, s)' = Status(k, s)
    /\ \A b \in Backends : accepted'[k][s][b] = accepted[k][s][b]
    /\ Status(k, s) \in {"approved", "sent"} =>
          \A b \in Backends : RowTells(k, s, b) => RowTells(k, s, b)'

\* A content that is kept, and whose dispatch at most starts, stays in the ledger.
LEMMA LedgerIdle ==
    ASSUME NEW k \in Kinds, NEW s \in Sessions, InLedger(k, s), Kept(k, s), ~Dispatched(k, s),
           Dispatched(k, s)' => Status(k, s) = "approved" /\ work'.todo = Backends /\ work'.sending = None
    PROVE  InLedger(k, s)'
  BY DEF InLedger, Kept, Status

\* So does one whose handler waits.
LEMMA LedgerWaits ==
    ASSUME TypeOK, WorkFits, NEW k \in Kinds, NEW s \in Sessions,
           InLedger(k, s), Kept(k, s), UNCHANGED work
    PROVE  InLedger(k, s)'
  <1>1. work.todo \subseteq Backends /\ (work.sending # None => work.sending \in Backends)
    BY DEF TypeOK, Work
  <1>2. CASE ~Dispatched(k, s)
    BY <1>2, LedgerIdle DEF Dispatched
  <1>3. CASE Dispatched(k, s) /\ Status(k, s) \in {"approved", "sent"}
    BY <1>1, <1>3 DEF InLedger, Kept, Dispatched
  <1>4. Dispatched(k, s) => Status(k, s) \in {"approved", "sent"}
    BY DEF Dispatched, WorkFits
  <1> QED BY <1>2, <1>3, <1>4

\* A content whose log, rows and acceptances are untouched is kept.
LEMMA UntouchedKept ==
    ASSUME NEW k \in Kinds, NEW s \in Sessions, logs'[k][s] = logs[k][s],
           UNCHANGED <<rows, retries>>,
           \A b \in Backends : accepted'[k][s][b] = accepted[k][s][b]
    PROVE  Kept(k, s)
  BY DEF Kept, RowTells, Pending, Status

\* The steps that write a log.
LEMMA LogStepsInLedger ==
    ASSUME TypeOK, WorkFits, Ledger, NEW l \in Kinds, NEW t \in Sessions,
           LogStep(l, t) \/ ApprovalStep(l, t),
           NEW k \in Kinds, NEW s \in Sessions, <<k, s>> \notin disturbed'
    PROVE  InLedger(k, s)'
  <1>1. ASSUME <<k, s>> # <<l, t>> PROVE InLedger(k, s)'
    <2>1. InLedger(k, s)
      BY <1>1 DEF LogStep, ApprovalStep, Ledger
    <2>2. logs'[k][s] = logs[k][s] /\ UNCHANGED <<rows, retries>>
      BY <1>1 DEF LogStep, ApprovalStep, OnlyLog
    <2>3. \A b \in Backends : accepted'[k][s][b] = accepted[k][s][b]
      BY <1>1 DEF LogStep, ApprovalStep, TypeOK
    <2>4. Kept(k, s)
      BY <2>2, <2>3, UntouchedKept
    <2>5. ~Dispatched(k, s) /\ ~Dispatched(k, s)'
      BY <1>1 DEF LogStep, ApprovalStep, StartsDispatch, Dispatched
    <2> QED BY <2>1, <2>4, <2>5, LedgerIdle
  <1>2. CASE k = l /\ s = t /\ ApprovalStep(k, s)
    <2>1. \A b \in Backends : accepted'[k][s][b] = 0
      BY <1>2 DEF ApprovalStep, TypeOK
    <2>2. Status(k, s)' = "approved"
      BY <1>2 DEF ApprovalStep, Moved
    <2>3. Dispatched(k, s)' => work'.todo = Backends /\ work'.sending = None
      BY <1>2 DEF ApprovalStep, StartsDispatch, Dispatched
    <2> QED BY <2>1, <2>2, <2>3 DEF InLedger
  <1>3. CASE k = l /\ s = t /\ LogStep(k, s)
    <2>1. InLedger(k, s) /\ UNCHANGED <<rows, retries, accepted>> /\ ~Dispatched(k, s)'
      BY <1>3 DEF LogStep, Ledger, Dispatched
    <2>2. CASE Status(k, s)' \in {"none", "draft", "skipped"}
      BY <2>1, <2>2 DEF InLedger
    <2>3. CASE Moved(k, s, "sent") /\ Dispatched(k, s) /\ work.todo = {}
      <3>1. \A b \in Backends : RowTells(k, s, b)
        BY <2>1, <2>3 DEF InLedger
      <3>2. \A b \in Backends : RowTells(k, s, b)'
        BY <2>1, <2>3, <3>1 DEF RowTells, Pending, Moved
      <3> QED BY <2>1, <2>3, <3>2 DEF InLedger, Moved
    <2> QED BY <1>3, <2>2, <2>3 DEF LogStep, Redrafted, Moved
  <1> QED BY <1>1, <1>2, <1>3

\* A backend is called: what it takes, and says it took, is counted.
LEMMA SendInLedger ==
    ASSUME TypeOK, WorkFits, Ledger, NEW b \in Backends, DispatchSend(b),
           NEW k \in Kinds, NEW s \in Sessions, <<k, s>> \notin disturbed'
    PROVE  InLedger(k, s)'
  <1>1. PICK took, success \in BOOLEAN :
            /\ success => took
            /\ IF took THEN Takes(work.kind, work.session, b) ELSE UNCHANGED accepted
            /\ disturbed' = IF took /\ ~success
                            THEN disturbed \cup {<<work.kind, work.session>>} ELSE disturbed
            /\ work' = [work EXCEPT !.sending = b, !.success = success]
    BY DEF DispatchSend
  <1>2. /\ work.pc = "dispatching" /\ work.kind \in Kinds /\ work.session \in Sessions
        /\ work.sending = None /\ b \in work.todo /\ UNCHANGED <<logs, rows, retries>>
    BY DEF DispatchSend, TypeOK, Work, WorkFits, tables
  <1>3. InLedger(k, s)
    BY <1>1 DEF Ledger
  <1>4. /\ work'.kind = work.kind /\ work'.session = work.session /\ work'.ok = work.ok
        /\ work'.todo = work.todo /\ work'.pc = work.pc /\ work'.sending = b /\ work'.success = success
    BY <1>1 DEF TypeOK, Work
  <1>5. CASE ~Dispatched(k, s)
    <2>1. \A c \in Backends : accepted'[k][s][c] = accepted[k][s][c]
      BY <1>1, <1>2, <1>5, TakeTyped DEF Dispatched
    <2>2. Kept(k, s)
      BY <1>2, <2>1, UntouchedKept
    <2>3. ~Dispatched(k, s)'
      BY <1>4, <1>5 DEF Dispatched
    <2> QED BY <1>3, <2>2, <2>3, <1>5, LedgerIdle
  <1>6. CASE Dispatched(k, s)
    <2>1. accepted[k][s][b] = 0 /\ Saturated(0) = 1
      BY <1>2, <1>3, <1>6, NoneAssumption DEF InLedger, Saturated
    <2>2. \A c \in Backends : c # b => accepted'[k][s][c] = accepted[k][s][c]
      BY <1>1, <1>2, <1>6, TakeTyped DEF Dispatched
    <2>3. accepted'[k][s][b] = IF success THEN 1 ELSE 0
      <3>1. CASE took
        <4>1. success
          BY <1>1, <1>6, <3>1 DEF Dispatched
        <4>2. accepted'[k][s][b] = 1
          BY <1>1, <1>2, <1>6, <2>1, <3>1, TakeTyped DEF Dispatched
        <4> QED BY <4>1, <4>2
      <3>2. CASE ~took
        BY <1>1, <2>1, <3>2
      <3> QED BY <3>1, <3>2
    <2>4. \A c \in Backends : RowTells(k, s, c) /\ c # b => RowTells(k, s, c)'
      BY <1>2, <2>2 DEF RowTells, Pending
    <2>5. work.todo \subseteq Backends
      BY DEF TypeOK, Work
    <2>6. /\ Dispatched(k, s)'
          /\ Status(k, s)' = Status(k, s) /\ Status(k, s) # "sent"
      BY <1>1, <1>2, <1>4, <1>6 DEF Dispatched, Status, WorkFits
    <2>7. \A c \in Backends : accepted'[k][s][c] <= 1
      BY <1>3, <2>2, <2>3 DEF InLedger
    <2>8. \A c \in work'.todo : c # work'.sending => accepted'[k][s][c] = 0
      BY <1>2, <1>3, <1>4, <1>6, <2>2, <2>5, NoneAssumption DEF InLedger
    <2>9. accepted'[k][s][work'.sending] = IF work'.success THEN 1 ELSE 0
      BY <1>4, <2>3
    <2>10. \A c \in Backends \ work'.todo :
              RowTells(k, s, c)' /\ (accepted'[k][s][c] = 1 => work'.ok)
      BY <1>2, <1>3, <1>4, <1>6, <2>2, <2>4 DEF InLedger
    <2> QED BY <2>6, <2>7, <2>8, <2>9, <2>10 DEF InLedger
  <1> QED BY <1>5, <1>6

\* The outcome is recorded in the row of that log and no other: ids are its own.
LEMMA CommitInLedger ==
    ASSUME TypeOK, WorkFits, OwnIds, Ledger, DispatchCommit,
           NEW k \in Kinds, NEW s \in Sessions, <<k, s>> \notin disturbed'
    PROVE  InLedger(k, s)'
  <1>0. PICK b, i : b = work.sending /\ i = logs[work.kind][work.session].id
    OBVIOUS
  <1>1. /\ work.pc = "dispatching" /\ work.kind \in Kinds /\ work.session \in Sessions
        /\ b \in Backends /\ b # None /\ UNCHANGED <<logs, retries, accepted, disturbed>>
    BY <1>0 DEF DispatchCommit, TypeOK, Work, WorkFits, tables
  <1>2. logs[work.kind][work.session] # None
    BY <1>1 DEF WorkFits, Status, TypeOK, Work
  <1>3. i \in Ids
    BY <1>0, <1>1, <1>2, LogExists DEF Log
  <1>4. Outcome \in RowStatus /\ Records(work.kind, i, b, Outcome)
    BY <1>0 DEF DispatchCommit, Outcome, RowStatus
  <1>5. rows'[work.kind][i][b] = Outcome
    BY <1>1, <1>3, <1>4, RowTyped
  <1>6. \A l \in Kinds, j \in Ids, c \in Backends :
           <<l, j, c>> # <<work.kind, i, b>> => rows'[l][j][c] = rows[l][j][c]
    BY <1>1, <1>3, <1>4, RowTyped
  <1>7. InLedger(k, s)
    BY <1>1 DEF Ledger
  <1>8. /\ work'.kind = work.kind /\ work'.session = work.session /\ work'.pc = work.pc
        /\ work'.todo = work.todo \ {b} /\ work'.sending = None
        /\ work.ok \/ work.success => work'.ok
    BY <1>0 DEF DispatchCommit, TypeOK, Work
  <1>9. CASE ~Dispatched(k, s)
    <2>1. ASSUME logs[k][s] # None, NEW c \in Backends, RowTells(k, s, c) PROVE RowTells(k, s, c)'
      <3>1. logs[k][s].id \in Ids /\ <<k, logs[k][s].id>> # <<work.kind, i>>
        BY <1>0, <1>1, <1>2, <1>9, <2>1, LogExists DEF OwnIds, Dispatched, Log
      <3>2. rows'[k][logs[k][s].id][c] = rows[k][logs[k][s].id][c]
        BY <1>6, <3>1
      <3> QED BY <1>1, <2>1, <3>2 DEF RowTells, Pending
    <2>2. Kept(k, s)
      BY <1>1, <2>1 DEF Kept, Status
    <2>3. ~Dispatched(k, s)'
      BY <1>8, <1>9 DEF Dispatched
    <2> QED BY <1>7, <1>9, <2>2, <2>3, LedgerIdle
  <1>10. CASE Dispatched(k, s)
    <2>0. k = work.kind /\ s = work.session /\ logs[k][s].id = i
      BY <1>0, <1>10 DEF Dispatched
    <2>1. accepted[k][s][b] = IF work.success THEN 1 ELSE 0
      BY <1>0, <1>1, <1>7, <1>10 DEF InLedger
    <2>2. RowTells(k, s, b)'
      <3>1. CASE work.success
        BY <1>1, <1>5, <2>0, <2>1, <3>1 DEF RowTells, Outcome
      <3>2. CASE ~work.success
        BY <1>1, <1>5, <2>0, <2>1, <3>2 DEF RowTells, Outcome
      <3> QED BY <3>1, <3>2
    <2>3. \A c \in Backends : c # b /\ RowTells(k, s, c) => RowTells(k, s, c)'
      BY <1>1, <1>3, <1>6, <2>0 DEF RowTells, Pending
    <2>4. accepted[k][s][b] = 1 => work'.ok
      BY <1>8, <2>1
    <2>5. \A c \in Backends \ work'.todo :
             RowTells(k, s, c)' /\ (accepted'[k][s][c] = 1 => work'.ok)
      <3>1. ASSUME NEW c \in Backends, c \notin work.todo
            PROVE  RowTells(k, s, c) /\ (accepted[k][s][c] = 1 => work.ok)
        BY <1>7, <1>10, <3>1 DEF InLedger
      <3>2. b \in work.todo
        BY <1>0, <1>1 DEF WorkFits
      <3> QED BY <1>1, <1>8, <2>2, <2>3, <2>4, <3>1, <3>2
    <2>6. \A c \in work'.todo : accepted'[k][s][c] = 0
      BY <1>0, <1>1, <1>7, <1>8, <1>10 DEF InLedger
    <2>7. Dispatched(k, s)' /\ Status(k, s)' = Status(k, s) /\ Status(k, s) # "sent"
      BY <1>1, <1>8, <1>10 DEF Dispatched, Status, WorkFits
    <2>8. \A c \in Backends : accepted'[k][s][c] <= 1
      BY <1>1, <1>7 DEF InLedger
    <2> QED BY <1>8, <2>5, <2>6, <2>7, <2>8 DEF InLedger
  <1> QED BY <1>9, <1>10

\* A retry of a sent content sends what no backend took; its row tells it as soon
\* as it is committed.  Other contents have other rows, or none that matter.
LEMMA RetryInLedger ==
    ASSUME TypeOK, RetriesFit, WorkFits, Ledger, Alone, NEW r \in Retriers, RetryStep(r),
           NEW k \in Kinds, NEW s \in Sessions, <<k, s>> \notin disturbed'
    PROVE  InLedger(k, s)'
  <1>1. UNCHANGED <<logs, work>> /\ <<k, s>> \notin disturbed
    BY DEF RetryStep, StartRetry, RetrySend, RetryCommit, RetryLocked, tables
  <1>2. InLedger(k, s) /\ Status(k, s)' = Status(k, s)
    BY <1>1 DEF Ledger, Status
  <1>3. ASSUME UNCHANGED <<rows, accepted>>,
               \A b \in Backends : Pending(k, s, b) => Pending(k, s, b)'
        PROVE  InLedger(k, s)'
    <2>1. Kept(k, s)
      BY <1>1, <1>2, <1>3 DEF Kept, RowTells
    <2> QED BY <1>1, <1>2, <2>1, LedgerWaits
  \* The other retries wait on.
  <1>4. ASSUME NEW new, retries' = [retries EXCEPT ![r] = new], NEW b \in Backends,
               ~(retries[r].kind = k /\ retries[r].session = s /\ retries[r].sending = b
                 /\ retries[r].success)
        PROVE  Pending(k, s, b) => Pending(k, s, b)'
    BY <1>4 DEF Pending, TypeOK
  <1>5. ASSUME NEW l \in Kinds, NEW t \in Sessions, StartRetry(r, l, t) PROVE InLedger(k, s)'
    <2>1. \A b \in Backends : retries[r].sending # b
      BY <1>5, NoneAssumption DEF StartRetry, RetriesFit
    <2> QED BY <1>3, <1>4, <1>5, <2>1 DEF StartRetry
  <1>6. CASE RetryLocked(r)
    <2>1. ~(retries[r].success /\ <<k, s>> = <<retries[r].kind, retries[r].session>>)
      BY <1>6 DEF RetryLocked, Unrecorded, Content
    <2> QED BY <1>3, <1>4, <1>6, <2>1 DEF RetryLocked
  <1>7. ASSUME NEW b \in Backends, RetrySend(r, b) PROVE InLedger(k, s)'
    <2>1. PICK took, success \in BOOLEAN :
              /\ success => took
              /\ IF took THEN Takes(retries[r].kind, retries[r].session, b) ELSE UNCHANGED accepted
              /\ disturbed' = IF took /\ ~success
                              THEN disturbed \cup {<<retries[r].kind, retries[r].session>>}
                              ELSE disturbed
              /\ retries' = [retries EXCEPT ![r] =
                                [retries[r] EXCEPT !.sending = b, !.success = success]]
      BY <1>7 DEF RetrySend, TypeOK
    <2>2. /\ retries[r].kind \in Kinds /\ retries[r].session \in Sessions /\ retries[r] \in Retry
          /\ retries[r].pc = "running" /\ retries[r].sending = None /\ b \in retries[r].todo
          /\ UNCHANGED rows
      BY <1>7 DEF RetrySend, RetriesFit, TypeOK, Retry
    <2>3. \A c \in Backends : Pending(k, s, c) => Pending(k, s, c)'
      BY <1>4, <2>1, <2>2, NoneAssumption
    <2>4. CASE <<k, s>> # <<retries[r].kind, retries[r].session>>
      <3>1. \A c \in Backends : accepted'[k][s][c] = accepted[k][s][c]
        BY <2>1, <2>2, <2>4, TakeTyped
      <3>2. Kept(k, s)
        BY <1>1, <1>2, <2>2, <2>3, <3>1 DEF Kept, RowTells
      <3> QED BY <1>1, <1>2, <3>2, LedgerWaits
    <2>5. CASE ~took
      BY <1>3, <2>1, <2>2, <2>3, <2>5
    <2>6. CASE took /\ k = retries[r].kind /\ s = retries[r].session
      <3>1. success
        BY <2>1, <2>6
      <3>2. RetryFits(r, k, s)
        BY <1>1, <2>2, <2>6 DEF Alone, Concerns
      <3>3. accepted[k][s][b] = 0 /\ Saturated(0) = 1
        BY <2>2, <2>6, <3>2, NoneAssumption DEF RetryFits, Saturated
      <3>4. accepted'[k][s][b] = 1
        BY <2>1, <2>2, <2>6, <3>3, TakeTyped
      <3>5. \A c \in Backends : c # b => accepted'[k][s][c] = accepted[k][s][c]
        BY <2>1, <2>2, <2>6, TakeTyped
      <3>6. Pending(k, s, b)'
        BY <2>1, <2>2, <2>6, <3>1 DEF Pending, TypeOK, Retry
      <3>7. Status(k, s)' # "approved" /\ ~Dispatched(k, s)'
        BY <1>1, <1>2, <3>2 DEF RetryFits, Dispatched, WorkFits
      <3>8. \A c \in Backends : accepted'[k][s][c] <= 1
        BY <1>2, <3>4, <3>5 DEF InLedger
      <3>9. \A c \in Backends : RowTells(k, s, c) => RowTells(k, s, c)'
        BY <1>1, <2>2, <2>3, <3>5, <3>6 DEF RowTells
      <3> QED BY <1>2, <3>7, <3>8, <3>9 DEF InLedger
    <2> QED BY <2>4, <2>5, <2>6
  <1>8. CASE RetryCommit(r)
    <2>1. retries[r].kind \in Kinds /\ retries[r].id \in Ids /\ retries[r].sending \in Backends
          /\ retries[r].pc = "running" /\ retries[r].sending \in retries[r].todo
      BY <1>8 DEF RetryCommit, RetriesFit, TypeOK, Retry
    <2>2. /\ IF retries[r].success
              THEN Records(retries[r].kind, retries[r].id, retries[r].sending, "delivered")
              ELSE UNCHANGED rows
          /\ UNCHANGED accepted
          /\ \E new : retries' = [retries EXCEPT ![r] = new]
      BY <1>8 DEF RetryCommit
    <2>3. ASSUME Status(k, s) \in {"approved", "sent"}, NEW c \in Backends, RowTells(k, s, c)
          PROVE  RowTells(k, s, c)'
      <3>1. logs[k][s] # None /\ logs[k][s].id \in Ids
        BY <2>3, LogExists DEF Log
      <3>2. CASE Concerns(r, k, s) /\ c = retries[r].sending
        <4>1. retries[r].session = s /\ retries[r].id = logs[k][s].id /\ RetryFits(r, k, s)
          BY <1>1, <2>3, <3>2 DEF Alone, RetryFits
        <4>2. CASE retries[r].success
          <5>1. accepted[k][s][c] = 1
            BY <2>1, <3>2, <4>1, <4>2 DEF RetryFits
          <5>2. rows'[k][logs[k][s].id][c] = "delivered"
            BY <2>1, <2>2, <3>2, <4>1, <4>2, RowTyped DEF RowStatus, Concerns
          <5> QED BY <1>1, <2>2, <5>1, <5>2 DEF RowTells
        <4>3. CASE ~retries[r].success
          <5>1. Pending(k, s, c) => Pending(k, s, c)'
            BY <1>4, <2>2, <4>3
          <5> QED BY <1>1, <2>2, <2>3, <4>3, <5>1 DEF RowTells
        <4> QED BY <4>2, <4>3
      <3>3. CASE ~Concerns(r, k, s) \/ c # retries[r].sending
        <4>1. Pending(k, s, c) => Pending(k, s, c)'
          BY <1>4, <2>1, <2>2, <3>3 DEF Concerns
        <4>2. rows'[k][logs[k][s].id][c] = rows[k][logs[k][s].id][c]
          BY <2>1, <2>2, <3>1, <3>3, RowTyped DEF RowStatus, Concerns
        <4> QED BY <1>1, <2>2, <2>3, <4>1, <4>2 DEF RowTells
      <3> QED BY <3>2, <3>3
    <2>4. Kept(k, s)
      BY <1>2, <2>2, <2>3 DEF Kept
    <2> QED BY <1>1, <1>2, <2>4, LedgerWaits
  <1> QED BY <1>5, <1>6, <1>7, <1>8 DEF RetryStep

\* Every step keeps the ledger.
LEMMA LedgerKeeps ==
    ASSUME TypeOK, RetriesFit, WorkFits, OwnIds, Ledger, Alone, [Next]_vars
    PROVE  Ledger'
  <1> SUFFICES ASSUME NEW k \in Kinds, NEW s \in Sessions, <<k, s>> \notin disturbed'
               PROVE  InLedger(k, s)'
    BY DEF Ledger
  <1>1. ASSUME InLedger(k, s), ~Dispatched(k, s), UNCHANGED <<logs, rows, retries, accepted>>,
               Dispatched(k, s)' => Status(k, s) = "approved" /\ work'.todo = Backends /\ work'.sending = None
        PROVE  InLedger(k, s)'
    BY <1>1, UntouchedKept, LedgerIdle
  <1>2. ASSUME NEW l \in Kinds, NEW t \in Sessions, SendStep(l, t) PROVE InLedger(k, s)'
    BY <1>1, <1>2 DEF SendStep, StartsDispatch, Dispatched, Ledger
  <1>3. CASE Quiet
    BY <1>1, <1>3 DEF Quiet, Dispatched, Ledger
  <1>4. ASSUME NEW t \in Sessions, ResendRoster(t) PROVE InLedger(k, s)'
    <2>1. work'.kind = "roster" /\ work'.session = t
      BY <1>4 DEF ResendRoster, Dispatching, IdleWork
    <2> QED BY <1>1, <1>4, <2>1 DEF ResendRoster, LoopFree, Dispatched, Ledger, tables
  <1>5. CASE DispatchFailed
    <2>1. /\ work'.pc = "idle" /\ UNCHANGED <<logs, rows, retries, accepted, disturbed>>
          /\ ~work.ok /\ work.todo = {} /\ work.pc = "dispatching"
      BY <1>5, JobsStart DEF DispatchFailed, DispatchOver, tables
    <2>2. InLedger(k, s) /\ ~Dispatched(k, s)'
      BY <2>1 DEF Ledger, Dispatched
    <2>3. CASE Dispatched(k, s)
      <3>1. \A b \in Backends : accepted[k][s][b] = 0
        <4> SUFFICES ASSUME NEW b \in Backends PROVE accepted[k][s][b] = 0
          OBVIOUS
        <4>1. accepted[k][s][b] \in 0..2
          BY DEF TypeOK
        <4> QED BY <2>1, <2>2, <2>3, <4>1 DEF InLedger
      <3>2. Status(k, s)' = "approved"
        BY <2>1, <2>3 DEF Dispatched, WorkFits, Status
      <3> QED BY <2>1, <2>2, <3>1, <3>2 DEF InLedger
    <2> QED BY <1>1, <2>1, <2>2, <2>3
  <1>6. CASE Resent
    <2>1. /\ work'.pc = "idle" /\ UNCHANGED <<logs, rows, retries, accepted, disturbed>>
          /\ work.resend /\ work.pc = "dispatching"
      BY <1>6, JobsStart DEF Resent, Delivered, DispatchOver, tables
    <2>2. ~Dispatched(k, s) /\ ~Dispatched(k, s)'
      BY <2>1 DEF WorkFits, Dispatched
    <2> QED BY <1>1, <2>1, <2>2 DEF Ledger
  <1>7. CASE Restart
    <2>1. /\ work'.pc = "idle" /\ UNCHANGED <<logs, rows, accepted>>
          /\ <<k, s>> \notin disturbed /\ ~Dispatched(k, s)
      BY <1>7, JobsStart DEF Restart, Dispatched, Content, tables
    <2>2. \A b \in Backends : ~Pending(k, s, b)
      BY <1>7 DEF Restart, Unrecorded, Pending, Content
    <2>3. Kept(k, s)
      BY <2>1, <2>2 DEF Kept, RowTells, Status
    <2> QED BY <2>1, <2>3, LedgerIdle DEF Ledger, Dispatched
  <1>8. CASE UNCHANGED vars
    BY <1>8, UntouchedKept, LedgerWaits DEF vars, tables, Ledger
  <1> QED BY <1>2, <1>3, <1>4, <1>5, <1>6, <1>7, <1>8, Steps,
      LogStepsInLedger, SendInLedger, CommitInLedger, RetryInLedger

\* A step that leaves the retries and one content's log and acceptances as they
\* were leaves what the retries count on about it.
LEMMA FitsKeeps ==
    ASSUME NEW r \in Retriers, NEW k \in Kinds, NEW s \in Sessions, UNCHANGED retries,
           logs'[k][s] = logs[k][s], accepted'[k][s] = accepted[k][s],
           Concerns(r, k, s) => RetryFits(r, k, s)
    PROVE  Concerns(r, k, s)' => RetryFits(r, k, s)'
  BY DEF Concerns, RetryFits, Status

\* A retry goes on with what it is about, or ends.
GoesOn(r) ==
    retries'[r].pc = "running" =>
        /\ retries[r].pc = "running" /\ retries'[r].kind = retries[r].kind
        /\ retries'[r].session = retries[r].session /\ retries'[r].id = retries[r].id

\* What is left to send was taken by nobody, what is being sent as often as said.
Repeats(r, k, s) ==
    \A b \in retries[r].todo :
        accepted[k][s][b] = IF b = retries[r].sending /\ retries[r].success THEN 1 ELSE 0

\* A retry that starts, sends or commits keeps alone.
LEMMA RetryAlone ==
    ASSUME TypeOK, RetriesFit, OwnIds, Ledger, Alone, NEW p \in Retriers, RetryStep(p),
           NEW k \in Kinds, NEW s \in Sessions, <<k, s>> \notin disturbed',
           NEW r \in Retriers, Concerns(r, k, s)'
    PROVE  RetryFits(r, k, s)'
  <1>1. UNCHANGED logs /\ <<k, s>> \notin disturbed
    BY DEF RetryStep, StartRetry, RetrySend, RetryCommit, RetryLocked, tables
  <1>2. Status(k, s)' = Status(k, s)
    BY <1>1 DEF Status
  <1>3. \A q \in Retriers : Concerns(q, k, s) => RetryFits(q, k, s)
    BY <1>1 DEF Alone
  <1>4. \A b \in Backends : accepted[k][s][b] \in 0..2
    BY DEF TypeOK
  <1>5. ASSUME \A q \in Retriers : GoesOn(q),
               Concerns(r, k, s) /\ RetryFits(r, k, s) /\ retries[r].session = s
                  => Repeats(r, k, s)'
        PROVE  RetryFits(r, k, s)'
    <2>1. /\ Concerns(r, k, s) /\ retries'[r].session = retries[r].session
          /\ retries'[r].id = retries[r].id /\ retries'[r].kind = retries[r].kind
      BY <1>1, <1>5 DEF Concerns, GoesOn
    <2>2. RetryFits(r, k, s)
      BY <1>3, <2>1
    <2>3. retries[r].session = s =>
             \A q \in Retriers : retries'[q].pc = "running" /\ retries'[q].kind = k
                                /\ retries'[q].session = s => q = r
      BY <1>5, <2>1, <2>2 DEF RetryFits, GoesOn, Concerns
    <2> QED BY <1>1, <1>2, <1>5, <2>1, <2>2, <2>3 DEF RetryFits, Repeats
  <1>6. CASE RetryLocked(p)
    <2>1. retries' = [retries EXCEPT ![p] = IdleRetry] /\ IdleRetry.pc = "idle" /\ UNCHANGED accepted
      BY <1>6 DEF RetryLocked, IdleRetry
    <2>2. r # p
      BY <2>1 DEF Concerns, TypeOK
    <2>3. \A q \in Retriers : q # p => retries'[q] = retries[q]
      BY <2>1 DEF TypeOK
    <2>4. retries'[p].pc = "idle"
      BY <2>1 DEF TypeOK
    <2>5. \A q \in Retriers : GoesOn(q)
      BY <2>3, <2>4 DEF GoesOn
    <2>6. RetryFits(r, k, s) /\ retries[r].session = s => Repeats(r, k, s)'
      BY <2>1, <2>2, <2>3 DEF RetryFits, Repeats
    <2> QED BY <1>5, <2>5, <2>6
  <1>7. CASE RetryCommit(p)
    <2> DEFINE next == [retries[p] EXCEPT !.todo = @ \ {retries[p].sending},
                                          !.sending = None, !.success = FALSE]
    <2>1. /\ retries' = [retries EXCEPT ![p] = IF retries[p].todo = {retries[p].sending}
                                               THEN IdleRetry ELSE next]
          /\ UNCHANGED accepted
          /\ retries[p].pc = "running"
      BY <1>7 DEF RetryCommit, RetriesFit, TypeOK, Retry
    <2>2. /\ next.todo = retries[p].todo \ {retries[p].sending} /\ ~next.success
          /\ next.kind = retries[p].kind /\ next.session = retries[p].session
          /\ next.id = retries[p].id /\ next.pc = retries[p].pc /\ IdleRetry.pc = "idle"
      BY DEF IdleRetry, TypeOK, Retry
    <2> HIDE DEF next
    <2>3. \A q \in Retriers : q # p => retries'[q] = retries[q]
      BY <2>1 DEF TypeOK
    <2>4. retries'[p] = next \/ retries'[p].pc = "idle"
      BY <2>1, <2>2 DEF TypeOK
    <2>5. \A q \in Retriers : GoesOn(q)
      BY <2>1, <2>2, <2>3, <2>4 DEF GoesOn
    <2>6. CASE r # p
      <3>1. RetryFits(r, k, s) /\ retries[r].session = s => Repeats(r, k, s)'
        BY <2>1, <2>3, <2>6 DEF RetryFits, Repeats
      <3> QED BY <1>5, <2>5, <3>1
    <2>7. CASE r = p
      <3>1. retries'[r] = next
        BY <2>4, <2>7 DEF Concerns
      <3>2. RetryFits(r, k, s) /\ retries[r].session = s => Repeats(r, k, s)'
        BY <2>1, <2>2, <2>7, <3>1 DEF RetryFits, Repeats
      <3> QED BY <1>5, <2>5, <3>2
    <2> QED BY <2>6, <2>7
  <1>8. ASSUME NEW b \in Backends, RetrySend(p, b) PROVE RetryFits(r, k, s)'
    <2>1. PICK took, success \in BOOLEAN :
              /\ success => took
              /\ IF took THEN Takes(retries[p].kind, retries[p].session, b) ELSE UNCHANGED accepted
              /\ disturbed' = IF took /\ ~success
                              THEN disturbed \cup {<<retries[p].kind, retries[p].session>>}
                              ELSE disturbed
              /\ retries' = [retries EXCEPT ![p] =
                                [retries[p] EXCEPT !.sending = b, !.success = success]]
      BY <1>8 DEF RetrySend, TypeOK
    <2>2. /\ retries[p].kind \in Kinds /\ retries[p].session \in Sessions /\ retries[p] \in Retry
          /\ retries[p].pc = "running" /\ retries[p].sending = None /\ b \in retries[p].todo
      BY <1>8 DEF RetrySend, RetriesFit, TypeOK, Retry
    <2>3. /\ retries'[p].kind = retries[p].kind /\ retries'[p].session = retries[p].session
          /\ retries'[p].id = retries[p].id /\ retries'[p].todo = retries[p].todo
          /\ retries'[p].sending = b /\ retries'[p].success = success
          /\ \A q \in Retriers : q # p => retries'[q] = retries[q]
      BY <2>1, <2>2 DEF TypeOK, Retry
    <2>4. ASSUME <<k, s>> # <<retries[p].kind, retries[p].session>>, NEW c \in Backends
          PROVE  accepted'[k][s][c] = accepted[k][s][c]
      BY <2>1, <2>2, <2>4, TakeTyped
    <2>5. retries[r].todo \subseteq Backends
      BY DEF TypeOK, Retry
    <2>6. \A q \in Retriers : GoesOn(q)
      BY <2>2, <2>3 DEF GoesOn
    <2>7. CASE r # p
      <3>1. ASSUME RetryFits(r, k, s), retries[r].session = s PROVE Repeats(r, k, s)'
        <4>1. <<k, s>> # <<retries[p].kind, retries[p].session>>
          BY <2>2, <2>7, <3>1 DEF RetryFits
        <4> QED BY <2>3, <2>4, <2>5, <2>7, <3>1, <4>1 DEF RetryFits, Repeats
      <3> QED BY <1>5, <2>6, <3>1
    <2>8. CASE r = p
      <3>1. ASSUME Concerns(r, k, s), RetryFits(r, k, s), retries[r].session = s,
                   NEW c \in retries'[r].todo
            PROVE  accepted'[k][s][c] =
                      IF c = retries'[r].sending /\ retries'[r].success THEN 1 ELSE 0
        <4>1. k = retries[p].kind /\ s = retries[p].session /\ c \in Backends /\ c # None
          BY <2>3, <2>5, <2>8, <3>1, NoneAssumption DEF Concerns
        <4>2. accepted[k][s][c] = 0
          BY <2>2, <2>3, <2>8, <3>1, <4>1 DEF RetryFits
        <4>3. CASE c = b /\ took
          <5>1. success
            BY <1>1, <2>1, <4>1, <4>3
          <5>2. accepted'[k][s][c] = Saturated(0)
            BY <2>1, <2>2, <4>1, <4>2, <4>3, TakeTyped
          <5>3. c = retries'[r].sending /\ retries'[r].success
            BY <2>1, <2>2, <2>8, <4>3, <5>1 DEF TypeOK, Retry
          <5> QED BY <5>2, <5>3 DEF Saturated
        <4>4. CASE c # b \/ ~took
          <5>1. accepted'[k][s][c] = accepted[k][s][c]
            BY <2>1, <2>2, <4>1, <4>4, TakeTyped
          <5>2. ~(c = retries'[r].sending /\ retries'[r].success)
            BY <2>1, <2>2, <2>8, <4>4 DEF TypeOK, Retry
          <5> QED BY <4>2, <5>1, <5>2
        <4> QED BY <4>3, <4>4
      <3>2. Concerns(r, k, s) /\ RetryFits(r, k, s) /\ retries[r].session = s => Repeats(r, k, s)'
        BY <3>1 DEF Repeats
      <3> QED BY <1>5, <2>6, <3>2
    <2> QED BY <2>7, <2>8
  <1>9. ASSUME NEW l \in Kinds, NEW t \in Sessions, StartRetry(p, l, t)
        PROVE  RetryFits(r, k, s)'
    <2>1. /\ retries' = [retries EXCEPT ![p] =
                [pc |-> "running", kind |-> l, session |-> t, id |-> logs[l][t].id,
                 todo |-> FailedBackends(l, t), sending |-> None, success |-> FALSE]]
          /\ disturbed' = IF Status(l, t) # "sent" \/ Retrying(l, t)
                          THEN disturbed \cup {<<l, t>>} ELSE disturbed
          /\ logs[l][t] # None /\ retries[p].pc = "idle" /\ UNCHANGED accepted
      BY <1>9 DEF StartRetry
    <2>2. /\ retries'[p].kind = l /\ retries'[p].session = t /\ retries'[p].id = logs[l][t].id
          /\ retries'[p].todo = FailedBackends(l, t) /\ ~retries'[p].success
          /\ \A q \in Retriers : q # p => retries'[q] = retries[q]
      BY <2>1 DEF TypeOK
    <2>3. CASE r # p
      <3>1. Concerns(r, k, s) /\ retries'[r] = retries[r]
        BY <1>1, <2>2, <2>3 DEF Concerns
      <3>2. RetryFits(r, k, s)
        BY <1>3, <3>1
      <3>3. retries[r].session = s => ~(l = k /\ t = s)
        BY <2>1, <3>1 DEF Retrying, Concerns
      <3> QED BY <1>1, <1>2, <2>1, <2>2, <3>1, <3>2, <3>3 DEF RetryFits
    <2>4. CASE r = p
      <3>1. l = k /\ (t = s \/ (logs[k][s] # None /\ logs[l][t].id = logs[k][s].id))
        BY <1>1, <2>2, <2>4 DEF Concerns
      <3>2. t = s
        BY <2>1, <3>1 DEF OwnIds
      <3>3. Status(k, s) = "sent" /\ ~Retrying(k, s)
        BY <2>1, <3>1, <3>2
      <3>4. \A q \in Retriers : retries'[q].pc = "running" /\ retries'[q].kind = k
                               /\ retries'[q].session = s => q = r
        BY <2>2, <2>4, <3>3 DEF Retrying
      <3>5. ASSUME NEW b \in FailedBackends(k, s) PROVE accepted'[k][s][b] = 0
        <4>1. b \in Backends /\ rows[k][logs[k][s].id][b] = "failed"
          BY DEF FailedBackends
        <4>2. InLedger(k, s)
          BY <1>1 DEF Ledger
        <4>3. ~Pending(k, s, b)
          BY <3>3, <4>1, NoneAssumption DEF Pending, Retrying, RetriesFit, TypeOK, Retry
        <4>4. accepted[k][s][b] # 1 /\ accepted[k][s][b] <= 1
          BY <3>3, <4>1, <4>2, <4>3 DEF InLedger, RowTells
        <4> QED BY <1>4, <2>1, <4>1, <4>4
      <3> QED BY <1>1, <1>2, <2>2, <2>4, <3>1, <3>2, <3>3, <3>4, <3>5 DEF RetryFits
    <2> QED BY <2>3, <2>4
  <1> QED BY <1>6, <1>7, <1>8, <1>9 DEF RetryStep

\* No step disturbs a retry that works on what it may.
LEMMA AloneKeeps ==
    ASSUME TypeOK, RetriesFit, WorkFits, OwnIds, Ledger, Alone, [Next]_vars
    PROVE  Alone'
  <1> SUFFICES ASSUME NEW k \in Kinds, NEW s \in Sessions, <<k, s>> \notin disturbed',
                      NEW r \in Retriers, Concerns(r, k, s)'
               PROVE  RetryFits(r, k, s)'
    BY DEF Alone
  <1>1. ASSUME NEW l \in Kinds, NEW t \in Sessions, LogStep(l, t) PROVE RetryFits(r, k, s)'
    <2>1. CASE <<k, s>> # <<l, t>>
      BY <1>1, <2>1, FitsKeeps DEF LogStep, OnlyLog, Alone
    <2>2. CASE k = l /\ s = t
      <3>1. /\ UNCHANGED <<retries, accepted>> /\ <<k, s>> \notin disturbed
            /\ LogStep(k, s)
        BY <1>1, <2>2 DEF LogStep
      <3>2. CASE Moved(k, s, "sent") /\ Dispatched(k, s) /\ ~work.resend
        <4>1. Concerns(r, k, s) /\ Status(k, s) = "approved"
          BY <3>1, <3>2 DEF Concerns, Moved, Dispatched, WorkFits
        <4> QED BY <3>1, <4>1 DEF Alone, RetryFits
      <3>3. CASE Status(k, s)' \in {"none", "draft", "skipped"}
        <4>1. CASE retries[r].session = s
          <5>1. RetryFits(r, k, s)
            BY <3>1, <4>1 DEF Concerns, Alone
          <5> QED BY <3>1, <3>3, <5>1 DEF RetryFits
        <4>2. CASE retries[r].session # s
          BY <3>1, <3>3, <4>2 DEF RetryFits
        <4> QED BY <4>1, <4>2
      <3> QED BY <3>1, <3>2, <3>3 DEF LogStep, Redrafted, Moved
    <2> QED BY <2>1, <2>2
  <1>2. ASSUME NEW l \in Kinds, NEW t \in Sessions, ApprovalStep(l, t) PROVE RetryFits(r, k, s)'
    <2>1. CASE <<k, s>> # <<l, t>>
      <3>1. accepted'[k][s] = accepted[k][s] /\ <<k, s>> \notin disturbed
        BY <1>2, <2>1 DEF ApprovalStep, TypeOK
      <3> QED BY <1>2, <2>1, <3>1, FitsKeeps DEF ApprovalStep, OnlyLog, Alone
    <2>2. CASE k = l /\ s = t
      <3>1. ~Retrying(k, s) /\ UNCHANGED retries /\ Moved(k, s, "approved")
        BY <1>2, <2>2 DEF ApprovalStep
      <3> QED BY <3>1 DEF Retrying, Concerns, Moved
    <2> QED BY <2>1, <2>2
  <1>3. ASSUME UNCHANGED <<retries, logs, accepted>>, <<k, s>> \notin disturbed
        PROVE  RetryFits(r, k, s)'
    BY <1>3, FitsKeeps DEF Alone
  <1>4. ASSUME NEW b \in Backends, DispatchSend(b) PROVE RetryFits(r, k, s)'
    <2>1. /\ UNCHANGED <<retries, logs>> /\ <<k, s>> \notin disturbed
          /\ work.pc = "dispatching" /\ work.kind \in Kinds /\ work.session \in Sessions
          /\ Takes(work.kind, work.session, b) \/ UNCHANGED accepted
      BY <1>4 DEF DispatchSend, TypeOK, Work, WorkFits, tables
    <2>2. Concerns(r, k, s) /\ RetryFits(r, k, s)
      BY <2>1 DEF Concerns, Alone
    <2>3. <<k, s>> # <<work.kind, work.session>>
      BY <2>1, <2>2 DEF WorkFits, RetryFits
    <2>4. accepted'[k][s] = accepted[k][s]
      BY <2>1, <2>3 DEF Takes, TypeOK
    <2> QED BY <2>1, <2>2, <2>4, FitsKeeps
  <1>5. CASE Restart
    BY <1>5 DEF Restart, IdleRetry, Concerns
  <1>6. CASE \/ \E l \in Kinds, t \in Sessions : SendStep(l, t)
             \/ Quiet \/ DispatchCommit \/ DispatchFailed \/ Resent \/ UNCHANGED vars
             \/ \E t \in Sessions : ResendRoster(t)
    BY <1>3, <1>6 DEF SendStep, Quiet, DispatchCommit, DispatchFailed, Resent, ResendRoster,
       vars, tables
  <1> QED BY <1>1, <1>2, <1>4, <1>5, <1>6, RetryAlone, Steps

------------------------------------------------------------------------------
(* Theorems *)

LEMMA InitInv == Init => Inv
  <1> SUFFICES ASSUME Init PROVE Inv
    OBVIOUS
  <1>1. TypeOK
    <2>1. templates \subseteq Kinds
      BY TemplateAssumption DEF Init, Kinds
    <2>2. work \in Work /\ retries \in [Retriers -> Retry]
      BY IdleTyped DEF Init
    <2> QED BY <2>1, <2>2 DEF Init, TypeOK, RowStatus
  <1>2. \A k \in Kinds, s \in Sessions : logs[k][s] = None /\ Status(k, s) = "none"
    BY DEF Init, Status
  <1>3. work.pc = "idle" /\ work.sending = None
        /\ \A r \in Retriers :
              retries[r].pc = "idle" /\ retries[r].sending = None /\ ~retries[r].success
    BY DEF Init, IdleWork, IdleRetry
  <1>4. \A k \in Kinds, s \in Sessions, b \in Backends : accepted[k][s][b] = 0
    BY DEF Init
  <1>5. RetriesFit /\ WorkFits /\ OwnIds /\ SuccessIsReal
    BY <1>2, <1>3 DEF RetriesFit, WorkFits, OwnIds, SuccessIsReal
  <1>6. CountedOnce
    BY DEF Init, CountedOnce
  <1>7. ApprovedIsCounted /\ SentWasAccepted
    BY <1>2 DEF ApprovedIsCounted, SentWasAccepted, Kinds
  <1>8. Ledger
    BY <1>2, <1>3, <1>4 DEF Ledger, InLedger, Dispatched
  <1>9. Alone
    BY <1>3 DEF Alone, Concerns
  <1> QED BY <1>1, <1>5, <1>6, <1>7, <1>8, <1>9 DEF Inv

LEMMA InvHolds == Spec => []Inv
  <1>1. Inv /\ [Next]_vars => Inv'
    BY TypeKeeps, WorkKeeps, IdsKeep, CountKeeps, ApprovedKeeps, SentKeeps, SuccessKeeps,
       LedgerKeeps, AloneKeeps DEF Inv
  <1> QED BY InitInv, <1>1, PTL DEF Spec

\* The roster, reminder, delivery and session rows, the handler and the retries
\* keep their types, for any sessions, backends and ids.
THEOREM TypeCorrect == Spec => []TypeOK
  <1>1. Inv => TypeOK
    BY DEF Inv
  <1> QED BY InvHolds, <1>1, PTL

\* approve_session_checkins credits a session's members once, however often and
\* from wherever it is called, and whenever the process stops.
THEOREM MembersCountedOnce == Spec => []CountedOnce
  <1>1. Inv => CountedOnce
    BY DEF Inv
  <1> QED BY InvHolds, <1>1, PTL

\* approve_roster and submit_roster never leave an approved roster whose session
\* was not closed: the commit that closes it comes first, and is never undone.
THEOREM RostersCounted == Spec => []ApprovedIsCounted
  <1>1. Inv => ApprovedIsCounted
    BY DEF Inv
  <1> QED BY InvHolds, <1>1, PTL

\* mark_sent says SENT only of what a backend took since the approval.
THEOREM SentIsAccepted == Spec => []SentWasAccepted
  <1>1. Inv => SentWasAccepted
    BY DEF Inv
  <1> QED BY InvHolds, <1>1, PTL

\* Per approval, dispatch_delivery and the retries that follow it hand a content to
\* each backend at most once, apart from resends, retries that overlap or come
\* before SENT, and deliveries whose answer or record is lost.
THEOREM SentOnce == Spec => []AtMostOnce
  <1>1. Inv => AtMostOnce
    BY DEF Inv, AtMostOnce, Ledger, InLedger
  <1> QED BY InvHolds, <1>1, PTL

\* With the same exceptions, the delivery rows of a sent log tell exactly which
\* backends took it, however many of them failed.
THEOREM RowsTellTheTruth == Spec => []RowsTell
  <1>1. Inv => RowsTell
    BY DEF Inv, RowsTell, Ledger, InLedger, RowTells, Pending, InRetry
  <1> QED BY InvHolds, <1>1, PTL

\* purge_session_source_files runs only for a session whose roster was sent,
\* skipped or deleted, and nothing drafts it again before it has run.
THEOREM FilesAreKept == Spec => FilesKept
  <1>1. Inv /\ [Next]_vars =>
           [\A s \in Sessions : (s \in files /\ s \notin files') =>
               Status("roster", s) \in {"none", "sent", "skipped"}]_vars
    <2> SUFFICES ASSUME Inv, [Next]_vars, NEW s \in Sessions, s \in files, s \notin files'
                 PROVE  Status("roster", s) \in {"none", "sent", "skipped"}
      OBVIOUS
    <2>1. CASE Purge
      BY <2>1 DEF Purge, Inv, WorkFits
    <2>2. ASSUME NEW t \in Sessions,
                 RosterRequest(t) \/ ReminderRequest(t) \/ CloseSession(t) \/ UpdateSession(t)
          PROVE  UNCHANGED files
      BY <2>2 DEF RosterRequest, GenerateRoster, RosterDue, ApproveRoster, SendRoster,
         ResendRoster, SkipRoster, DeleteRoster, ReminderRequest, GenerateReminder,
         ReminderDue, ApproveReminder, SendReminder, SkipReminder, DeleteReminder,
         CloseSession, UpdateSession, tables
    <2>3. ASSUME Handler, ~Purge PROVE UNCHANGED files
      BY <2>3 DEF Handler, DraftAfterClose, RosterApproved, DispatchSend, DispatchCommit,
         DispatchFailed, RosterSent, ReminderSent, Resent, tables
    <2>4. ASSUME Restart \/ UNCHANGED vars \/ \E r \in Retriers : RetryStep(r)
          PROVE  UNCHANGED files
      BY <2>4 DEF Restart, vars, RetryStep, StartRetry, RetrySend, RetryCommit, RetryLocked, tables
    <2> QED BY <2>1, <2>2, <2>3, <2>4 DEF Next
  <1> QED BY InvHolds, <1>1, PTL DEF Spec, FilesKept

================================================================================
