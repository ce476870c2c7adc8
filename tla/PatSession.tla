------------------------------ MODULE PatSession ------------------------------
(***************************************************************************)
(* Winlink over PAT: the engine that runs one radio session at a time, the *)
(* aborts that race with it, and the delivery log it reconciles with PAT's *)
(* out box when a session ends.                                            *)
(*                                                                         *)
(* PatSessionEngine keeps one asyncio task.  The task sleeps while a       *)
(* thread of the pool waits for PAT's connect call; an abort sleeps while  *)
(* a thread asks PAT to disconnect.  Both read and write the session's row *)
(* when they wake up, in whichever order that happens.  From the end of    *)
(* connect to the end of the session the task does not sleep, so nothing   *)
(* else runs on the event loop, but threads (the retry of a net's          *)
(* delivery) and PAT go on.                                                *)
(*                                                                         *)
(* PAT itself is external: a box of messages per instance, and calls that  *)
(* succeed, fail, or hang.                                                 *)
(***************************************************************************)
EXTENDS Naturals, FiniteSets

CONSTANTS
    Pats,          \* PAT instances that nets and events are configured with
    Mids,          \* message ids PAT hands out: the bound on posts
    Deliveries,    \* delivery_logs rows of the winlink backend
    Aborters,      \* abort requests in flight
    MaxSessions,   \* bound: sessions ever started
    Replies,       \* what PAT's mailbox listing may do: list, unavailable, garbled
    ThreadedRetry, \* retries of deliveries run in threads
    MayRestart,    \* the process may stop and boot again
    None

ASSUME SessionAssumption == MaxSessions \in Nat
ASSUME ReplyAssumption == Replies \subseteq {"list", "unavailable", "garbled"}
ASSUME OptionAssumption == ThreadedRetry \in BOOLEAN /\ MayRestart \in BOOLEAN
ASSUME NoneAssumption ==
    None \notin Mids /\ (Pats \cup {None}) \cap {"unused", "gone"} = {}

VARIABLES
    sessions,  \* pat_connection_sessions: [status, pat]
    task,      \* the engine's task: [pc, sid, out]
    calls,     \* the thread that runs a session's connect call
    aborts,    \* abort requests: the session they wait to write to, 0: none
    rows,      \* delivery_logs: [status, mid, session]
    posting,   \* what a thread has posted for a row and not committed yet
    box,       \* a message id is unused, in the out box of a PAT, or gone
    late       \* history: ids posted between a listing and its flip

engine == <<sessions, task, calls, aborts>>
delivery == <<rows, posting, box, late>>
vars == <<engine, delivery>>

Sids == 1..MaxSessions
Open == {"connecting", "connected", "syncing"}
Terminal == {"completed", "failed", "aborted"}
SessionRow == [status: {"none"} \cup Open \cup Terminal, pat: Pats \cup {None}]
Task == [pc: {"idle", "created", "connecting", "disconnecting", "flipping", "importing"},
         sid: 0..MaxSessions, out: SUBSET Mids]
Row == [status: {"none", "failed", "queued", "sent"}, mid: Mids \cup {None},
        session: 0..MaxSessions]

TypeOK ==
    /\ sessions \in [Sids -> SessionRow]
    /\ task \in Task
    /\ calls \in [Sids -> {"none", "running", "ok", "error", "garbled"}]
    /\ aborts \in [Aborters -> 0..MaxSessions]
    /\ rows \in [Deliveries -> Row]
    /\ posting \in [Deliveries -> Mids \cup {None}]
    /\ box \in [Mids -> Pats \cup {"unused", "gone"}]
    /\ late \subseteq Mids

IdleTask == [pc |-> "idle", sid |-> 0, out |-> {}]

Init ==
    /\ sessions = [s \in Sids |-> [status |-> "none", pat |-> None]]
    /\ task = IdleTask
    /\ calls = [s \in Sids |-> "none"]
    /\ aborts = [a \in Aborters |-> 0]
    /\ rows = [d \in Deliveries |-> [status |-> "none", mid |-> None, session |-> 0]]
    /\ posting = [d \in Deliveries |-> None]
    /\ box = [m \in Mids |-> "unused"]
    /\ late = {}

------------------------------------------------------------------------------
(* The engine *)

\* Mutant: the reconciliation and the import are awaited.
LoopNeverHeld == TRUE

\* The task holds the event loop while it reconciles and imports.
LoopFree == task.pc \notin {"flipping", "importing"}

SetStatus(s, status) == sessions' = [sessions EXCEPT ![s].status = status]

Start(p) ==
    /\ task.pc = "idle"
    /\ \E s \in Sids :
          /\ sessions[s].status = "none"
          /\ \A t \in 1..(s-1) : sessions[t].status # "none"
          /\ sessions' = [sessions EXCEPT ![s] = [status |-> "connecting", pat |-> p]]
          /\ task' = [pc |-> "created", sid |-> s, out |-> {}]
    /\ UNCHANGED <<calls, aborts, delivery>>

\* run_session up to its first await: the connect call starts in a thread.
TaskBegin ==
    /\ task.pc = "created"
    /\ SetStatus(task.sid, "connected")
    /\ calls' = [calls EXCEPT ![task.sid] = "running"]
    /\ task' = [task EXCEPT !.pc = "connecting"]
    /\ UNCHANGED <<aborts, delivery>>

\* _consume_status sees the link come up; it listens until connect is over.
ConsumeStatus ==
    /\ task.pc \in {"connecting", "disconnecting"}
    /\ sessions[task.sid].status = "connected"
    /\ SetStatus(task.sid, "syncing")
    /\ UNCHANGED <<task, calls, aborts, delivery>>

\* PAT answers the connect call, even one the task has stopped waiting for: it
\* is through, refused or unreachable, or the call raises something else (a
\* body that is no object, a base URL that httpx rejects).
ConnectReturns(s) ==
    /\ calls[s] = "running"
    /\ \E answer \in {"ok", "error", "garbled"} : calls' = [calls EXCEPT ![s] = answer]
    /\ UNCHANGED <<sessions, task, aborts, delivery>>

\* Mutant: the session ends without a verdict.
FailSilently == UNCHANGED sessions /\ task' = IdleTask

\* FAILED, whatever the row says by then.
Fail == SetStatus(task.sid, "failed") /\ task' = IdleTask

\* PatConnectError, PatUnavailable.
ConnectFailed ==
    /\ task.pc = "connecting"
    /\ calls[task.sid] = "error"
    /\ Fail
    /\ UNCHANGED <<calls, aborts, delivery>>

\* Nobody catches that something else: the task dies, its row as it was.
ConnectGarbled ==
    /\ task.pc = "connecting"
    /\ calls[task.sid] = "garbled"
    /\ task' = IdleTask
    /\ UNCHANGED <<sessions, calls, aborts, delivery>>

\* Mutant: connect is awaited without a timeout.
ConnectNeverTimesOut == FALSE

\* wait_for gives up; a thread asks PAT to disconnect.  The thread of the
\* connect call is not stopped.
ConnectTimesOut ==
    /\ task.pc = "connecting"
    /\ calls[task.sid] = "running"
    /\ task' = [task EXCEPT !.pc = "disconnecting"]
    /\ UNCHANGED <<sessions, calls, aborts, delivery>>

TimedOut ==
    /\ task.pc = "disconnecting"
    /\ Fail
    /\ UNCHANGED <<calls, aborts, delivery>>

\* Connect is over.  An aborted session keeps its status, another becomes
\* SYNCING; either way _reconcile_outbound lists PAT's out box.
ConnectIsOver == task.pc = "connecting" /\ calls[task.sid] = "ok"

\* Mutant: the guard against an abort is missing.
AlwaysWrite(status) == SetStatus(task.sid, status)

Unless(status) ==
    IF sessions[task.sid].status \in Terminal THEN UNCHANGED sessions
    ELSE SetStatus(task.sid, status)

\* An aborted session ends with the reconciliation, another imports mail.
Reconciled ==
    task' = IF sessions[task.sid].status \in Terminal THEN IdleTask
            ELSE [task EXCEPT !.pc = "importing", !.out = {}]

SyncListed ==
    /\ "list" \in Replies
    /\ ConnectIsOver
    /\ Unless("syncing")
    /\ task' = [task EXCEPT !.pc = "flipping",
                            !.out = {m \in Mids : box[m] = sessions[task.sid].pat}]
    /\ UNCHANGED <<calls, aborts, delivery>>

\* PatUnavailable: the rows stay QUEUED.
SyncUnavailable ==
    /\ "unavailable" \in Replies
    /\ ConnectIsOver
    /\ Unless("syncing")
    /\ Reconciled
    /\ UNCHANGED <<calls, aborts, delivery>>

\* A listing that is not JSON: ValueError, which nobody catches; the task dies.
SyncGarbled ==
    /\ "garbled" \in Replies
    /\ ConnectIsOver
    /\ Unless("syncing")
    /\ task' = IdleTask
    /\ UNCHANGED <<calls, aborts, delivery>>

\* Mutant: the listing is not looked at.
FlippedUnseen(d) == rows[d].status = "queued" /\ rows[d].mid # None

\* Every QUEUED winlink row whose id the listing did not show is SENT, carried
\* by this session.
Flipped(d) == /\ rows[d].status = "queued"
              /\ rows[d].mid # None
              /\ rows[d].mid \notin task.out
Flip ==
    /\ task.pc = "flipping"
    /\ rows' = [d \in Deliveries |->
                   IF Flipped(d) THEN [rows[d] EXCEPT !.status = "sent", !.session = task.sid]
                   ELSE rows[d]]
    /\ Reconciled
    /\ UNCHANGED <<sessions, calls, aborts, posting, box, late>>

\* The import of inbound mail (EventRoom's StartScan) is over or has failed.
Finish ==
    /\ task.pc = "importing"
    /\ Unless("completed")
    /\ task' = IdleTask
    /\ UNCHANGED <<calls, aborts, delivery>>

TaskStep == \/ TaskBegin \/ ConnectFailed \/ ConnectGarbled \/ ConnectTimesOut
            \/ TimedOut \/ SyncListed \/ SyncUnavailable \/ SyncGarbled \/ Flip \/ Finish

------------------------------------------------------------------------------
(* Aborts: any session of the net, running or not *)

\* A new task's first step is on the loop's queue before an abort of its
\* session can be.
Abort(a) ==
    /\ aborts[a] = 0
    /\ LoopFree
    /\ \E s \in Sids :
          /\ sessions[s].status # "none"
          /\ s = task.sid => task.pc # "created"
          /\ aborts' = [aborts EXCEPT ![a] = s]
    /\ UNCHANGED <<sessions, task, calls, delivery>>

AbortWrite(a) ==
    /\ aborts[a] # 0
    /\ LoopFree
    /\ IF sessions[aborts[a]].status \notin {"completed", "failed"}
       THEN SetStatus(aborts[a], "aborted") ELSE UNCHANGED sessions
    /\ aborts' = [aborts EXCEPT ![a] = 0]
    /\ UNCHANGED <<task, calls, delivery>>

------------------------------------------------------------------------------
(* Deliveries *)

Post(m, p) == box[m] = "unused" /\ box' = [box EXCEPT ![m] = p]

\* Mutant: the empty id of an answer without one is stored as it is.
QueuedRaw(d, mid) ==
    rows' = [rows EXCEPT ![d].status = "queued", ![d].mid = IF mid = None THEN "" ELSE mid]

Queued(d, mid) == rows' = [rows EXCEPT ![d].status = "queued", ![d].mid = mid]

\* dispatch_delivery, which starts the row over, and retry_failed, on the
\* event loop.  PAT may answer without an id, a message that PAT took may look
\* failed because the answer got lost, and what the backends do not catch
\* rolls the row back.
Dispatch(d, p) ==
    /\ LoopFree
    /\ \/ \E m \in Mids : Post(m, p) /\ \E mid \in {m, None} : Queued(d, mid)
       \/ /\ rows' = [rows EXCEPT ![d].status = "failed"] \/ UNCHANGED rows
          /\ UNCHANGED box \/ \E m \in Mids : Post(m, p)
    /\ UNCHANGED <<engine, posting, late>>

\* POST /delivery/.../retry, in a thread: post, then commit.
ThreadPost(d, p) ==
    /\ ThreadedRetry
    /\ rows[d].status = "failed" /\ posting[d] = None
    /\ \E m \in Mids :
          /\ Post(m, p)
          /\ posting' = [posting EXCEPT ![d] = m]
          /\ late' = IF task.pc = "flipping" THEN late \cup {m} ELSE late
    /\ UNCHANGED <<engine, rows>>

\* An attempt whose answer got lost leaves the status alone.
ThreadCommit(d) ==
    /\ posting[d] # None
    /\ UNCHANGED rows \/ \E mid \in {posting[d], None} : Queued(d, mid)
    /\ posting' = [posting EXCEPT ![d] = None]
    /\ UNCHANGED <<engine, box, late>>

\* PAT sends a message: in a session of the engine's, in one whose call the
\* engine has given up, or in one that somebody started at the PAT station.
Transmit(m) ==
    /\ box[m] \in Pats
    /\ box' = [box EXCEPT ![m] = "gone"]
    /\ UNCHANGED <<engine, rows, posting, late>>

------------------------------------------------------------------------------
\* Shutdown cancels the task where it sleeps, a crash stops it anywhere: the
\* rows stay as they are, and nothing looks at them on boot.
Restart ==
    /\ MayRestart
    /\ task' = IdleTask
    /\ calls' = [s \in Sids |-> "none"]
    /\ aborts' = [a \in Aborters |-> 0]
    /\ posting' = [d \in Deliveries |-> None]
    /\ UNCHANGED <<sessions, rows, box, late>>

Next ==
    \/ \E p \in Pats : Start(p)
    \/ TaskStep
    \/ ConsumeStatus
    \/ \E s \in Sids : ConnectReturns(s)
    \/ \E a \in Aborters : Abort(a) \/ AbortWrite(a)
    \/ \E d \in Deliveries, p \in Pats : Dispatch(d, p) \/ ThreadPost(d, p)
    \/ \E d \in Deliveries : ThreadCommit(d)
    \/ \E m \in Mids : Transmit(m)
    \/ Restart

Spec == Init /\ [][Next]_vars

\* The loop runs the task when it can, wait_for's timer goes off, and PAT's
\* client gives up a disconnect after its own timeout.  PAT owes nothing.
FairSpec == Spec /\ WF_vars(TaskStep)

------------------------------------------------------------------------------
(* Properties *)

\* What the task is doing and what its row says go together: the row of a
\* session that runs is open or aborted, never completed or failed, and no
\* abort waits for a session whose task has not begun.
RowMatches(pc, status) ==
    \/ pc = "idle"
    \/ pc = "created" /\ status = "connecting"
    \/ pc \in {"connecting", "disconnecting"} /\ status \in {"connected", "syncing", "aborted"}
    \/ pc = "flipping" /\ status \in {"syncing", "aborted"}
    \/ pc = "importing" /\ status = "syncing"
TaskMatchesRow ==
    /\ task.pc # "idle" => /\ task.sid \in Sids
                           /\ sessions[task.sid].pat \in Pats
                           /\ RowMatches(task.pc, sessions[task.sid].status)
    /\ \A a \in Aborters : aborts[a] # 0 =>
          /\ sessions[aborts[a]].status # "none"
          /\ aborts[a] = task.sid => task.pc # "created"

\* COMPLETED and FAILED are final, and nothing turns an aborted session into
\* anything else but its own connect that fails or times out (AbortStays says
\* what the documents promise): once connect is through, run_session's guards
\* and abort's hold whatever the others write in between.
VerdictStays ==
    [][\A s \in Sids :
          /\ sessions[s].status \in {"completed", "failed"} => UNCHANGED sessions[s]
          /\ sessions[s].status = "aborted" /\ sessions'[s].status # "aborted"
                => s = task.sid /\ (ConnectFailed \/ TimedOut)]_sessions

\* "Abort: /api/disconnect; session ends aborted" (transport control design),
\* and the comment over run_session's guard: an aborted session stays so.
AbortStays ==
    [][\A s \in Sids : sessions[s].status = "aborted" => sessions'[s].status = "aborted"]_sessions

\* A session that ends has a verdict, unless the process stops or PAT's answer
\* to connect or to the listing raises what run_session does not catch: in
\* every other way to end the row is not left open.
EndsTerminal ==
    [][task.pc # "idle" /\ task'.pc = "idle" /\ ~ConnectGarbled /\ ~SyncGarbled /\ ~Restart
          => sessions'[task.sid].status \in Terminal]_vars

\* The radio comes free: no session keeps the engine busy for ever, even when
\* the connect call never returns.
EngineComesFree == task.pc # "idle" ~> task.pc = "idle"

\* "SENT (carried by session #N)": a delivery shown as SENT is not in the out
\* box of the PAT whose session flipped it, unless a thread posted it between
\* that session's listing and the flip (_reconcile_outbound).
SentAccounted ==
    \A d \in Deliveries : rows[d].status = "sent" =>
        LET s == rows[d].session
        IN  /\ s \in Sids /\ sessions[s].status # "none"
            /\ box[rows[d].mid] # sessions[s].pat \/ rows[d].mid \in late

\* What the documents promise: a delivery shown as SENT has left the out box.
SentMeansGone ==
    \A d \in Deliveries : rows[d].status = "sent" => box[rows[d].mid] = "gone"

\* What makes SentAccounted so: the ids of rows, and those a thread is about to
\* commit, are ones that PAT has handed out; no row is SENT without one; and
\* while the engine flips, all that is in the out box it listed was in the
\* listing or was posted by a thread since: what the loop posts waits.
OutBoxAccounted ==
    /\ \A d \in Deliveries : rows[d].mid # None => box[rows[d].mid] # "unused"
    /\ \A d \in Deliveries : posting[d] # None => box[posting[d]] # "unused"
    /\ \A d \in Deliveries : rows[d].status = "sent" => rows[d].mid # None
    /\ task.pc = "flipping" =>
          \A m \in Mids : box[m] = sessions[task.sid].pat => m \in task.out \cup late

===============================================================================
