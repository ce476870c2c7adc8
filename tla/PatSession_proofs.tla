--------------------------- MODULE PatSession_proofs ---------------------------
(***************************************************************************)
(* Proofs about PatSession.  Three invariants are proved one after the     *)
(* other, each from those before it: the types; TaskMatchesRow, which ties *)
(* the engine's task to its session's row and from which the two action    *)
(* properties follow; and OutBoxAccounted with SentAccounted, for any      *)
(* number of PAT instances and retries in threads.                         *)
(***************************************************************************)
EXTENDS PatSession, TLAPS

------------------------------------------------------------------------------
(* Types *)

\* A row whose status is set is still a session's row.
LEMMA StatusTyped ==
    ASSUME TypeOK, NEW s \in Sids, NEW status \in Open \cup Terminal, SetStatus(s, status)
    PROVE  sessions' \in [Sids -> SessionRow]
  BY DEF TypeOK, SetStatus, SessionRow

\* The task is a task after the reconciliation.
LEMMA ReconciledTyped ==
    ASSUME task \in Task, Reconciled
    PROVE  task' \in Task
  <1>1. IdleTask \in Task
    BY SessionAssumption DEF IdleTask, Task
  <1>2. [task EXCEPT !.pc = "importing", !.out = {}] \in Task
    BY DEF Task
  <1> QED BY <1>1, <1>2 DEF Reconciled

\* The engine's own steps keep the types.
LEMMA TaskTyped ==
    ASSUME TypeOK, task.sid \in Sids, TaskStep \/ ConsumeStatus
    PROVE  TypeOK'
  <1> USE SessionAssumption DEF TypeOK, Task, IdleTask, Open, Terminal, Sids
  <1>1. ASSUME Unless("syncing") \/ Unless("completed") PROVE sessions' \in [Sids -> SessionRow]
    BY <1>1, StatusTyped DEF Unless
  <1>2. CASE TaskBegin \/ ConsumeStatus
    <2>1. sessions' \in [Sids -> SessionRow]
      BY <1>2, StatusTyped DEF TaskBegin, ConsumeStatus
    <2> QED BY <1>2, <2>1 DEF TaskBegin, ConsumeStatus, delivery
  <1>3. CASE ConnectFailed \/ TimedOut
    <2>1. sessions' \in [Sids -> SessionRow]
      BY <1>3, StatusTyped DEF ConnectFailed, TimedOut, Fail
    <2> QED BY <1>3, <2>1 DEF ConnectFailed, TimedOut, Fail, delivery
  <1>4. CASE ConnectTimesOut
    BY <1>4 DEF ConnectTimesOut, delivery
  <1>8. CASE ConnectGarbled
    BY <1>8 DEF ConnectGarbled, delivery
  <1>5. CASE SyncListed
    BY <1>1, <1>5 DEF SyncListed, delivery
  <1>a. ASSUME Reconciled PROVE task' \in Task
    BY <1>a, ReconciledTyped
  <1>b. IdleTask \in Task
    OBVIOUS
  <1>6. CASE SyncUnavailable \/ SyncGarbled \/ Finish
    <2>1. sessions' \in [Sids -> SessionRow] /\ task' \in Task
      BY ONLY <1>1, <1>6, <1>a, <1>b DEF SyncUnavailable, SyncGarbled, Finish
    <2> QED BY <1>6, <2>1 DEF SyncUnavailable, SyncGarbled, Finish, delivery
  <1>7. CASE Flip
    <2>1. rows' \in [Deliveries -> Row]
      <3>1. \A d \in Deliveries : [rows[d] EXCEPT !.status = "sent", !.session = task.sid] \in Row
        BY DEF Row
      <3> QED BY <1>7, <3>1 DEF Flip
    <2>2. task' \in Task
      BY <1>7, <1>a DEF Flip
    <2> QED BY <1>7, <2>1, <2>2 DEF Flip
  <1> QED BY <1>2, <1>3, <1>4, <1>5, <1>6, <1>7, <1>8 DEF TaskStep, ConnectFailed

\* So do the steps on the tables of deliveries.
LEMMA DeliveryTyped ==
    ASSUME TypeOK, UNCHANGED engine,
           \/ \E d \in Deliveries, p \in Pats : Dispatch(d, p) \/ ThreadPost(d, p)
           \/ \E d \in Deliveries : ThreadCommit(d)
           \/ \E m \in Mids : Transmit(m)
    PROVE  TypeOK'
  <1> USE DEF TypeOK, engine
  <1>1. ASSUME NEW m \in Mids, NEW p \in Pats, Post(m, p)
        PROVE  box' \in [Mids -> Pats \cup {"unused", "gone"}]
    BY <1>1 DEF Post
  <1>2. ASSUME NEW d \in Deliveries, NEW mid \in Mids \cup {None}, Queued(d, mid)
        PROVE  rows' \in [Deliveries -> Row]
    <2>1. /\ \A e \in Deliveries : e # d => rows'[e] = rows[e]
          /\ rows'[d] = [rows[d] EXCEPT !.status = "queued", !.mid = mid]
          /\ DOMAIN rows' = Deliveries
      BY <1>2 DEF Queued, Row
    <2>2. rows'[d] \in Row
      BY <2>1 DEF Row
    <2> QED BY <1>2, <2>1, <2>2 DEF Queued
  <1>3. ASSUME NEW d \in Deliveries, NEW p \in Pats, Dispatch(d, p)
        PROVE  TypeOK'
    <2>1. rows' \in [Deliveries -> Row]
      BY <1>2, <1>3 DEF Dispatch, Row
    <2>2. box' \in [Mids -> Pats \cup {"unused", "gone"}]
      BY <1>1, <1>3 DEF Dispatch
    <2> QED BY <1>3, <2>1, <2>2 DEF Dispatch
  <1>4. ASSUME NEW d \in Deliveries, NEW p \in Pats, ThreadPost(d, p)
        PROVE  TypeOK'
    BY <1>1, <1>4 DEF ThreadPost
  <1>5. ASSUME NEW d \in Deliveries, ThreadCommit(d)
        PROVE  TypeOK'
    BY <1>2, <1>5 DEF ThreadCommit
  <1>6. ASSUME NEW m \in Mids, Transmit(m)
        PROVE  TypeOK'
    BY <1>6 DEF Transmit
  <1> QED BY <1>3, <1>4, <1>5, <1>6

\* Every step keeps the types, as the task that runs has a row.
LEMMA TypeKeeps ==
    ASSUME TypeOK, TaskMatchesRow, [Next]_vars
    PROVE  TypeOK'
  <1> USE SessionAssumption DEF TypeOK, Sids
  <1>1. CASE \E p \in Pats : Start(p)
    BY <1>1 DEF Start, SessionRow, Task, Open, delivery
  <1>2. CASE TaskStep \/ ConsumeStatus
    <2>1. task.sid \in Sids
      BY <1>2 DEF TaskMatchesRow, TaskStep, TaskBegin, ConsumeStatus, ConnectFailed,
         ConnectGarbled, ConnectTimesOut, TimedOut, SyncListed, SyncUnavailable, SyncGarbled,
         ConnectIsOver, Flip, Finish
    <2> QED BY <1>2, <2>1, TaskTyped
  <1>3. CASE \E s \in Sids : ConnectReturns(s)
    BY <1>3 DEF ConnectReturns, delivery
  <1>4. CASE \E a \in Aborters : Abort(a)
    BY <1>4 DEF Abort, delivery
  <1>5. CASE \E a \in Aborters : AbortWrite(a)
    <2>1. PICK a \in Aborters : AbortWrite(a)
      BY <1>5
    <2>2. sessions' \in [Sids -> SessionRow]
      BY <2>1, StatusTyped DEF AbortWrite, Terminal
    <2> QED BY <2>1, <2>2 DEF AbortWrite, delivery
  <1>6. CASE \/ \E d \in Deliveries, p \in Pats : Dispatch(d, p) \/ ThreadPost(d, p)
             \/ \E d \in Deliveries : ThreadCommit(d)
             \/ \E m \in Mids : Transmit(m)
    <2>1. UNCHANGED engine
      BY <1>6 DEF Dispatch, ThreadPost, ThreadCommit, Transmit
    <2> QED BY <1>6, <2>1, DeliveryTyped
  <1>7. CASE Restart
    BY <1>7 DEF Restart, IdleTask, Task
  <1>8. CASE UNCHANGED vars
    BY <1>8 DEF vars, engine, delivery
  <1> QED BY <1>1, <1>2, <1>3, <1>4, <1>5, <1>6, <1>7, <1>8 DEF Next

------------------------------------------------------------------------------
(* The task and its session's row *)

\* A write to the running session's row leaves its PAT and the other rows.
LEMMA StatusSet ==
    ASSUME TypeOK, NEW s \in Sids, NEW status, SetStatus(s, status)
    PROVE  /\ sessions'[s].status = status
           /\ sessions'[s].pat = sessions[s].pat
           /\ \A t \in Sids : t # s => sessions'[t] = sessions[t]
  BY DEF TypeOK, SetStatus, SessionRow

\* Unless writes the status, except to a row that is terminal.
LEMMA UnlessSet ==
    ASSUME TypeOK, task.sid \in Sids, NEW status, Unless(status)
    PROVE  /\ sessions'[task.sid].pat = sessions[task.sid].pat
           /\ sessions'[task.sid].status =
                IF sessions[task.sid].status \in Terminal THEN sessions[task.sid].status
                ELSE status
           /\ \A t \in Sids : t # task.sid => sessions'[t] = sessions[t]
  <1>1. CASE sessions[task.sid].status \in Terminal
    BY <1>1 DEF Unless
  <1>2. CASE sessions[task.sid].status \notin Terminal
    <2>1. SetStatus(task.sid, status)
      BY <1>2 DEF Unless
    <2> QED BY <1>2, <2>1, StatusSet
  <1> QED BY <1>1, <1>2

\* The task runs when it takes a step.
LEMMA Running ==
    ASSUME TypeOK, TaskMatchesRow, TaskStep \/ ConsumeStatus
    PROVE  task.sid \in Sids /\ task.pc # "idle"
  BY DEF TaskMatchesRow, TaskStep, TaskBegin, ConsumeStatus, ConnectFailed, ConnectGarbled,
         ConnectTimesOut, TimedOut, SyncListed, SyncUnavailable, SyncGarbled, ConnectIsOver, Flip, Finish

\* The part of the invariant that is about aborts: it needs of a step that no
\* session's row disappears and that the task does not go back to "created".
LEMMA AbortsKeep ==
    ASSUME TypeOK, TaskMatchesRow, UNCHANGED aborts,
           task'.pc # "created",
           \A s \in Sids : sessions[s].status # "none" => sessions'[s].status # "none"
    PROVE  \A a \in Aborters : aborts'[a] # 0 =>
              /\ sessions'[aborts'[a]].status # "none"
              /\ aborts'[a] = task'.sid => task'.pc # "created"
  BY DEF TypeOK, TaskMatchesRow, Sids

\* The engine's own steps keep the row in step with the task.
LEMMA TaskKeepsMatch ==
    ASSUME TypeOK, TaskMatchesRow, TaskStep \/ ConsumeStatus
    PROVE  TaskMatchesRow'
  <1> DEFINE st == sessions[task.sid].status
  <1>1. /\ task.sid \in Sids /\ task.pc # "idle" /\ sessions[task.sid].pat \in Pats
        /\ RowMatches(task.pc, st) /\ st # "none"
    BY Running DEF TaskMatchesRow, RowMatches
  <1>2. UNCHANGED aborts
    BY DEF TaskStep, TaskBegin, ConsumeStatus, ConnectFailed, ConnectGarbled,
           ConnectTimesOut, TimedOut, SyncListed, SyncUnavailable, SyncGarbled, Flip, Finish
  <1>3. SUFFICES /\ task'.pc # "created"
                 /\ task'.pc # "idle" =>
                       /\ task'.sid = task.sid
                       /\ sessions'[task.sid].pat = sessions[task.sid].pat
                       /\ RowMatches(task'.pc, sessions'[task.sid].status)
                 /\ \A s \in Sids : sessions[s].status # "none" => sessions'[s].status # "none"
    <2>1. \A a \in Aborters : aborts'[a] # 0 =>
              /\ sessions'[aborts'[a]].status # "none"
              /\ aborts'[a] = task'.sid => task'.pc # "created"
      BY <1>2, <1>3, AbortsKeep
    <2> QED BY <1>1, <1>3, <2>1 DEF TaskMatchesRow, Sids
  <1>4. CASE TaskBegin \/ ConsumeStatus
    <2>1. PICK status \in {"connected", "syncing"} : SetStatus(task.sid, status)
      BY <1>4 DEF TaskBegin, ConsumeStatus
    <2>2. task'.sid = task.sid /\ task'.pc \in {"connecting", "disconnecting"}
      BY <1>4 DEF TaskBegin, ConsumeStatus, TypeOK, Task
    <2> QED BY <1>1, <2>1, <2>2, StatusSet DEF RowMatches
  <1>5. CASE ConnectFailed \/ TimedOut
    <2>1. SetStatus(task.sid, "failed") /\ task'.pc = "idle"
      BY <1>5 DEF ConnectFailed, TimedOut, Fail, IdleTask
    <2> QED BY <1>1, <2>1, StatusSet
  <1>6. CASE ConnectTimesOut \/ ConnectGarbled
    BY <1>1, <1>6 DEF ConnectTimesOut, ConnectGarbled, IdleTask, TypeOK, Task, RowMatches
  <1>7. CASE SyncListed \/ SyncUnavailable \/ SyncGarbled
    <2>1. /\ st \in {"connected", "syncing", "aborted"}
          /\ Unless("syncing")
      BY <1>1, <1>7 DEF SyncListed, SyncUnavailable, SyncGarbled, ConnectIsOver, RowMatches
    <2>2. sessions'[task.sid].status = IF st = "aborted" THEN "aborted" ELSE "syncing"
      BY <1>1, <2>1, UnlessSet DEF Terminal
    <2>3. /\ sessions'[task.sid].pat = sessions[task.sid].pat
          /\ \A s \in Sids : s # task.sid => sessions'[s] = sessions[s]
      BY <1>1, <2>1, UnlessSet
    <2>4. \/ task'.pc = "idle"
          \/ task'.pc = "flipping" /\ task'.sid = task.sid
          \/ task'.pc = "importing" /\ task'.sid = task.sid /\ st # "aborted"
      <3>1. CASE SyncListed
        BY <3>1 DEF SyncListed, TypeOK, Task
      <3>2. CASE SyncUnavailable
        BY <3>2 DEF SyncUnavailable, Reconciled, IdleTask, Terminal, TypeOK, Task
      <3>3. CASE SyncGarbled
        BY <3>3 DEF SyncGarbled, IdleTask
      <3> QED BY <1>7, <3>1, <3>2, <3>3
    <2> QED BY <1>1, <2>2, <2>3, <2>4 DEF RowMatches
  <1>8. CASE Flip
    <2>1. st \in {"syncing", "aborted"}
      BY <1>1, <1>8 DEF Flip, RowMatches
    <2>2. UNCHANGED sessions
      BY <1>8 DEF Flip
    <2>3. \/ task'.pc = "idle"
          \/ task'.pc = "importing" /\ task'.sid = task.sid /\ st # "aborted"
      BY <1>8 DEF Flip, Reconciled, IdleTask, Terminal, TypeOK, Task
    <2> QED BY <1>1, <2>1, <2>2, <2>3 DEF RowMatches
  <1>9. CASE Finish
    <2>1. Unless("completed") /\ task'.pc = "idle"
      BY <1>9 DEF Finish, IdleTask
    <2> QED BY <1>1, <2>1, UnlessSet
  <1> QED BY <1>4, <1>5, <1>6, <1>7, <1>8, <1>9 DEF TaskStep

\* Every step keeps the row in step with the task.
LEMMA MatchKeeps ==
    ASSUME TypeOK, TaskMatchesRow, [Next]_vars
    PROVE  TaskMatchesRow'
  <1> USE DEF TypeOK, Sids
  <1>1. ASSUME NEW p \in Pats, Start(p) PROVE TaskMatchesRow'
    <2>1. PICK s \in Sids :
             /\ sessions[s].status = "none"
             /\ sessions' = [sessions EXCEPT ![s] = [status |-> "connecting", pat |-> p]]
             /\ task' = [pc |-> "created", sid |-> s, out |-> {}]
      BY <1>1 DEF Start
    <2>2. /\ sessions'[s] = [status |-> "connecting", pat |-> p]
          /\ \A t \in Sids : t # s => sessions'[t] = sessions[t]
      BY <2>1
    <2>3. UNCHANGED aborts
      BY <1>1 DEF Start
    <2>4. \A a \in Aborters : aborts[a] # 0 => aborts[a] \in Sids /\ aborts[a] # s
      BY <2>1 DEF TaskMatchesRow
    <2> QED BY <2>1, <2>2, <2>3, <2>4 DEF TaskMatchesRow, RowMatches
  <1>2. ASSUME NEW a \in Aborters, Abort(a) PROVE TaskMatchesRow'
    BY <1>2 DEF Abort, TaskMatchesRow
  <1>3. ASSUME NEW a \in Aborters, AbortWrite(a) PROVE TaskMatchesRow'
    <2>1. aborts[a] \in Sids /\ UNCHANGED task
      BY <1>3 DEF AbortWrite
    <2>2. \A b \in Aborters : aborts'[b] # 0 => aborts'[b] = aborts[b]
      BY <1>3 DEF AbortWrite
    <2>3. CASE UNCHANGED sessions
      BY <2>1, <2>2, <2>3 DEF TaskMatchesRow
    <2>4. CASE SetStatus(aborts[a], "aborted")
      <3>1. /\ sessions'[aborts[a]].status = "aborted"
            /\ sessions'[aborts[a]].pat = sessions[aborts[a]].pat
            /\ \A t \in Sids : t # aborts[a] => sessions'[t] = sessions[t]
        BY <2>1, <2>4, StatusSet
      <3>2. /\ aborts[a] = task.sid /\ task.pc # "idle"
                => task.pc \in {"connecting", "disconnecting"}
        BY <1>3 DEF AbortWrite, LoopFree, TaskMatchesRow, Task
      <3> QED BY <2>1, <2>2, <3>1, <3>2 DEF TaskMatchesRow, RowMatches
    <2> QED BY <1>3, <2>3, <2>4 DEF AbortWrite
  <1>4. CASE TaskStep \/ ConsumeStatus
    BY <1>4, TaskKeepsMatch
  <1>5. CASE UNCHANGED <<sessions, task, aborts>>
    BY <1>5 DEF TaskMatchesRow
  <1>6. CASE Restart
    BY <1>6 DEF Restart, IdleTask, TaskMatchesRow
  <1> QED
    <2>1. \/ \E p \in Pats : Start(p)
          \/ TaskStep \/ ConsumeStatus
          \/ \E a \in Aborters : Abort(a) \/ AbortWrite(a)
          \/ Restart
          \/ UNCHANGED <<sessions, task, aborts>>
      BY DEF Next, vars, engine, delivery, ConnectReturns, Dispatch, ThreadPost, ThreadCommit,
             Transmit
    <2> QED BY <1>1, <1>2, <1>3, <1>4, <1>5, <1>6, <2>1

\* The initial state has both invariants.
LEMMA InitHolds == Init => TypeOK /\ TaskMatchesRow
  <1> SUFFICES ASSUME Init PROVE TypeOK /\ TaskMatchesRow
    OBVIOUS
  <1>1. TypeOK
    BY SessionAssumption DEF Init, TypeOK, SessionRow, Task, IdleTask, Row, Open
  <1>2. TaskMatchesRow
    BY DEF Init, TaskMatchesRow, IdleTask
  <1> QED BY <1>1, <1>2

\* Both invariants together are inductive: the types of a step of the task
\* need the task to have a row.
LEMMA BothHold == Spec => [](TypeOK /\ TaskMatchesRow)
  <1>1. TypeOK /\ TaskMatchesRow /\ [Next]_vars => (TypeOK /\ TaskMatchesRow)'
    BY TypeKeeps, MatchKeeps
  <1> QED BY InitHolds, <1>1, PTL DEF Spec

\* Type correctness: every variable of the engine, its rows and PAT's box
\* keeps to its domain.
THEOREM TypeCorrect == Spec => []TypeOK
  BY BothHold, PTL

\* However aborts, timeouts, PAT's answers and restarts interleave, the row
\* of a session whose task runs is open or aborted, in the way that goes with
\* what the task is doing (run_session, abort).
THEOREM TaskAndRowAgree == Spec => []TaskMatchesRow
  BY BothHold, PTL

------------------------------------------------------------------------------
(* Verdicts *)

\* A step of the task writes no row but its session's, never meets a completed
\* or failed one, and leaves an aborted one alone unless connect fails or times
\* out.
LEMMA TaskVerdict ==
    ASSUME TypeOK, TaskMatchesRow, TaskStep \/ ConsumeStatus
    PROVE  /\ \A s \in Sids : s # task.sid => sessions'[s] = sessions[s]
           /\ sessions[task.sid].status \notin {"completed", "failed"}
           /\ sessions[task.sid].status = "aborted" /\ sessions'[task.sid].status # "aborted"
                 => ConnectFailed \/ TimedOut
  <1>1. task.sid \in Sids /\ RowMatches(task.pc, sessions[task.sid].status) /\ task.pc # "idle"
    BY Running DEF TaskMatchesRow
  <1>2. sessions[task.sid].status \notin {"completed", "failed"}
    BY <1>1 DEF RowMatches
  <1>3. CASE TaskBegin \/ ConsumeStatus
    <2>1. PICK status \in {"connected", "syncing"} : SetStatus(task.sid, status)
      BY <1>3 DEF TaskBegin, ConsumeStatus
    <2>2. sessions[task.sid].status # "aborted"
      BY <1>1, <1>3 DEF TaskBegin, ConsumeStatus, RowMatches
    <2> QED BY <1>1, <1>2, <2>1, <2>2, StatusSet
  <1>4. CASE ConnectFailed \/ TimedOut
    <2>1. SetStatus(task.sid, "failed")
      BY <1>4 DEF ConnectFailed, TimedOut, Fail
    <2> QED BY <1>1, <1>2, <1>4, <2>1, StatusSet
  <1>5. CASE ConnectTimesOut \/ ConnectGarbled \/ Flip
    <2>1. UNCHANGED sessions
      BY <1>5 DEF ConnectTimesOut, ConnectGarbled, Flip
    <2> QED BY <1>2, <2>1
  <1>6. CASE SyncListed \/ SyncUnavailable \/ SyncGarbled \/ Finish
    <2>1. PICK status \in {"syncing", "completed"} : Unless(status)
      BY <1>6 DEF SyncListed, SyncUnavailable, SyncGarbled, Finish
    <2>2. /\ \A s \in Sids : s # task.sid => sessions'[s] = sessions[s]
          /\ sessions[task.sid].status = "aborted" => sessions'[task.sid].status = "aborted"
      BY <1>1, <2>1, UnlessSet DEF Terminal
    <2> QED BY <1>2, <2>2
  <1> QED BY <1>3, <1>4, <1>5, <1>6 DEF TaskStep

\* A session that COMPLETED or FAILED keeps its row, and one that was aborted
\* keeps it unless its own connect fails or times out: run_session's guards
\* hold whatever an abort, the listener or the connect call do between its
\* awaits.
THEOREM VerdictsStay == Spec => VerdictStays
  <1> DEFINE Step == \A s \in Sids :
                       /\ sessions[s].status \in {"completed", "failed"} => UNCHANGED sessions[s]
                       /\ sessions[s].status = "aborted" /\ sessions'[s].status # "aborted"
                             => s = task.sid /\ (ConnectFailed \/ TimedOut)
  <1>1. ASSUME TypeOK, TaskMatchesRow, [Next]_vars PROVE Step
    <2>1. CASE TaskStep \/ ConsumeStatus
      BY <1>1, <2>1, TaskVerdict
    <2>2. ASSUME NEW p \in Pats, Start(p) PROVE Step
      BY <1>1, <2>2 DEF Start, TypeOK
    <2>3. ASSUME NEW a \in Aborters, AbortWrite(a) PROVE Step
      <3>1. aborts[a] \in Sids
        BY <1>1, <2>3 DEF AbortWrite, TypeOK, Sids
      <3>2. CASE UNCHANGED sessions
        BY <3>2
      <3>3. CASE /\ sessions[aborts[a]].status \notin {"completed", "failed"}
                 /\ SetStatus(aborts[a], "aborted")
        BY <1>1, <3>1, <3>3, StatusSet
      <3> QED BY <2>3, <3>2, <3>3 DEF AbortWrite
    <2>4. CASE UNCHANGED sessions
      BY <2>4
    <2> QED BY <1>1, <2>1, <2>2, <2>3, <2>4 DEF Next, vars, engine, delivery, Abort,
            ConnectReturns, Dispatch, ThreadPost, ThreadCommit, Transmit, Restart
  <1>2. TypeOK /\ TaskMatchesRow /\ [Next]_vars => [Step]_sessions
    BY <1>1
  <1>3. Spec => [][Step]_sessions
    BY <1>2, BothHold, PTL DEF Spec
  <1> QED BY <1>3 DEF VerdictStays

\* A session whose task ends has a verdict in its row, except where the
\* process stops or where PAT's answer to connect or to the listing raises what
\* run_session does not catch.
THEOREM SessionsEnd == Spec => EndsTerminal
  <1> DEFINE Step == task.pc # "idle" /\ task'.pc = "idle"
                        /\ ~ConnectGarbled /\ ~SyncGarbled /\ ~Restart
                        => sessions'[task.sid].status \in Terminal
  <1>1. ASSUME TypeOK, TaskMatchesRow, [Next]_vars PROVE Step
    <2> SUFFICES ASSUME task.pc # "idle", task'.pc = "idle",
                        ~ConnectGarbled, ~SyncGarbled, ~Restart
                 PROVE  sessions'[task.sid].status \in Terminal
      OBVIOUS
    <2>1. task.sid \in Sids
      BY <1>1 DEF TaskMatchesRow
    <2>2. CASE ConnectFailed \/ TimedOut
      BY <1>1, <2>1, <2>2, StatusSet DEF ConnectFailed, TimedOut, Fail, Terminal
    <2>3. CASE SyncUnavailable
      <3>1. sessions[task.sid].status \in Terminal
        BY <1>1, <2>3 DEF SyncUnavailable, Reconciled, TypeOK, Task
      <3> QED BY <1>1, <2>1, <2>3, <3>1, UnlessSet DEF SyncUnavailable
    <2>4. CASE Flip
      BY <1>1, <2>4 DEF Flip, Reconciled, TypeOK, Task
    <2>5. CASE Finish
      <3>1. Unless("completed")
        BY <2>5 DEF Finish
      <3> QED BY <1>1, <2>1, <3>1, UnlessSet DEF Terminal
    <2>6. CASE TaskBegin \/ ConsumeStatus \/ ConnectTimesOut \/ SyncListed
      BY <1>1, <2>6 DEF TaskBegin, ConsumeStatus, ConnectTimesOut, SyncListed, TypeOK, Task
    <2>7. CASE \E p \in Pats : Start(p)
      BY <2>7 DEF Start
    <2>8. CASE UNCHANGED task
      BY <2>8
    <2> QED BY <1>1, <2>2, <2>3, <2>4, <2>5, <2>6, <2>7, <2>8 DEF Next, TaskStep, vars, engine,
            delivery, Abort, AbortWrite, ConnectReturns, Dispatch, ThreadPost, ThreadCommit,
            Transmit
  <1>2. TypeOK /\ TaskMatchesRow /\ [Next]_vars => [Step]_vars
    BY <1>1
  <1>3. Spec => [][Step]_vars
    BY <1>2, BothHold, PTL DEF Spec
  <1> QED BY <1>3 DEF EndsTerminal

------------------------------------------------------------------------------
(* Deliveries shown as SENT *)

\* What the invariant asks of one row: an id that PAT handed out and, if the row
\* is SENT, a session that carried it.
RowGood(d) ==
    /\ rows[d].mid # None => box[rows[d].mid] # "unused"
    /\ rows[d].status = "sent" =>
          /\ rows[d].mid # None
          /\ rows[d].session \in Sids /\ sessions[rows[d].session].status # "none"
          /\ box[rows[d].mid] # sessions[rows[d].session].pat \/ rows[d].mid \in late

\* What it asks while the engine flips.
Listed ==
    task.pc = "flipping" =>
        \A m \in Mids : box[m] = sessions[task.sid].pat => m \in task.out \cup late

OutInv == OutBoxAccounted /\ SentAccounted

\* A message may be posted or transmitted: an id in use is where it was, or
\* gone.
LEMMA BoxGrows ==
    ASSUME TypeOK,
           \/ \E m \in Mids, p \in Pats : Post(m, p)
           \/ \E m \in Mids : Transmit(m)
           \/ UNCHANGED box
    PROVE  \A k \in Mids : box[k] # "unused" => box'[k] \in {box[k], "gone"}
  BY DEF TypeOK, Post, Transmit

\* A session that has started keeps its PAT, and is never unstarted.
LEMMA SessionsKeep ==
    ASSUME TypeOK, TaskMatchesRow, [Next]_vars
    PROVE  \A s \in Sids : sessions[s].status # "none" =>
              sessions'[s].pat = sessions[s].pat /\ sessions'[s].status # "none"
  <1>1. CASE UNCHANGED sessions
    BY <1>1
  <1>2. ASSUME NEW p \in Pats, Start(p)
        PROVE  \A s \in Sids : sessions[s].status # "none" => sessions'[s] = sessions[s]
    BY <1>2 DEF Start, TypeOK
  <1>3. ASSUME NEW a \in Aborters, AbortWrite(a), ~UNCHANGED sessions
        PROVE  \A s \in Sids : /\ sessions'[s].pat = sessions[s].pat
                               /\ sessions[s].status # "none" => sessions'[s].status # "none"
    <2>1. aborts[a] \in Sids /\ SetStatus(aborts[a], "aborted")
      BY <1>3 DEF AbortWrite, TypeOK, Sids
    <2> QED BY <2>1, StatusSet
  <1>4. CASE TaskStep \/ ConsumeStatus
    <2>1. task.sid \in Sids
      BY <1>4, Running
    <2>2. ASSUME NEW status \in Open \cup Terminal, SetStatus(task.sid, status)
          PROVE  \A s \in Sids : sessions'[s].pat = sessions[s].pat
                                 /\ (sessions[s].status # "none" => sessions'[s].status # "none")
      BY <2>1, <2>2, StatusSet DEF Open, Terminal
    <2>3. \/ UNCHANGED sessions
          \/ \E status \in Open \cup Terminal : SetStatus(task.sid, status)
      BY <1>4 DEF TaskStep, TaskBegin, ConsumeStatus, ConnectFailed, ConnectGarbled,
         ConnectTimesOut, TimedOut, Fail, SyncListed, SyncUnavailable, SyncGarbled, Flip,
         Finish, Unless, Open, Terminal
    <2> QED BY <2>2, <2>3
  <1> QED BY <1>1, <1>2, <1>3, <1>4 DEF Next, vars, engine, delivery, ConnectReturns, Abort,
          Dispatch, ThreadPost, ThreadCommit, Transmit, Restart

\* The invariant is these two parts and the ids that threads have posted.
LEMMA OutParts ==
    OutInv <=> /\ \A d \in Deliveries : RowGood(d)
               /\ \A d \in Deliveries : posting[d] # None => box[posting[d]] # "unused"
               /\ Listed
  BY DEF OutInv, OutBoxAccounted, SentAccounted, RowGood, Listed

\* What a step must do to keep the invariant: rows and posted ids stay or are
\* good, and the listing stays true.
LEMMA OutStep ==
    ASSUME TypeOK, TaskMatchesRow, [Next]_vars, OutInv,
           late \subseteq late',
           \A k \in Mids : box[k] # "unused" => box'[k] \in {box[k], "gone"},
           \A d \in Deliveries : UNCHANGED rows[d] \/ RowGood(d)',
           \A d \in Deliveries : \/ posting'[d] \in {posting[d], None}
                                 \/ box'[posting'[d]] # "unused",
           Listed'
    PROVE  OutInv'
  <1> USE NoneAssumption
  <1>1. ASSUME NEW d \in Deliveries, UNCHANGED rows[d]
        PROVE  RowGood(d)'
    <2>1. RowGood(d)
      BY OutParts
    <2>2. /\ rows[d].mid # None => rows[d].mid \in Mids
          /\ \A s \in Sids : sessions[s].pat \in Pats \cup {None}
      BY DEF TypeOK, Row, SessionRow
    <2>3. rows[d].mid # None => box'[rows[d].mid] \in {box[rows[d].mid], "gone"}
                                /\ box'[rows[d].mid] # "unused"
      BY <2>1, <2>2 DEF RowGood
    <2>4. ASSUME rows[d].status = "sent"
          PROVE  /\ sessions'[rows[d].session].status # "none"
                 /\ sessions'[rows[d].session].pat = sessions[rows[d].session].pat
                 /\ sessions[rows[d].session].pat # "gone"
      BY <2>1, <2>2, <2>4, SessionsKeep DEF RowGood
    <2> QED BY <1>1, <2>1, <2>3, <2>4 DEF RowGood
  <1>2. ASSUME NEW d \in Deliveries, posting'[d] # None
        PROVE  box'[posting'[d]] # "unused"
    <2>1. CASE posting'[d] = posting[d]
      <3>1. posting[d] \in Mids /\ box[posting[d]] # "unused"
        BY <1>2, <2>1, OutParts DEF TypeOK
      <3> QED BY <2>1, <3>1
    <2> QED BY <1>2, <2>1
  <1>3. \A d \in Deliveries : RowGood(d)'
    BY <1>1
  <1> QED BY <1>2, <1>3 DEF OutInv, OutBoxAccounted, SentAccounted, RowGood, Listed

\* While the task is not about to flip, or neither the box, the ids posted late
\* nor the task changes, the listing stays true.
LEMMA ListingStays ==
    ASSUME TypeOK, TaskMatchesRow, [Next]_vars, OutInv,
           task'.pc = "flipping" => UNCHANGED <<task, box, late>>
    PROVE  Listed'
  <1> SUFFICES ASSUME task'.pc = "flipping" PROVE Listed'
    BY DEF Listed
  <1>1. task.pc = "flipping" /\ UNCHANGED <<task, box, late>>
    OBVIOUS
  <1>2. task.sid \in Sids /\ sessions[task.sid].status # "none"
    BY <1>1 DEF TaskMatchesRow, RowMatches
  <1>3. sessions'[task.sid].pat = sessions[task.sid].pat
    BY <1>2, SessionsKeep
  <1> QED BY <1>1, <1>3, OutParts DEF Listed

\* A delivery goes out while the task is not reconciling.
LEMMA DispatchKeeps ==
    ASSUME TypeOK, TaskMatchesRow, OutInv,
           NEW d \in Deliveries, NEW p \in Pats, Dispatch(d, p)
    PROVE  OutInv'
  <1>0. [Next]_vars
    BY DEF Next
  <1>1. task'.pc # "flipping" /\ UNCHANGED <<posting, late>>
    BY DEF Dispatch, LoopFree, engine
  <1>2. \A k \in Mids : box[k] # "unused" => box'[k] \in {box[k], "gone"}
    <2>1. (\E m \in Mids, q \in Pats : Post(m, q)) \/ UNCHANGED box
      BY DEF Dispatch
    <2> QED BY <2>1, BoxGrows
  <1>3. \A e \in Deliveries : e # d => UNCHANGED rows[e]
    BY DEF Dispatch, Queued, TypeOK
  <1>4. UNCHANGED rows[d] \/ RowGood(d)'
    <2>1. ASSUME NEW m \in Mids, Post(m, p), NEW mid \in {m, None}, Queued(d, mid)
          PROVE  RowGood(d)'
      <3>1. box'[m] # "unused"
        BY <2>1, NoneAssumption DEF TypeOK, Post
      <3>2. rows'[d].mid = mid /\ rows'[d].status = "queued"
        BY <2>1 DEF TypeOK, Queued, Row
      <3> QED BY <2>1, <3>1, <3>2 DEF RowGood
    <2>2. CASE rows' = [rows EXCEPT ![d].status = "failed"]
      <3>1. rows'[d].mid = rows[d].mid /\ rows'[d].status = "failed"
        BY <2>2 DEF TypeOK, Row
      <3>2. rows[d].mid # None => rows[d].mid \in Mids /\ box[rows[d].mid] # "unused"
        BY OutParts DEF RowGood, TypeOK, Row
      <3> QED BY <1>2, <3>1, <3>2, NoneAssumption DEF RowGood
    <2> QED BY <2>1, <2>2 DEF Dispatch
  <1> QED BY <1>0, <1>1, <1>2, <1>3, <1>4, OutStep, ListingStays

\* A thread posts: if it does so while the engine flips, the id is a late one.
LEMMA PostKeeps ==
    ASSUME TypeOK, TaskMatchesRow, OutInv,
           NEW d \in Deliveries, NEW p \in Pats, ThreadPost(d, p)
    PROVE  OutInv'
  <1>0. [Next]_vars
    BY DEF Next
  <1>1. PICK m \in Mids : /\ Post(m, p)
                          /\ posting' = [posting EXCEPT ![d] = m]
                          /\ late' = IF task.pc = "flipping" THEN late \cup {m} ELSE late
    BY DEF ThreadPost
  <1>2. UNCHANGED rows /\ UNCHANGED engine
    BY DEF ThreadPost
  <1>3. \A k \in Mids : box[k] # "unused" => box'[k] \in {box[k], "gone"}
    BY <1>1, BoxGrows
  <1>4. \A e \in Deliveries : posting'[e] \in {posting[e], None} \/ box'[posting'[e]] # "unused"
    BY <1>1, NoneAssumption DEF Post, TypeOK
  <1>5. Listed'
    <2> SUFFICES ASSUME task.pc = "flipping", NEW k \in Mids, box'[k] = sessions[task.sid].pat
                 PROVE  k \in task.out \cup late'
      BY <1>2 DEF Listed, engine
    <2>1. CASE k = m
      BY <1>1, <2>1
    <2>2. CASE k # m
      <3>1. box[k] = sessions[task.sid].pat
        BY <1>1, <2>2 DEF Post, TypeOK
      <3> QED BY <1>1, <3>1, OutParts DEF Listed
    <2> QED BY <2>1, <2>2
  <1> QED BY <1>0, <1>1, <1>2, <1>3, <1>4, <1>5, OutStep

\* And it commits what it posted, or that the answer was lost.
LEMMA CommitKeeps ==
    ASSUME TypeOK, TaskMatchesRow, OutInv, NEW d \in Deliveries, ThreadCommit(d)
    PROVE  OutInv'
  <1>0. [Next]_vars
    BY DEF Next
  <1>1. UNCHANGED <<box, late>> /\ UNCHANGED engine
    BY DEF ThreadCommit
  <1>2. \A e \in Deliveries : posting'[e] \in {posting[e], None}
    BY DEF ThreadCommit, TypeOK
  <1>3. \A e \in Deliveries : e # d => UNCHANGED rows[e]
    BY DEF ThreadCommit, Queued, TypeOK
  <1>4. UNCHANGED rows[d] \/ RowGood(d)'
    <2>1. ASSUME NEW mid \in {posting[d], None}, Queued(d, mid)
          PROVE  RowGood(d)'
      <3>1. rows'[d].mid = mid /\ rows'[d].status = "queued"
        BY <2>1 DEF TypeOK, Queued, Row
      <3>2. mid # None => box[mid] # "unused"
        BY OutParts
      <3> QED BY <1>1, <3>1, <3>2 DEF RowGood
    <2> QED BY <2>1 DEF ThreadCommit
  <1> QED BY <1>0, <1>1, <1>2, <1>3, <1>4, OutStep, ListingStays DEF engine

\* PAT sends a message: it is in no out box any more.
LEMMA TransmitKeeps ==
    ASSUME TypeOK, TaskMatchesRow, OutInv, NEW m \in Mids, Transmit(m)
    PROVE  OutInv'
  <1>0. [Next]_vars
    BY DEF Next
  <1>1. UNCHANGED <<rows, posting, late>> /\ UNCHANGED engine
    BY DEF Transmit
  <1>2. \A k \in Mids : box[k] # "unused" => box'[k] \in {box[k], "gone"}
    BY BoxGrows
  <1>3. Listed'
    <2> SUFFICES ASSUME task.pc = "flipping", NEW k \in Mids, box'[k] = sessions[task.sid].pat
                 PROVE  k \in task.out \cup late
      BY <1>1 DEF Listed, engine
    <2>1. sessions[task.sid].pat # "gone"
      BY NoneAssumption DEF TaskMatchesRow
    <2>2. box[k] = sessions[task.sid].pat
      BY <2>1 DEF Transmit, TypeOK
    <2> QED BY <2>2, OutParts DEF Listed
  <1> QED BY <1>0, <1>1, <1>2, <1>3, OutStep

\* The listing is what is in the out box of the session's PAT.
LEMMA ListingKeeps ==
    ASSUME TypeOK, TaskMatchesRow, OutInv, SyncListed
    PROVE  OutInv'
  <1>0. [Next]_vars
    BY DEF Next, TaskStep
  <1>1. UNCHANGED delivery
    BY DEF SyncListed
  <1>2. /\ task'.out = {m \in Mids : box[m] = sessions[task.sid].pat}
        /\ task'.sid = task.sid
    BY DEF SyncListed, TypeOK, Task
  <1>3. sessions'[task.sid].pat = sessions[task.sid].pat
    <2>1. task.sid \in Sids /\ sessions[task.sid].status # "none"
      BY DEF SyncListed, ConnectIsOver, TaskMatchesRow, RowMatches
    <2> QED BY <1>0, <2>1, SessionsKeep
  <1>4. Listed'
    BY <1>1, <1>2, <1>3 DEF Listed, delivery
  <1> QED BY <1>0, <1>1, <1>4, OutStep DEF delivery

\* The flip makes SENT what the listing did not show.
LEMMA FlipKeeps ==
    ASSUME TypeOK, TaskMatchesRow, OutInv, Flip
    PROVE  OutInv'
  <1>0. [Next]_vars
    BY DEF Next, TaskStep
  <1>1. /\ task.pc = "flipping" /\ task'.pc # "flipping"
        /\ UNCHANGED <<sessions, posting, box, late>>
    BY DEF Flip, Reconciled, IdleTask, TypeOK, Task
  <1>2. task.sid \in Sids /\ sessions[task.sid].status # "none"
    BY <1>1 DEF TaskMatchesRow, RowMatches
  <1>3. ASSUME NEW d \in Deliveries PROVE UNCHANGED rows[d] \/ RowGood(d)'
    <2>1. CASE Flipped(d)
      <3>1. /\ rows'[d].mid = rows[d].mid /\ rows'[d].session = task.sid
            /\ rows[d].mid \in Mids /\ rows[d].mid # None /\ rows[d].mid \notin task.out
        BY <2>1 DEF Flip, Flipped, TypeOK, Row
      <3>2. box[rows[d].mid] # "unused"
        BY <3>1, OutParts DEF RowGood
      <3>3. box[rows[d].mid] # sessions[task.sid].pat \/ rows[d].mid \in late
        BY <1>1, <3>1, OutParts DEF Listed
      <3> QED BY <1>1, <1>2, <3>1, <3>2, <3>3 DEF RowGood
    <2>2. CASE ~Flipped(d)
      BY <2>2 DEF Flip
    <2> QED BY <2>1, <2>2
  <1>4. Listed'
    BY <1>1 DEF Listed
  <1> QED BY <1>0, <1>1, <1>3, <1>4, OutStep

\* Every step keeps the invariant.
LEMMA OutKeeps ==
    ASSUME TypeOK, TaskMatchesRow, OutInv, [Next]_vars
    PROVE  OutInv'
  <1>1. CASE \E d \in Deliveries, p \in Pats : Dispatch(d, p) \/ ThreadPost(d, p)
    BY <1>1, DispatchKeeps, PostKeeps
  <1>2. CASE \/ \E d \in Deliveries : ThreadCommit(d)
             \/ \E m \in Mids : Transmit(m)
    BY <1>2, CommitKeeps, TransmitKeeps
  <1>3. CASE SyncListed \/ Flip
    BY <1>3, ListingKeeps, FlipKeeps
  <1>4. CASE Restart
    <2>1. /\ UNCHANGED <<rows, box, late>> /\ task'.pc # "flipping"
          /\ \A d \in Deliveries : posting'[d] = None
      BY <1>4 DEF Restart, IdleTask
    <2> QED BY <2>1, OutStep, ListingStays
  <1>5. CASE UNCHANGED delivery /\ (task'.pc = "flipping" => UNCHANGED task)
    BY <1>5, OutStep, ListingStays DEF delivery
  <1> QED
    <2>1. ASSUME TaskStep, ~SyncListed, ~Flip
          PROVE  UNCHANGED delivery /\ (task'.pc = "flipping" => UNCHANGED task)
      <3>1. UNCHANGED delivery
        BY <2>1 DEF TaskStep, TaskBegin, ConnectFailed, ConnectGarbled, ConnectTimesOut,
           TimedOut, SyncUnavailable, SyncGarbled, Finish
      <3>2. CASE TaskBegin \/ ConnectTimesOut
        BY <3>1, <3>2 DEF TaskBegin, ConnectTimesOut, TypeOK, Task
      <3>3. CASE SyncUnavailable
        BY <3>1, <3>3 DEF SyncUnavailable, Reconciled, IdleTask, TypeOK, Task
      <3>4. CASE ConnectFailed \/ ConnectGarbled \/ TimedOut \/ SyncGarbled \/ Finish
        BY <3>1, <3>4 DEF ConnectFailed, ConnectGarbled, TimedOut, Fail, SyncGarbled, Finish,
           IdleTask
      <3> QED BY <2>1, <3>2, <3>3, <3>4 DEF TaskStep
    <2>2. ASSUME \/ ConsumeStatus
                 \/ \E s \in Sids : ConnectReturns(s)
                 \/ \E a \in Aborters : Abort(a) \/ AbortWrite(a)
                 \/ \E p \in Pats : Start(p)
                 \/ UNCHANGED vars
          PROVE  UNCHANGED delivery /\ (task'.pc = "flipping" => UNCHANGED task)
      BY <2>2 DEF ConsumeStatus, ConnectReturns, Abort, AbortWrite, Start, vars, engine
    <2> QED BY <1>1, <1>2, <1>3, <1>4, <1>5, <2>1, <2>2 DEF Next

\* So the invariant holds.
LEMMA OutHolds == Spec => []OutInv
  <1>1. Init => OutInv
    BY DEF Init, OutInv, OutBoxAccounted, SentAccounted, IdleTask
  <1>2. TypeOK /\ TaskMatchesRow /\ OutInv /\ [Next]_vars => OutInv'
    BY OutKeeps
  <1> QED BY <1>1, <1>2, BothHold, PTL DEF Spec

\* For any number of PAT instances, sessions, deliveries and retries in threads:
\* a delivery that _reconcile_outbound shows as SENT names a session that has
\* run, and is not in the out box of that session's PAT unless a thread posted
\* it between the session's listing and its flip.  No restart, abort, lost
\* answer or missing id makes it claim more; what it does not say, and the
\* documents do, is run PatSession_sent.
THEOREM SentIsAccounted == Spec => []SentAccounted
  <1>1. OutInv => SentAccounted
    BY DEF OutInv
  <1> QED BY <1>1, OutHolds, PTL

\* Likewise the ids the rows hold, and those that threads are about to commit,
\* are ones PAT handed out, no row is SENT without one, and between
\* _reconcile_outbound's listing and its flip nothing but a thread adds to the
\* out box that was listed: what the event loop posts waits.
THEOREM ListingStaysTrue == Spec => []OutBoxAccounted
  <1>1. OutInv => OutBoxAccounted
    BY DEF OutInv
  <1> QED BY <1>1, OutHolds, PTL

================================================================================
