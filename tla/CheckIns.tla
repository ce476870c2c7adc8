------------------------------- MODULE CheckIns -------------------------------
(***************************************************************************)
(* Mail becomes check-ins: the scans that import a net's mailbox into a    *)
(* session, the re-parse that reclaims stored messages, and the operator   *)
(* who deletes check-ins meanwhile.                                        *)
(*                                                                         *)
(* A scan commits once per message, and in the middle of a message when    *)
(* the geocoder stores an answer in its cache.  The scanner loop and the   *)
(* routes run on the event loop, one at a time; a triggered scan runs in a *)
(* thread beside them.  Between two commits anything may fail or stop.     *)
(*                                                                         *)
(* A message is the time it was received: received_at orders messages and  *)
(* places them in session windows.  What a message says is left out, but   *)
(* for its sender; so are manual check-ins and edits, which have no        *)
(* message and touch nothing here.                                         *)
(***************************************************************************)
EXTENDS Naturals, FiniteSets

CONSTANTS
    Horizon,    \* bound: the last moment, and with it the number of messages
    Sessions,   \* net sessions, each the moments of its window with grace
    Callsigns,  \* senders
    Workers,    \* who imports: "loop", and threads of POST /scanner/trigger
    MaxRows,    \* bound: check_ins rows ever inserted
    MayRestart, \* the process may stop and boot again
    None

Times == 1..Horizon

ASSUME HorizonAssumption == Horizon \in Nat
ASSUME SessionAssumption == Sessions \subseteq SUBSET Times
ASSUME RowAssumption == MaxRows \in Nat
ASSUME RestartAssumption == MayRestart \in BOOLEAN
ASSUME NoneAssumption == None \notin Sessions \cup Callsigns

VARIABLES
    now,         \* the clock
    from,        \* the callsign a message parses to, None: it has none
    mail,        \* messages whose file is in the mailbox
    scheduled,   \* sessions whose status is SCHEDULED
    raws,        \* raw_messages: none, kept (parsed = False) or parsed
    rows,        \* check_ins: [state, session, raw]
    jobs,        \* imports that run
    interrupted, \* messages an import gave up after the geocoder's commit
    shared       \* stored messages two imports had on their lists at a time

store == <<raws, rows>>
world == <<now, from, mail, scheduled>>
vars == <<world, store, jobs, interrupted, shared>>

Ids == 1..MaxRows

\* A row that is gone is remembered: removed by the operator, or replaced by a
\* scan that found a later message of the same callsign.
Row == [state: {"unused", "live", "removed", "replaced"},
        session: Sessions \cup {None}, raw: 0..Horizon]

Job == [pc: {"idle", "scan", "reparse"}, session: Sessions \cup {None},
        todo: SUBSET Times, reuse: SUBSET Times, half: 0..Horizon,
        latest: [Callsigns -> 0..MaxRows], dropped: SUBSET Ids, made: SUBSET Ids]

TypeOK ==
    /\ now \in 0..Horizon
    /\ from \in [Times -> Callsigns \cup {None}]
    /\ mail \subseteq Times
    /\ scheduled \subseteq Sessions
    /\ raws \in [Times -> {"none", "kept", "parsed"}]
    /\ rows \in [Ids -> Row]
    /\ jobs \in [Workers -> Job]
    /\ interrupted \subseteq Times
    /\ shared \subseteq Times

NewJob(pc, s, todo, reuse) ==
    [pc |-> pc, session |-> s, todo |-> todo, reuse |-> reuse, half |-> 0,
     latest |-> [c \in Callsigns |-> 0], dropped |-> {}, made |-> {}]

Idle == NewJob("idle", None, {}, {})

NoRow == [state |-> "unused", session |-> None, raw |-> 0]

Init ==
    /\ now = 0
    /\ from \in [Times -> Callsigns \cup {None}]
    /\ mail = {}
    /\ scheduled = Sessions
    /\ raws = [m \in Times |-> "none"]
    /\ rows = [i \in Ids |-> NoRow]
    /\ jobs = [w \in Workers |-> Idle]
    /\ interrupted = {}
    /\ shared = {}

Live(i) == rows[i].state = "live"

\* Handlers and the scanner loop share the event loop, threads do not wait.
LoopFree == "loop" \in Workers => jobs["loop"].pc = "idle"

Free(w) == jobs[w].pc = "idle"

------------------------------------------------------------------------------
(* The world: time, the radio, the other handlers *)

Tick ==
    /\ now < Horizon
    /\ now' = now + 1
    /\ UNCHANGED <<from, mail, scheduled, store, jobs, interrupted, shared>>

\* A message reaches the mailbox, long after it was received perhaps.
Arrive(m) ==
    /\ m <= now
    /\ raws[m] = "none"
    /\ mail' = mail \cup {m}
    /\ UNCHANGED <<now, from, scheduled, store, jobs, interrupted, shared>>

\* Approval, cancellation, PATCH: a session is SCHEDULED or is not.
SetScheduled(s) ==
    /\ LoopFree
    /\ \/ scheduled' = scheduled \ {s}
       \/ scheduled' = scheduled \cup {s}
    /\ UNCHANGED <<now, from, mail, store, jobs, interrupted, shared>>

\* purge_session_source_files, when the session's roster was sent, skipped or
\* deleted; rosters are drafted for sessions of any status.
Purge(s) ==
    /\ LoopFree
    /\ mail' = mail \ {rows[i].raw : i \in {j \in Ids : Live(j) /\ rows[j].session = s}}
    /\ UNCHANGED <<now, from, scheduled, store, jobs, interrupted, shared>>

DeleteCheckin(i) ==
    /\ LoopFree
    /\ Live(i)
    /\ rows' = [rows EXCEPT ![i] = [@ EXCEPT !.state = "removed"]]
    /\ UNCHANGED <<world, raws, jobs, interrupted, shared>>

------------------------------------------------------------------------------
(* Imports begin *)

\* find_active_session: SCHEDULED, and the window holds the present moment.
Active(s) == s \in scheduled /\ now \in s

\* Mutant: the messages are stored as parsed.
PersistAsParsed(w) ==
    /\ Free(w)
    /\ raws' = [m \in Times |-> IF m \in mail /\ raws[m] = "none" THEN "parsed" ELSE raws[m]]
    /\ UNCHANGED <<world, rows, jobs, interrupted, shared>>

\* _persist_raw_messages, for the routing of event mail: a scan while no
\* session is active, or an event's rescan, on the loop.
PersistRawMessages(w) ==
    /\ Free(w)
    /\ w = "loop" \/ \A s \in Sessions : ~Active(s)
    /\ raws' = [m \in Times |-> IF m \in mail /\ raws[m] = "none" THEN "kept" ELSE raws[m]]
    /\ UNCHANGED <<world, rows, jobs, interrupted, shared>>

\* The stored messages an import has on its list and may still file.
Claimed(w) == jobs[w].todo \cap (jobs[w].reuse \cup {jobs[w].half})

Begin(w, pc, s, todo, reuse) ==
    /\ jobs' = [jobs EXCEPT ![w] = NewJob(pc, s, todo, reuse)]
    /\ shared' = shared \cup (reuse \cap UNION {Claimed(v) : v \in Workers \ {w}})

Stored == {m \in Times : raws[m] # "none"}

\* Messages that are not done; a kept one is filed from the row it has.
NewMessages == {m \in mail : raws[m] # "parsed"}

\* scan_and_import_messages up to its first write: the scanner, a trigger, or
\* POST /checkins/scan, which takes any session of the net.
StartScan(w, s) ==
    /\ Free(w)
    /\ w = "loop" \/ Active(s)
    /\ NewMessages # {}
    /\ Begin(w, "scan", s, NewMessages, NewMessages \cap Stored)
    /\ UNCHANGED <<world, store, interrupted>>

\* Stored messages of the window that no check-in refers to.
Orphans(s) == {m \in Stored \cap s : \A i \in Ids : Live(i) => rows[i].raw # m}

\* reparse_session.  Re-parsing the check-ins there are changes none of this.
StartReparse(s) ==
    /\ "loop" \in Workers
    /\ LoopFree
    /\ Orphans(s) # {}
    /\ Begin("loop", "reparse", s, Orphans(s), Orphans(s))
    /\ UNCHANGED <<world, store, interrupted>>

------------------------------------------------------------------------------
(* Imports go on *)

\* Mutant: messages come in the order of the mailbox listing.
AnyNext(w, m) == m \in jobs[w].todo /\ jobs[w].half \in {0, m}

\* A scan takes its messages in the order they were received.
Turn(w, m) ==
    /\ m \in jobs[w].todo
    /\ jobs[w].half \in {0, m}
    /\ jobs[w].pc = "scan" => \A l \in jobs[w].todo : m <= l

\* Mutant: message_id is not unique.
InsertAnyway(w, m) == TRUE

\* raw_messages.message_id is unique: a message that got a row since the list
\* was made cannot be inserted again.
Insertable(w, m) == m \in jobs[w].reuse \/ raws[m] = "none" \/ jobs[w].half = m

\* Every commit also deletes the rows that were replaced before it.
WithoutDropped(w) ==
    [i \in Ids |-> IF i \in jobs[w].dropped /\ Live(i)
                   THEN [rows[i] EXCEPT !.state = "replaced"] ELSE rows[i]]

\* geocode_city or reverse_geocode_closest_city stores an answer: its commit
\* takes the message along, parsed, and without a check-in.
GeocodeCommit(w, m) ==
    /\ ~Free(w)
    /\ Turn(w, m)
    /\ jobs[w].half = 0
    /\ Insertable(w, m)
    /\ raws' = [raws EXCEPT ![m] = "parsed"]
    /\ rows' = WithoutDropped(w)
    /\ jobs' = [jobs EXCEPT ![w] = [jobs[w] EXCEPT !.half = m, !.dropped = {}]]
    /\ UNCHANGED <<world, interrupted, shared>>

NextRow(i) == rows[i].state = "unused" /\ \A j \in 1..(i-1) : rows[j].state # "unused"

\* The check-in of an earlier message of the same callsign in this scan.
Replaced(w, m) ==
    IF jobs[w].pc = "scan" /\ from[m] # None THEN {jobs[w].latest[from[m]]} \ {0} ELSE {}

Latest(w, m, i) == [c \in Callsigns |-> IF c = from[m] THEN i ELSE jobs[w].latest[c]]

Filed(w, m, i) ==
    [jobs[w] EXCEPT !.todo = @ \ {m}, !.half = 0, !.latest = Latest(w, m, i),
                    !.dropped = Replaced(w, m), !.made = @ \cup {i}]

\* process_raw_message, and the scan's dedup by callsign after it.
ProcessMessage(w, m) ==
    /\ ~Free(w)
    /\ Turn(w, m)
    /\ Insertable(w, m)
    /\ \E i \in Ids :
          /\ NextRow(i)
          /\ rows' = [WithoutDropped(w) EXCEPT
                         ![i] = [state |-> "live", session |-> jobs[w].session, raw |-> m]]
          /\ jobs' = [jobs EXCEPT ![w] = Filed(w, m, i)]
    /\ raws' = [raws EXCEPT ![m] = "parsed"]
    /\ UNCHANGED <<world, interrupted, shared>>

\* Mutant: the scan ends with its last message.
FinishUncommitted(w) ==
    /\ ~Free(w)
    /\ jobs[w].todo = {}
    /\ jobs' = [jobs EXCEPT ![w] = Idle]
    /\ UNCHANGED <<world, store, interrupted, shared>>

\* The last commit.
Finish(w) ==
    /\ ~Free(w)
    /\ jobs[w].todo = {}
    /\ rows' = WithoutDropped(w)
    /\ jobs' = [jobs EXCEPT ![w] = Idle]
    /\ UNCHANGED <<world, raws, interrupted, shared>>

\* A message another import stored first, a locked database, any exception: the
\* import ends where it is and rolls back to its last commit.
Fail(w) ==
    /\ ~Free(w)
    /\ jobs' = [jobs EXCEPT ![w] = Idle]
    /\ interrupted' = interrupted \cup ({jobs[w].half} \ {0})
    /\ UNCHANGED <<world, store, shared>>

Restart ==
    /\ MayRestart
    /\ jobs' = [w \in Workers |-> Idle]
    /\ interrupted' = interrupted \cup ({jobs[w].half : w \in Workers} \ {0})
    /\ UNCHANGED <<world, store, shared>>

Import(w) ==
    \/ \E m \in Times : GeocodeCommit(w, m) \/ ProcessMessage(w, m)
    \/ Finish(w)
    \/ Fail(w)

Next ==
    \/ Tick
    \/ \E m \in Times : Arrive(m)
    \/ \E s \in Sessions : SetScheduled(s) \/ Purge(s) \/ StartReparse(s)
    \/ \E i \in Ids : DeleteCheckin(i)
    \/ \E w \in Workers : PersistRawMessages(w) \/ Import(w)
    \/ \E w \in Workers, s \in Sessions : StartScan(w, s)
    \/ Restart

Spec == Init /\ [][Next]_vars

------------------------------------------------------------------------------
(* Properties *)

\* No message is lost: one that scans skip because it is parsed has, or had, a
\* check-in, unless an import is at it or was stopped between the geocoder's
\* commit and its own (scan_and_import_messages: "parsed=True, already have a
\* CheckIn").
NothingLost ==
    \A m \in Times : raws[m] = "parsed" =>
        \/ \E i \in Ids : rows[i].state # "unused" /\ rows[i].raw = m
        \/ m \in interrupted
        \/ \E w \in Workers : jobs[w].half = m

\* A scan takes a check-in away only for one of a later message of the same
\* callsign in the same session (keep latest).
LaterInstead(i, j) ==
    /\ rows[j].state # "unused"
    /\ rows[j].session = rows[i].session
    /\ rows[j].raw > rows[i].raw
    /\ from[rows[i].raw] # None
    /\ from[rows[j].raw] = from[rows[i].raw]

LatestWins ==
    \A i \in Ids : rows[i].state = "replaced" => \E j \in Ids : LaterInstead(i, j)

\* A message has one check-in at a time, over scans that overlap, fail and are
\* repeated, deletions and re-parses; two imports that both had its stored row
\* on their lists are the exception (raw_messages.checkin is a scalar).
OnePerMessage ==
    \A i, j \in Ids :
        Live(i) /\ Live(j) /\ rows[i].raw = rows[j].raw => i = j \/ rows[i].raw \in shared

\* A scan that comes to its end leaves one check-in per callsign of those it
\* made, even when the geocoder committed in between.
OneLeftPerCallsign ==
    [][\A w \in Workers : jobs[w].pc = "scan" /\ Finish(w) =>
          \A i, j \in jobs[w].made :
              /\ rows'[i].state = "live" /\ rows'[j].state = "live"
              /\ from[rows[i].raw] # None
              /\ from[rows[i].raw] = from[rows[j].raw]
              => i = j]_vars
===============================================================================
