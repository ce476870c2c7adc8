------------------------------ MODULE EventRoom ------------------------------
(***************************************************************************)
(* One live event: its row, its log, its roster of participants and posts, *)
(* its Winlink messages, and everything that writes them concurrently.     *)
(*                                                                         *)
(* An operator's request runs in two parts.  The permission dependency     *)
(* (event_auth.require_event_role) is synchronous, so it runs in a thread  *)
(* of the pool and loads the event row into the request's session          *)
(* (Authorize).  The handler is a coroutine without an await in its body,  *)
(* so it then runs in one go on the event loop and commits (the other      *)
(* actions on a request).  The handler reads the row again, FOR UPDATE,    *)
(* but the session already holds that row and the query does not ask for   *)
(* populate_existing, so what the handler sees are the values loaded by    *)
(* the dependency: requests[r].row.  Rows of the other tables are first    *)
(* loaded by the handler, so it sees them as they are.  At the commit the  *)
(* database refuses a log entry whose (event_id, seq) exists.              *)
(*                                                                         *)
(* A mailbox scan commits one message at a time.  The background scan and  *)
(* POST /rescan run on the event loop, which they block; POST              *)
(* /scanner/trigger runs in a thread of the pool.                          *)
(***************************************************************************)
EXTENDS Naturals, Sequences, FiniteSets

CONSTANTS
    Requests,        \* slots for operators' requests in flight
    Scanners,        \* a subset of {"loop", "thread"}
    Callsigns,       \* participants' callsigns
    PostIds, PostNames,
    Raws,            \* raw_messages rows addressed to the event
    Details,         \* contents of the event's editable columns
    FieldStatuses,   \* at_post, en_route, out_of_service
    DeliveryOutcomes,\* what dispatch_delivery leaves: queued, sent, failed
    AprsConfigured,  \* the event's config enables APRS
    MayRestart,      \* the process may crash and boot again
    MaxLog,          \* bound: operators stop writing at this many log entries
    MaxSent,         \* bound: outbound messages
    Pins,            \* a subset of BOOLEAN: what an entry's pinned flag is set to
    Triage,          \* the statuses operators set a message to
    None

ASSUME RequestsAssumption == IsFiniteSet(Requests) /\ Scanners \subseteq {"loop", "thread"}
ASSUME StatusAssumption == FieldStatuses \subseteq {"at_post", "en_route", "out_of_service"}
ASSUME OutcomeAssumption == DeliveryOutcomes \subseteq {"queued", "sent", "failed"}
ASSUME NoneAssumption ==
    /\ None \notin Callsigns \cup PostIds \cup PostNames \cup Raws \cup Details
    /\ None \notin {"checked_in", "checked_out"} \cup FieldStatuses
    /\ None \notin DeliveryOutcomes
ASSUME FlagAssumption ==
    AprsConfigured \in BOOLEAN /\ MayRestart \in BOOLEAN /\ Pins \subseteq BOOLEAN
ASSUME TriageAssumption == Triage \subseteq {"unread", "read", "dismissed"}
ASSUME BoundAssumption == MaxLog \in Nat /\ MaxSent \in Nat
ASSUME DetailsAssumption == Details # {}

VARIABLES
    event,         \* the events row
    log,           \* event_log rows, in the order of their ids
    participants,  \* event_participants: [status, post], status None: no row
    posts,         \* event_posts: post id -> name, None: no row
    messages,      \* event_messages rows, in the order of their ids
    mailbox,       \* raw messages the mailbox holds
    requests,      \* the sessions of the requests in flight
    scans,         \* the scans in progress
    aprs           \* whether the event's APRS client is running

tables == <<event, log, participants, posts, messages>>
vars == <<tables, mailbox, requests, scans, aprs>>

------------------------------------------------------------------------------
(* Types *)

EventStatus == {"none", "draft", "active", "closed", "deleted"}
Live == {"draft", "active", "closed"}
ParticipantStatus == {"checked_in", "checked_out"} \cup FieldStatuses
MessageStatus == {"unread", "read", "dismissed"}
Kinds == {"activated", "closed", "reopened", "operator", "inbound"}

EventRow == [status: EventStatus, log_seq: Nat, msg_seq: Nat, details: Details]
Entry == [seq: Nat, kind: Kinds, callsign: Callsigns \cup {None},
          new_status: ParticipantStatus \cup {None}, pinned: BOOLEAN]
Participant == [status: ParticipantStatus \cup {None}, post: PostIds \cup {None}]
Message == [msg_seq: Nat, raw: Raws \cup {None}, status: MessageStatus,
            delivery: DeliveryOutcomes \cup {None}]
Request == [pc: {"idle", "authorized", "dispatch"}, row: EventRow \cup {None}, message: Nat]
Scan == [pc: {"idle", "run", "commit"}, row: EventRow \cup {None},
         todo: SUBSET Raws, raw: Raws \cup {None}]

ASSUME RowAssumption == None \notin EventRow

TypeOK ==
    /\ event \in EventRow
    /\ log \in Seq(Entry)
    /\ participants \in [Callsigns -> Participant]
    /\ posts \in [PostIds -> PostNames \cup {None}]
    /\ messages \in Seq(Message)
    /\ mailbox \in SUBSET Raws
    /\ requests \in [Requests -> Request]
    /\ scans \in [Scanners -> Scan]
    /\ aprs \in BOOLEAN

------------------------------------------------------------------------------
(* Initial state *)

NoParticipant == [status |-> None, post |-> None]
IdleRequest == [pc |-> "idle", row |-> None, message |-> 0]
IdleScan == [pc |-> "idle", row |-> None, todo |-> {}, raw |-> None]

Init ==
    /\ \E d \in Details : event = [status |-> "none", log_seq |-> 0, msg_seq |-> 0, details |-> d]
    /\ log = <<>>
    /\ participants = [c \in Callsigns |-> NoParticipant]
    /\ posts = [p \in PostIds |-> None]
    /\ messages = <<>>
    /\ mailbox = {}
    /\ requests = [r \in Requests |-> IdleRequest]
    /\ scans = [s \in Scanners |-> IdleScan]
    /\ aprs = FALSE

------------------------------------------------------------------------------
(* The log and its sequence numbers *)

Unpinned == FALSE
LogEntry(kind, c, s, pin) ==
    [seq |-> 0, kind |-> kind, callsign |-> c, new_status |-> s, pinned |-> pin]

\* add_log_entry, once per new entry: the next numbers after those of the
\* event row the session holds.
Stamped(row, new) == [i \in 1..Len(new) |-> [new[i] EXCEPT !.seq = row.log_seq + i]]

\* Mutant: the unique constraint is missing.
SeqsUnchecked(row, new) == TRUE

\* uq_event_log_event_seq lets the commit through.
SeqsFree(row, new) ==
    \A i \in 1..Len(new), j \in 1..Len(log) : log[j].seq # row.log_seq + i

\* Mutant: the number is not stored in the event row.
CommitUnnumbered(row, new, status) ==
    /\ SeqsFree(row, new)
    /\ log' = log \o Stamped(row, new)
    /\ event' = [event EXCEPT !.status = status]
\* The commit of a session that holds `row` and adds the log entries `new`.
\* Only the columns it assigned are written.
CommitLog(row, new, status) ==
    /\ SeqsFree(row, new)
    /\ log' = log \o Stamped(row, new)
    /\ event' = [event EXCEPT !.log_seq = row.log_seq + Len(new), !.status = status]

------------------------------------------------------------------------------
(* Requests *)

\* A scan on the event loop, or a handler that waits for PAT, keeps every
\* other handler waiting.
LoopFree ==
    /\ \A s \in Scanners : s = "loop" => scans[s].pc = "idle"
    /\ \A r \in Requests : requests[r].pc # "dispatch"

\* require_event_role: db.get(Event, event_id) in a thread of the pool.
Authorize(r) ==
    /\ requests[r].pc = "idle"
    /\ event.status \in Live
    /\ requests' = [requests EXCEPT ![r] = [pc |-> "authorized", row |-> event, message |-> 0]]
    /\ UNCHANGED <<tables, mailbox, scans, aprs>>

\* Mutant: the handler does not look at the status.
HandlesAnyStatus(r, statuses) ==
    /\ requests[r].pc = "authorized"
    /\ LoopFree
    /\ event.status \in Live

\* The handler of r runs, on a row that still exists, in a session whose copy
\* of it has one of these statuses.
Handles(r, statuses) ==
    /\ requests[r].pc = "authorized"
    /\ LoopFree
    /\ event.status \in Live
    /\ requests[r].row.status \in statuses

Answer(r) == requests' = [requests EXCEPT ![r] = IdleRequest]

RoomFor(new) == Len(log) + Len(new) <= MaxLog

\* The request fails and writes nothing.  404, 409, 422: the body is invalid,
\* the event is gone, or its status, as the session sees it, does not allow
\* the write.  500: the number its log entry got is taken (IntegrityError).
Refuse(r) ==
    /\ requests[r].pc = "authorized"
    /\ LoopFree
    /\ Answer(r)
    /\ UNCHANGED <<tables, mailbox, scans, aprs>>

------------------------------------------------------------------------------
(* The event's life *)

Create ==
    /\ event.status = "none"
    /\ LoopFree
    /\ event' = [event EXCEPT !.status = "draft"]
    /\ UNCHANGED <<log, participants, posts, messages, mailbox, requests, scans, aprs>>

\* Mutant: the kind is passed where the callsign belongs.
LifecycleEntrySwapped(kind) == <<LogEntry("operator", kind, None, Unpinned)>>

LifecycleEntry(kind) == <<LogEntry(kind, None, None, Unpinned)>>

\* aprs_manager.ensure_started: its own session reads the row as committed.
EnsureStarted == aprs' = (aprs \/ (AprsConfigured /\ event'.status = "active"))

Activate(r) ==
    /\ Handles(r, {"draft"})
    /\ RoomFor(LifecycleEntry("activated"))
    /\ CommitLog(requests[r].row, LifecycleEntry("activated"), "active")
    /\ EnsureStarted
    /\ Answer(r)
    /\ UNCHANGED <<participants, posts, messages, mailbox, scans>>

Close(r) ==
    /\ Handles(r, {"active"})
    /\ RoomFor(LifecycleEntry("closed"))
    /\ CommitLog(requests[r].row, LifecycleEntry("closed"), "closed")
    /\ aprs' = FALSE
    /\ Answer(r)
    /\ UNCHANGED <<participants, posts, messages, mailbox, scans>>

Reopen(r) ==
    /\ Handles(r, {"closed"})
    /\ RoomFor(LifecycleEntry("reopened"))
    /\ CommitLog(requests[r].row, LifecycleEntry("reopened"), "active")
    /\ EnsureStarted
    /\ Answer(r)
    /\ UNCHANGED <<participants, posts, messages, mailbox, scans>>

\* An attribute set to the value the session holds is not written.
UpdateEvent(r) ==
    /\ Handles(r, {"draft", "active"})
    /\ \E d \in Details :
          event' = IF d = requests[r].row.details THEN event ELSE [event EXCEPT !.details = d]
    /\ EnsureStarted
    /\ Answer(r)
    /\ UNCHANGED <<log, participants, posts, messages, mailbox, scans>>

\* The rows of the event go with it (cascade="all, delete-orphan").
Delete(r) ==
    /\ Handles(r, Live)
    /\ event' = [event EXCEPT !.status = "deleted", !.log_seq = 0, !.msg_seq = 0]
    /\ log' = <<>>
    /\ participants' = [c \in Callsigns |-> NoParticipant]
    /\ posts' = [p \in PostIds |-> None]
    /\ messages' = <<>>
    /\ aprs' = FALSE
    /\ Answer(r)
    /\ UNCHANGED <<mailbox, scans>>

------------------------------------------------------------------------------
(* Posts: no log entry *)

\* Mutant: names are not compared.
NameNeverTaken(n, except) == FALSE

NameTaken(n, except) == \E p \in PostIds \ except : posts[p] = n

CreatePost(r) ==
    /\ Handles(r, {"draft", "active"})
    /\ \E p \in PostIds, n \in PostNames :
          /\ posts[p] = None
          /\ ~NameTaken(n, {})
          /\ posts' = [posts EXCEPT ![p] = n]
    /\ Answer(r)
    /\ UNCHANGED <<event, log, participants, messages, mailbox, scans, aprs>>

UpdatePost(r) ==
    /\ Handles(r, {"draft", "active"})
    /\ \E p \in PostIds, n \in PostNames :
          /\ posts[p] # None
          /\ ~NameTaken(n, {p})
          /\ posts' = [posts EXCEPT ![p] = n]
    /\ Answer(r)
    /\ UNCHANGED <<event, log, participants, messages, mailbox, scans, aprs>>

DeletePost(r) ==
    /\ Handles(r, {"draft", "active"})
    /\ \E p \in PostIds :
          /\ posts[p] # None
          /\ \A c \in Callsigns : participants[c].post # p
          /\ posts' = [posts EXCEPT ![p] = None]
    /\ Answer(r)
    /\ UNCHANGED <<event, log, participants, messages, mailbox, scans, aprs>>

------------------------------------------------------------------------------
(* Participants *)

PostsNow == {p \in PostIds : posts[p] # None}

CheckIn(r) ==
    /\ Handles(r, {"active"})
    /\ \E c \in Callsigns, p \in PostsNow \cup {None} :
          LET new == <<LogEntry("operator", c, "checked_in", Unpinned)>> IN
          /\ participants[c].status \in {None, "checked_out"}
          /\ RoomFor(new)
          /\ CommitLog(requests[r].row, new, event.status)
          /\ participants' = [participants EXCEPT
                 ![c] = [status |-> "checked_in", post |-> IF p # None THEN p ELSE @.post]]
    /\ Answer(r)
    /\ UNCHANGED <<posts, messages, mailbox, scans, aprs>>

\* The fields a PATCH of a participant may set; "unset" leaves one alone.
\* (The name is not an operational fact and is not modelled.)
Patches == [status: ParticipantStatus \cup {"unset"},
            post: {<<"unset">>, <<"clear">>} \cup {<<"assign", p>> : p \in PostsNow},
            location: BOOLEAN]

\* Mutant: a check-out is not logged.
StatusEntriesButCheckOut(c, patch) ==
    IF patch.status \in {"unset", "checked_out", participants[c].status} THEN <<>>
    ELSE <<LogEntry("operator", c, patch.status, Unpinned)>>
StatusEntries(c, patch) ==
    IF patch.status \in {"unset", participants[c].status} THEN <<>>
    ELSE <<LogEntry("operator", c, patch.status, Unpinned)>>
AssignEntries(c, patch) ==
    IF patch.post = <<"unset">> THEN <<>> ELSE <<LogEntry("operator", c, None, Unpinned)>>
LocationEntries(c, patch) ==
    IF patch.location THEN <<LogEntry("operator", c, None, Unpinned)>> ELSE <<>>
PatchEntries(c, patch) ==
    StatusEntries(c, patch) \o AssignEntries(c, patch) \o LocationEntries(c, patch)

Patched(old, patch) ==
    [status |-> IF patch.status = "unset" THEN old.status ELSE patch.status,
     post   |-> IF patch.post = <<"unset">> THEN old.post
                ELSE IF patch.post = <<"clear">> THEN None ELSE patch.post[2]]

\* Who has left comes back by checking in.
MayPatch(c, patch) ==
    /\ participants[c].status # None
    /\ participants[c].status = "checked_out"
          => patch.status \in {"unset", "checked_out", "checked_in"}

UpdateParticipant(r) ==
    /\ Handles(r, {"active"})
    /\ \E c \in Callsigns, patch \in Patches :
          LET new == PatchEntries(c, patch) IN
          /\ MayPatch(c, patch)
          /\ RoomFor(new)
          /\ IF new = <<>> THEN UNCHANGED <<event, log>>
             ELSE CommitLog(requests[r].row, new, event.status)
          /\ participants' = [participants EXCEPT ![c] = Patched(@, patch)]
    /\ Answer(r)
    /\ UNCHANGED <<posts, messages, mailbox, scans, aprs>>

------------------------------------------------------------------------------
(* Notes *)

AddNote(r) ==
    /\ Handles(r, {"active"})
    /\ \E c \in Callsigns \cup {None}, pin \in Pins :
          LET new == <<LogEntry("operator", c, None, pin)>> IN
          /\ RoomFor(new)
          /\ CommitLog(requests[r].row, new, event.status)
    /\ Answer(r)
    /\ UNCHANGED <<participants, posts, messages, mailbox, scans, aprs>>

SetLogPinned(r) ==
    /\ Handles(r, {"draft", "active"})
    /\ \E i \in 1..Len(log), pin \in Pins : log' = [log EXCEPT ![i].pinned = pin]
    /\ Answer(r)
    /\ UNCHANGED <<event, participants, posts, messages, mailbox, scans, aprs>>

------------------------------------------------------------------------------
(* Winlink messages *)

Outbound == {i \in 1..Len(messages) : messages[i].raw = None}

\* send_event_message, send_event_form_message: the message takes the number
\* after the msg_seq the session holds and is committed; dispatch_delivery
\* then tries it, and the handler waits for PAT without leaving the loop.
SendMessage(r) ==
    /\ Handles(r, {"active"})
    /\ Cardinality(Outbound) < MaxSent
    /\ messages' = Append(messages, [msg_seq |-> requests[r].row.msg_seq + 1, raw |-> None,
                                     status |-> "read", delivery |-> None])
    /\ event' = [event EXCEPT !.msg_seq = requests[r].row.msg_seq + 1]
    /\ requests' = [requests EXCEPT
           ![r] = [pc |-> "dispatch", row |-> None, message |-> Len(messages) + 1]]
    /\ UNCHANGED <<log, participants, posts, mailbox, scans, aprs>>

\* dispatch_delivery: the one attempt is recorded in the delivery log, unless it
\* raises what neither winlink.py nor dispatch_delivery catches; the message,
\* committed before, then stays without an attempt.
DispatchMessage(r) ==
    /\ requests[r].pc = "dispatch"
    /\ \/ \E d \in DeliveryOutcomes :
             messages' = [messages EXCEPT ![requests[r].message].delivery = d]
       \/ UNCHANGED messages
    /\ Answer(r)
    /\ UNCHANGED <<event, log, participants, posts, mailbox, scans, aprs>>

SetMessageStatus(r) ==
    /\ Handles(r, {"active"})
    /\ \E i \in 1..Len(messages), s \in Triage :
          messages' = [messages EXCEPT ![i].status = s]
    /\ Answer(r)
    /\ UNCHANGED <<event, log, participants, posts, mailbox, scans, aprs>>

\* retry_failed: whatever the event's status.
RetryMessage(r) ==
    /\ Handles(r, Live)
    /\ \E i \in Outbound, d \in DeliveryOutcomes :
          /\ messages[i].delivery = "failed"
          /\ messages' = [messages EXCEPT ![i].delivery = d]
    /\ Answer(r)
    /\ UNCHANGED <<event, log, participants, posts, mailbox, scans, aprs>>

------------------------------------------------------------------------------
(* Scans: route_event_messages *)

Arrive(m) ==
    /\ m \notin mailbox
    /\ mailbox' = mailbox \cup {m}
    /\ UNCHANGED <<tables, requests, scans, aprs>>

\* Mutant: messages are not deduplicated.
NeverRouted(m) == FALSE

Routed(m) == \E i \in 1..Len(messages) : messages[i].raw = m

\* Mutant: an event that has messages is taken for up to date.
BeginIfEmpty(s, row) ==
    scans' = [scans EXCEPT ![s] = [pc |-> "run", row |-> row, raw |-> None,
                                   todo |-> IF messages = <<>> THEN mailbox ELSE {}]]

Begin(s, row) ==
    scans' = [scans EXCEPT ![s] = [pc |-> "run", row |-> row, todo |-> mailbox, raw |-> None]]

\* The active events are queried once, when the scan starts.
StartScan(s) ==
    /\ scans[s].pc = "idle"
    /\ s = "loop" => LoopFree
    /\ event.status = "active"
    /\ Begin(s, event)
    /\ UNCHANGED <<tables, mailbox, requests, aprs>>

\* POST /rescan: the session of the request already holds the row, so the
\* scan starts from the values its permission dependency loaded.
Rescan(r) ==
    /\ "loop" \in Scanners
    /\ Handles(r, {"active"})
    /\ IF event.status = "active" THEN Begin("loop", requests[r].row) ELSE UNCHANGED scans
    /\ Answer(r)
    /\ UNCHANGED <<tables, mailbox, aprs>>

\* The next message: skipped if it was routed, else prepared for the commit.
\* After a rollback (row None) the first use of the event reloads it; if the
\* row is gone by then the scan ends.
ScanPick(s) ==
    /\ scans[s].pc = "run"
    /\ \E m \in scans[s].todo :
          \/ /\ scans[s].row = None
             /\ event.status \notin Live
             /\ scans' = [scans EXCEPT ![s] = IdleScan]
          \/ /\ scans[s].row # None \/ event.status \in Live
             /\ scans' = [scans EXCEPT
                    ![s].row = IF @ = None THEN event ELSE @,
                    ![s].pc = IF Routed(m) THEN "run" ELSE "commit",
                    ![s].todo = @ \ {m},
                    ![s].raw = IF Routed(m) THEN None ELSE m]
    /\ UNCHANGED <<tables, mailbox, requests, aprs>>

\* Its callsign, the sender's, records no status and is left out.
BreadCrumb == <<LogEntry("inbound", None, None, Unpinned)>>

\* The commit of one message and its log entry.  IntegrityError: rolled back,
\* the session forgets the row, and the scan goes on with the next message.
\* An event deleted meanwhile (StaleDataError) ends the scan.
ScanCommit(s) ==
    LET row == scans[s].row
        new == [msg_seq |-> row.msg_seq + 1, raw |-> scans[s].raw,
                status |-> "unread", delivery |-> None]
    IN
    /\ scans[s].pc = "commit"
    /\ \/ /\ event.status \in Live
          /\ ~Routed(scans[s].raw)
          /\ SeqsFree(row, BreadCrumb)
          /\ log' = log \o Stamped(row, BreadCrumb)
          /\ messages' = Append(messages, new)
          /\ event' = [event EXCEPT !.log_seq = row.log_seq + 1, !.msg_seq = row.msg_seq + 1]
          /\ scans' = [scans EXCEPT ![s] =
                 [@ EXCEPT !.pc = "run", !.raw = None,
                           !.row = [row EXCEPT !.log_seq = @ + 1, !.msg_seq = @ + 1]]]
       \/ /\ event.status \in Live
          /\ Routed(scans[s].raw) \/ ~SeqsFree(row, BreadCrumb)
          /\ scans' = [scans EXCEPT ![s] = [@ EXCEPT !.pc = "run", !.raw = None, !.row = None]]
          /\ UNCHANGED <<event, log, messages>>
       \/ /\ event.status \notin Live
          /\ scans' = [scans EXCEPT ![s] = IdleScan]
          /\ UNCHANGED <<event, log, messages>>
    /\ UNCHANGED <<participants, posts, mailbox, requests, aprs>>

ScanEnd(s) ==
    /\ scans[s].pc = "run"
    /\ scans[s].todo = {}
    /\ scans' = [scans EXCEPT ![s] = IdleScan]
    /\ UNCHANGED <<tables, mailbox, requests, aprs>>

------------------------------------------------------------------------------
\* The process dies and boots: sessions, scans and clients are lost, and
\* start_for_active_events starts the client of an active event.
Restart ==
    /\ MayRestart
    /\ requests' = [r \in Requests |-> IdleRequest]
    /\ scans' = [s \in Scanners |-> IdleScan]
    /\ aprs' = (AprsConfigured /\ event.status = "active")
    /\ UNCHANGED <<tables, mailbox>>

Handler(r) ==
    \/ Refuse(r) \/ DispatchMessage(r)
    \/ Activate(r) \/ Close(r) \/ Reopen(r) \/ UpdateEvent(r) \/ Delete(r)
    \/ CreatePost(r) \/ UpdatePost(r) \/ DeletePost(r)
    \/ CheckIn(r) \/ UpdateParticipant(r) \/ AddNote(r) \/ SetLogPinned(r)
    \/ SendMessage(r) \/ SetMessageStatus(r) \/ RetryMessage(r) \/ Rescan(r)

ScanStep(s) == StartScan(s) \/ ScanPick(s) \/ ScanCommit(s) \/ ScanEnd(s)

Next ==
    \/ Create
    \/ \E r \in Requests : Authorize(r) \/ Handler(r)
    \/ \E m \in Raws : Arrive(m)
    \/ \E s \in Scanners : ScanStep(s)
    \/ Restart

Spec == Init /\ [][Next]_vars

\* The background loop keeps scanning, and PAT's client answers or times out;
\* operators owe nothing.
FairSpec == /\ Spec
            /\ \A s \in Scanners : WF_vars(s = "loop" /\ ScanStep(s))
            /\ \A r \in Requests : WF_vars(DispatchMessage(r))

------------------------------------------------------------------------------
(* Safety *)

\* The log is numbered 1, 2, 3, ... in the order of its commits, and the
\* event's log_seq is its length: sessions that hold an outdated row can only
\* lose (add_log_entry, uq_event_log_event_seq).
LogGapFree ==
    /\ \A i \in 1..Len(log) : log[i].seq = i
    /\ event.log_seq = Len(log)

\* What makes that so: a session's copy of the event row is never ahead of
\* the row, and a copy that has the row's log_seq has its status too.  A
\* request whose copy is outdated in a way that matters gets a number that is
\* taken.
Snapshot(row) ==
    /\ row.log_seq <= event.log_seq
    /\ row.log_seq = event.log_seq => row.status = event.status
SnapshotsTell ==
    /\ \A r \in Requests : requests[r].pc = "authorized" =>
          /\ requests[r].row \in EventRow
          /\ event.status # "none"
          /\ event.status # "deleted" => Snapshot(requests[r].row)
    /\ \A s \in Scanners : scans[s].pc # "idle" =>
          /\ scans[s].pc = "commit" => scans[s].row \in EventRow
          /\ event.status \notin {"none", "draft"}
          /\ event.status # "deleted" /\ scans[s].row \in EventRow => Snapshot(scans[s].row)

\* compute_report's pass over the entries of one callsign: `open` is the
\* entry that opened the current stint (0: none), `done` the finished stints.
Report(c) ==
    LET after[i \in 0..Len(log)] ==
            IF i = 0 THEN [open |-> 0, done |-> <<>>]
            ELSE LET was == after[i-1]
                     now == IF log[i].callsign = c THEN log[i].new_status ELSE None IN
                 IF now = "checked_in" /\ was.open = 0 THEN [was EXCEPT !.open = i]
                 ELSE IF now = "checked_out" /\ was.open # 0
                 THEN [open |-> 0, done |-> Append(was.done, <<was.open, i>>)]
                 ELSE was
    IN after[Len(log)]

\* Roster, log and report agree (check_in, update_participant,
\* compute_report): a participant's current_status is the last new_status the
\* log records for the callsign, and nobody is on the roster without an entry
\* or in the log without being on the roster.  A stint is open exactly for
\* those who are on the event, and every check-out closes one, so that no
\* hours are lost or counted twice.
LastStatus(c, s) ==
    \E i \in 1..Len(log) :
        /\ log[i].callsign = c /\ log[i].new_status = s
        /\ \A j \in (i+1)..Len(log) : log[j].callsign = c => log[j].new_status = None
CheckOuts(c) == {i \in 1..Len(log) : log[i].callsign = c /\ log[i].new_status = "checked_out"}
RosterMatchesLog ==
    \A c \in Callsigns :
        /\ IF participants[c].status = None
           THEN \A i \in 1..Len(log) : ~(log[i].callsign = c /\ log[i].new_status # None)
           ELSE LastStatus(c, participants[c].status)
        /\ Report(c).open # 0 <=> participants[c].status \notin {None, "checked_out"}
        /\ Len(Report(c).done) = Cardinality(CheckOuts(c))

\* A raw message becomes at most one message of the event, however scans
\* overlap, and each has its breadcrumb in the log.
RoutedOnce ==
    /\ \A i, j \in 1..Len(messages) :
          messages[i].raw # None /\ messages[i].raw = messages[j].raw => i = j
    /\ Cardinality({i \in 1..Len(messages) : messages[i].raw # None})
         = Cardinality({i \in 1..Len(log) : log[i].kind = "inbound"})

\* Post names are unique and nobody is assigned to a post that does not exist
\* (delete_post, _resolve_post).
PostsResolve ==
    /\ \A p, q \in PostIds : posts[p] # None /\ posts[p] = posts[q] => p = q
    /\ \A c \in Callsigns : participants[c].post # None => posts[participants[c].post] # None

\* Log entries are immutable: until the event is deleted, a step adds entries
\* at the end and changes nothing else but pins.
LogAppendOnly ==
    [][event'.status # "deleted" =>
          /\ Len(log') >= Len(log)
          /\ \A i \in 1..Len(log) : [log'[i] EXCEPT !.pinned = log[i].pinned] = log[i]]_log

\* What the event promises its readers.
Promise == INSTANCE EventLog WITH
    status <- event.status,
    entries <- [i \in 1..Len(log) |-> log[i].kind]
ImplementsEventLog == Promise!Spec

(* Liveness *)

\* Mail for an active event is routed to it, unless the event closes first.
InboundRouted ==
    \A m \in Raws : (m \in mailbox /\ event.status = "active")
                        ~> (Routed(m) \/ event.status # "active")
==============================================================================
